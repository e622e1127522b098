------------------------------ MODULE RunLoop ------------------------------
(***************************************************************************)
(* The loop of Simulation.run (python/simulation.py) with what it          *)
(* evaluates: a tree of step functions, before each time step and once     *)
(* more at the end.  When it ends is in StopConditions; each action here   *)
(* is one of those, with what it does to the step functions.  They too are *)
(* Python objects with state of their own in a closure.                    *)
(*                                                                         *)
(* A user's step function is a leaf that records how it is called.         *)
(***************************************************************************)
EXTENDS StopConditions

VARIABLES
  objects,  \* the closure of each step function
  calls,    \* the calls the leaf has received in this run, or the last one
  last      \* when the step functions were last evaluated before this run,
            \* counting the end of a run

loopVars == <<objects, calls, last>>
vars == <<stopVars, loopVars>>
-----------------------------------------------------------------------------
(* Step functions.  A world is what a step function changes: the closures  *)
(* of the functions and the calls the leaf has received.                   *)

NewObject == [done |-> FALSE, finished |-> FALSE, tlast |-> 0]

RECURSIVE Evaluated(_, _, _)
eval_all(functions, todo, world) ==
  FoldLeft(LAMBDA w, f : Evaluated(f, todo, w), world, functions)

Marked(world, f, object) == [world EXCEPT !.objects[f.id] = object]

user(f, todo, world) ==
  IF todo = "step" \/ f.arguments = 2
  THEN [world EXCEPT !.calls = Append(@, [todo |-> todo, at |-> t])]
  ELSE world

\* A bug: a function whose condition is false at the end is not told so.
WhenTrueOnly(condition, f, todo, world) ==
  IF condition THEN eval_all(f.inner, todo, world) ELSE world

when_true_funcs(condition, f, todo, world) ==
  IF todo = "finish" \/ condition THEN eval_all(f.inner, todo, world) ELSE world

after_sources(f, todo, world) ==
  IF t >= ts THEN eval_all(f.inner, todo, world) ELSE world

after_sources_and_time(f, todo, world) ==
  IF t >= ts + f.time - t THEN eval_all(f.inner, todo, world) ELSE world

at_beginning(f, todo, world) ==
  IF world.objects[f.id].done THEN world
  ELSE Marked(eval_all(f.inner, todo, world), f, [NewObject EXCEPT !.done = TRUE])

at_end(f, todo, world) ==
  IF todo = "finish"
  THEN eval_all(f.inner, "finish", eval_all(f.inner, "step", world))
  ELSE world

\* The tolerance of half a time step keeps whole intervals exact.
\* A bug: the interval is counted from its multiples, not from the last call.
AtMultiples(f, todo, world) ==
  IF todo = "finish" \/ t % f.time = 0 THEN eval_all(f.inner, todo, world) ELSE world

at_every(f, todo, world) ==
  IF todo = "finish" \/ 2 * t >= 2 * (world.objects[f.id].tlast + f.time) - 1
  THEN Marked(eval_all(f.inner, todo, world), f, [NewObject EXCEPT !.tlast = t])
  ELSE world

\* at_time is after_time around _at_time, and shares its object with it.
AtTime(f, todo, world) ==
  LET done == world.objects[f.id].done
      called == IF ~done \/ todo = "finish" THEN eval_all(f.inner, todo, world)
                ELSE world
  IN  Marked(called, f, [NewObject EXCEPT !.done = done \/ todo = "step"])
at_time(f, todo, world) ==
  IF todo = "finish" \/ t >= f.time THEN AtTime(f, todo, world) ELSE world

during_sources(f, todo, world) ==
  IF t < ts THEN eval_all(f.inner, "step", world)
  ELSE IF ~world.objects[f.id].finished
  THEN Marked(eval_all(f.inner, "finish", world), f,
              [NewObject EXCEPT !.finished = TRUE])
  ELSE world

Evaluated(f, todo, world) ==
  CASE f.kind = "user" -> user(f, todo, world)
    [] f.kind = "combine_step_funcs" -> eval_all(f.inner, todo, world)
    [] f.kind = "when_true" -> when_true_funcs(Quiet, f, todo, world)
    [] f.kind = "after_time" -> when_true_funcs(t >= f.time, f, todo, world)
    [] f.kind = "before_time" -> when_true_funcs(t < f.time, f, todo, world)
    [] f.kind = "at_time" -> at_time(f, todo, world)
    [] f.kind = "after_sources" -> after_sources(f, todo, world)
    [] f.kind = "after_sources_and_time" -> after_sources_and_time(f, todo, world)
    [] f.kind = "at_beginning" -> at_beginning(f, todo, world)
    [] f.kind = "at_end" -> at_end(f, todo, world)
    [] f.kind = "at_every" -> at_every(f, todo, world)
    [] f.kind = "during_sources" -> during_sources(f, todo, world)
-----------------------------------------------------------------------------
(* A session.                                                              *)

RECURSIVE Kinds(_)
Kinds(f) == {f.kind} \cup UNION {Kinds(f.inner[i]) : i \in DOMAIN f.inner}

NewObjects == [id \in 1..3 |-> NewObject]

Init == StopInit /\ objects = NewObjects /\ calls = <<>> /\ last = 0

\* The script builds its step functions and conditions anew.
Build == BuildStops /\ objects' = NewObjects /\ calls' = <<>> /\ last' = 0

\* What a careful script does with its step functions: what counts from the
\* start of a run starts at time zero, what happens once is built for the
\* run, what waits for the sources is run beyond them.
FreshFunctions(after) ==
  LET kinds == Kinds(script.program)
  IN  /\ kinds \cap {"after_time", "before_time", "at_time"} # {} => t = 0
      /\ kinds \cap {"at_beginning", "at_time", "during_sources"} # {} => run = NoRun
      /\ kinds \cap {"after_sources", "during_sources"} # {} => after

\* sim.run(program, until = list) or (..., until_after_sources = list).
Run(after) ==
  /\ RunStops(after) /\ (Careful => FreshFunctions(after))
  /\ calls' = <<>>
  /\ last' = IF run.ended THEN t
             ELSE IF calls = <<>> THEN last
             ELSE calls[Len(calls)].at
  /\ UNCHANGED objects

World == [objects |-> objects, calls |-> calls]
Stepped == Evaluated(script.program, "step", World)

\* One turn of the loop: the step functions are evaluated, then the fields
\* make a step.
Step ==
  /\ GoOn
  /\ objects' = Stepped.objects /\ calls' = Stepped.calls
  /\ UNCHANGED last

\* The loop ends: the step functions are evaluated once more, and finished.
Finish ==
  /\ Stop
  /\ LET w == Evaluated(script.program, "finish", Stepped)
     IN  objects' = w.objects /\ calls' = w.calls
  /\ UNCHANGED last

Interrupt == GiveUp /\ UNCHANGED loopVars

restart_fields ==
  /\ RestartTime
  /\ calls' = <<>> /\ last' = 0
  /\ UNCHANGED objects

Next ==
  \/ Build
  \/ \E after \in BOOLEAN : Run(after)
  \/ Step
  \/ Finish
  \/ Interrupt
  \/ restart_fields

Spec == Init /\ [][Next]_vars
-----------------------------------------------------------------------------
(* Properties.                                                             *)

Calls(todo) == SelectSeq(calls, LAMBDA c : c.todo = todo)
StepTimes == {Calls("step")[i].at : i \in DOMAIN Calls("step")}
Latest(S) == CHOOSE u \in S : \A v \in S : v <= u

\* Whether a function is due at time u of a run, by its documentation.
RECURSIVE DueAt(_, _)
DueAt(f, u) ==
  /\ \A i \in DOMAIN f.inner : DueAt(f.inner[i], u)
  /\ CASE f.kind = "when_true" -> signal[u + 1] = 0
       [] f.kind = "after_time" -> u >= run.start + f.time
       [] f.kind = "before_time" -> u < run.start + f.time
       [] f.kind = "at_time" -> u = run.start + f.time
       [] f.kind = "after_sources" -> u >= ts
       [] f.kind = "after_sources_and_time" -> u >= ts + f.time
       [] f.kind = "during_sources" -> u < ts
       [] f.kind = "at_beginning" -> u = run.start
       [] f.kind = "at_end" -> u = t
       [] f.kind = "at_every" ->
            u >= f.time + Latest({last} \cup {v \in StepTimes : v < u})
       [] OTHER -> TRUE

\* In a run that has ended a user's step function was evaluated once at each
\* time at which its modifiers say it is due, and at no other time.
StepsAreDue ==
  run.ended =>
    /\ StepTimes = {u \in run.start..t : DueAt(script.program, u)}
    /\ Len(Calls("step")) = Cardinality(StepTimes)

\* A step function that collects data (Harminv, dft_ldos) hands it over when
\* it is told "finish": that comes once in a run that ends, after the last
\* step, whatever the modifiers; at_beginning alone never passes it on.
FinishFollowsSteps ==
  run.ended /\ script.program.arguments = 2 /\ "at_beginning" \notin Kinds(script.program) =>
    /\ Len(Calls("finish")) = 1
    /\ calls[Len(calls)].todo = "finish"
=============================================================================
