-------------------------- MODULE MeepJaxWrapper ---------------------------
(***************************************************************************)
(* The callable that JAX differentiates (python/adjoint/wrapper.py).  JAX  *)
(* calls `simulate' for a value, `_simulate_fwd' for a value it may have   *)
(* to differentiate, and `_simulate_rev', later, for the gradient of such  *)
(* a call.  Between the two the state that belongs to the call is kept in  *)
(* the wrapper and in its one Simulation, where other calls replace it.    *)
(***************************************************************************)
EXTENDS OptimizationProblem

CONSTANT CarefulJax   \* only the latest call is differentiated, and only once

VARIABLE jax
  \* calls: those JAX has not differentiated yet; latest: the one no later
  \* call has followed, if any; doing: the function that is running; answer:
  \* the gradient of the last reverse call

NoGradient == [returned |-> FALSE]
Resting == [function |-> "none"]

JaxInit ==
  \E d \in Designs :
    /\ sim = NewSimulation(0, ForwardSources, d) /\ queue = <<>>
    /\ jax = [calls |-> {}, latest |-> {}, doing |-> Resting, answer |-> NoGradient]

\* The monitors of a plain call are objects nobody else holds.
_run_fwd_simulation(design, monitor) ==
  NewDesign(design) \o CallWith("change_sources", ForwardSources)
    \o CallWith("add_monitor", "objective") \o CallWith("add_monitor", monitor)
    \o Call("init_sim") \o RunCalls

\* A bug: the forward monitors also see the adjoint run.
AccumulateFurther(sources) ==
  Call("restart_fields")
    \o CallWith("change_sources", sources) \o CallWith("add_monitor", "adjoint1")
    \o Call("init_sim") \o RunCalls

_run_adjoint_simulation(sources) ==
  Call("restart_fields") \o Call("clear_dft_monitors")
    \o CallWith("change_sources", sources) \o CallWith("add_monitor", "adjoint1")
    \o Call("init_sim") \o RunCalls

Starts(function, calls) ==
  /\ jax.doing = Resting /\ queue' = calls /\ UNCHANGED sim
  /\ jax' = [jax EXCEPT !.doing = function, !.latest = {}, !.answer = NoGradient]

Ends(function) == jax.doing.function = function /\ Idle /\ UNCHANGED <<sim, queue>>

simulate ==
  \E d \in Designs : Starts([function |-> "simulate"], _run_fwd_simulation(d, "adjoint2"))

simulate_ends == Ends("simulate") /\ jax' = [jax EXCEPT !.doing = Resting]

_simulate_fwd ==
  \E d \in Designs :
    Starts([function |-> "_simulate_fwd", design |-> d], _run_fwd_simulation(d, "forward"))

_simulate_fwd_ends ==
  /\ Ends("_simulate_fwd")
  /\ LET call == [design |-> jax.doing.design, values |-> DataOf(sim, "objective")]
     IN  jax' = [jax EXCEPT !.doing = Resting, !.calls = @ \cup {call}, !.latest = {call}]

_simulate_rev ==
  \E call \in jax.calls :
    /\ CarefulJax => call \in jax.latest
    /\ Starts([function |-> "_simulate_rev", call |-> call],
              _run_adjoint_simulation(AdjointSources(1, call.values)))

_simulate_rev_ends ==
  /\ Ends("_simulate_rev")
  /\ jax' = [jax EXCEPT !.doing = Resting, !.calls = @ \ {jax.doing.call},
                        !.answer = [returned |-> TRUE, call |-> jax.doing.call,
                                    forward |-> DataOf(sim, "forward"),
                                    adjoint |-> DataOf(sim, "adjoint1"),
                                    structure |-> sim.structure]]

\* An exception ends the function; its caller may go on with another.
JaxRaises ==
  /\ jax.doing # Resting
  /\ queue' = <<>>
  /\ jax' = [jax EXCEPT !.doing = Resting]
  /\ UNCHANGED sim

JaxNext ==
  \/ Perform /\ UNCHANGED jax
  \/ simulate
  \/ simulate_ends
  \/ _simulate_fwd
  \/ _simulate_fwd_ends
  \/ _simulate_rev
  \/ _simulate_rev_ends
  \/ JaxRaises

JaxSpec == JaxInit /\ [][JaxNext]_<<sim, queue, jax>>
-----------------------------------------------------------------------------
\* The gradient JAX is given for a call combines the fields of the run of that
\* call with those of an adjoint run for its values and its design.
GradientIsOfItsCall ==
  jax.answer.returned =>
    LET call == jax.answer.call
        sources == [objective |-> 1, of |-> call.values, during |-> call.values[1]]
    IN  /\ call.values = OneRun(0, ForwardSources, call.design)
        /\ jax.answer.forward = call.values
        /\ jax.answer.adjoint = OneRun(0, sources, call.design)
        /\ jax.answer.structure = call.design
=============================================================================
