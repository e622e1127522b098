------------------------ MODULE OptimizationProblem ------------------------
(***************************************************************************)
(* The adjoint optimizer (python/adjoint/optimization_problem.py): for a   *)
(* design it makes one run with the forward sources, which gives the       *)
(* values of the objectives, and one run per objective with the Bloch      *)
(* vector negated and sources computed from those values; the gradient     *)
(* comes from the fields both kinds of run left in the design region.      *)
(* All runs share one Simulation.  An exception (an interrupt, a step      *)
(* function, a bad design vector) may end a call between any two of the    *)
(* calls it makes on the simulation.                                       *)
(***************************************************************************)
EXTENDS Simulation

CONSTANTS
  Designs,
  OptimizerBlochVectors,
  CarefulOptimizer    \* the caller keeps to the uses that work, see Usable

\* The objective monitor is called "objective", the ones in the design
\* region "forward" and, for each objective, "adjoint1" and "adjoint2".
Objectives == 1..2
AdjointMonitor == <<"adjoint1", "adjoint2">>

\* The monitors in the design region are made with persist = True.
ASSUME ProblemMonitorsAssumption ==
  /\ {"forward", "adjoint1", "adjoint2"} \subseteq Persistent
  /\ "objective" \in Monitors \ Persistent
ASSUME BlochVectorsAssumption == OptimizerBlochVectors \subseteq Int

VARIABLE opt
  \* The OptimizationProblem object (state, f0, gradient), the design and
  \* Bloch vector its caller gave it, where __call__ is and what it is asked
  \* for, and what the last call returned.

Nobody == [returned |-> FALSE]

\* Sources are known by what they are computed from: the values of the
\* objectives and the run whose duration is that of the time profile.
ForwardSources == [objective |-> 0, of |-> <<>>, during |-> <<>>]
AdjointSources(j, f0) ==
  [objective |-> j, of |-> f0,
   during |-> IF sim.fields.exists THEN sim.fields.history ELSE <<>>]

At(place) == opt.pc = place /\ Idle
NewDesign(d) == CallWith("update_design_parameters", d) \o Call("reset_meep")

\* Without a new design a careful caller only goes on after a call that
\* returned, or failed before the end of its forward run; a call that failed
\* with the Bloch vector negated ends the use of the problem.
Usable == At("idle") /\ (CarefulOptimizer => sim.k_point = opt.k)
UsableAgain ==
  /\ Usable
  /\ CarefulOptimizer => /\ sim.design = opt.asked
                         /\ opt.state # "INIT" => opt.answer.returned

\* opt(rho_vector, need_gradient = gradient), or opt(None, ...)
CallWithDesign(d, gradient) ==
  /\ Usable
  /\ queue' = NewDesign(d)
  /\ opt' = [opt EXCEPT !.pc = "update", !.asked = d, !.need_gradient = gradient,
                        !.answer = Nobody]
  /\ UNCHANGED sim

CallAgain(gradient) ==
  /\ UsableAgain
  /\ opt' = [opt EXCEPT !.pc = "called", !.need_gradient = gradient, !.answer = Nobody]
  /\ UNCHANGED <<sim, queue>>

\* A bug: an optimizer that has made its forward run believes it still stands.
KeepForwardRun ==
  /\ At("update")
  /\ opt' = [opt EXCEPT !.pc = "called"]
  /\ UNCHANGED <<sim, queue>>

\* The end of update_design.
update_design ==
  /\ At("update")
  /\ opt' = [opt EXCEPT !.pc = "called", !.state = "INIT"]
  /\ UNCHANGED <<sim, queue>>

prepare_forward_run ==
  Call("reset_meep") \o CallWith("change_sources", ForwardSources)
    \o CallWith("add_monitor", "objective") \o CallWith("add_monitor", "forward")

forward_run ==
  /\ At("called") /\ opt.state = "INIT"
  /\ queue' = prepare_forward_run \o RunCalls
  /\ opt' = [opt EXCEPT !.pc = "forward"]
  /\ UNCHANGED sim

forward_run_ends ==
  /\ At("forward")
  /\ opt' = [opt EXCEPT !.pc = "called", !.state = "FWD", !.f0 = DataOf(sim, "objective")]
  /\ UNCHANGED <<sim, queue>>

\* A bug: the adjoint run goes on from the fields the last run has left.
RunOn(j, sources) ==
  Call("clear_dft_monitors")
    \o CallWith("change_sources", sources) \o CallWith("add_monitor", AdjointMonitor[j])
    \o Call("evaluate_dft_objects") \o RunCalls

RunAdjoint(j, sources) ==
  Call("restart_fields") \o Call("clear_dft_monitors")
    \o CallWith("change_sources", sources) \o CallWith("add_monitor", AdjointMonitor[j])
    \o Call("evaluate_dft_objects") \o RunCalls

flip(k) == IF k = 0 THEN <<>> ELSE CallWith("change_k_point", -k)

\* The sources of all objectives are made first; they ask for the simulated
\* time, which creates the fields if there are none.
adjoint_run ==
  /\ At("called") /\ opt.state = "FWD" /\ opt.need_gradient
  /\ queue' = Call("WithFields") \o flip(sim.k_point)
                \o RunAdjoint(1, AdjointSources(1, opt.f0))
                \o RunAdjoint(2, AdjointSources(2, opt.f0)) \o flip(-sim.k_point)
  /\ opt' = [opt EXCEPT !.pc = "adjoint"]
  /\ UNCHANGED sim

adjoint_run_ends ==
  /\ At("adjoint")
  /\ opt' = [opt EXCEPT !.pc = "gradient", !.state = "ADJ"]
  /\ UNCHANGED <<sim, queue>>

Returned(o) == [o EXCEPT !.pc = "idle",
                         !.answer = [returned |-> TRUE, with_gradient |-> o.need_gradient]]

calculate_gradient ==
  /\ At("gradient")
  /\ sim' = remove(sim, "forward")
  /\ opt' = Returned([opt EXCEPT !.state = "INIT",
                                 !.gradient = [j \in Objectives |->
                                    [forward |-> DataOf(sim, "forward"),
                                     adjoint |-> DataOf(sim, AdjointMonitor[j]),
                                     structure |-> sim.structure]]])
  /\ UNCHANGED queue

\* The values have been asked for and are there.
ReturnValues ==
  /\ At("called") /\ opt.state # "INIT" /\ ~opt.need_gradient
  /\ opt' = Returned(opt)
  /\ UNCHANGED <<sim, queue>>

\* need_value = False: without a forward run the call returns what the problem
\* holds from earlier ones, which is no answer for this design.
ReturnUnasked ==
  /\ At("called") /\ opt.state = "INIT" /\ ~opt.need_gradient
  /\ opt' = [opt EXCEPT !.pc = "idle"]
  /\ UNCHANGED <<sim, queue>>

\* An exception; also the one of a gradient that is asked for in state "ADJ".
Raise ==
  /\ opt.pc # "idle"
  /\ queue' = <<>>
  /\ opt' = [opt EXCEPT !.pc = "idle"]
  /\ UNCHANGED sim

\* The two runs for one element of the finite difference leave the design
\* changed, and the state of the optimizer as it was.
ValueOf(d) == Call("reset_meep")
                \o CallWith("update_design_parameters", d) \o CallWith("add_monitor", "objective")
                \o RunCalls

Scratch(calls) ==
  /\ Usable
  /\ CarefulOptimizer => opt.state = "INIT"
  /\ queue' = calls
  /\ opt' = [opt EXCEPT !.pc = "scratch", !.answer = Nobody]
  /\ UNCHANGED sim

calculate_fd_gradient ==
  Scratch(Call("reset_meep") \o CallWith("change_sources", ForwardSources)
            \o ValueOf("left") \o ValueOf("right"))

\* plot2D(init_opt = True)
plot2D == Scratch(prepare_forward_run)

ScratchEnds ==
  /\ At("scratch")
  /\ opt' = [opt EXCEPT !.pc = "idle"]
  /\ UNCHANGED <<sim, queue>>

OptimizerInit ==
  \E k \in OptimizerBlochVectors, d \in Designs :
    /\ sim = NewSimulation(k, ForwardSources, d) /\ queue = <<>>
    /\ opt = [state |-> "INIT", f0 |-> <<>>, gradient |-> <<>>, asked |-> d, k |-> k,
              pc |-> "idle", need_gradient |-> FALSE, answer |-> Nobody]

OptimizerNext ==
  \/ Perform /\ UNCHANGED opt
  \/ \E d \in Designs, gradient \in BOOLEAN : CallWithDesign(d, gradient)
  \/ \E gradient \in BOOLEAN : CallAgain(gradient)
  \/ update_design
  \/ forward_run
  \/ forward_run_ends
  \/ adjoint_run
  \/ adjoint_run_ends
  \/ calculate_gradient
  \/ ReturnValues
  \/ ReturnUnasked
  \/ Raise
  \/ calculate_fd_gradient
  \/ plot2D
  \/ ScratchEnds

OptimizerSpec == OptimizerInit /\ [][OptimizerNext]_<<sim, queue, opt>>
-----------------------------------------------------------------------------
\* What a monitor holds after a single run from time zero.
OneRun(k, sources, design) ==
  <<<<[k |-> k, sources |-> <<sources>>, structure |-> design]>>>>

\* A call that returns gives the values of the objectives for the design it
\* was last given, from one run with the forward sources and the Bloch vector
\* of the problem, whatever calls were made or failed before (__call__).
ValuesAreOfTheDesign ==
  opt.answer.returned => opt.f0 = OneRun(opt.k, ForwardSources, opt.asked)

\* A gradient combines, for each objective, the fields of that forward run
\* with those of one run from time zero with the Bloch vector negated and the
\* sources of that objective, computed from the values that were returned.
GradientIsConsistent ==
  opt.answer.returned /\ opt.answer.with_gradient =>
    \A j \in Objectives :
      LET sources == [objective |-> j, of |-> opt.f0, during |-> opt.f0[1]]
      IN  opt.gradient[j] =
            [forward |-> OneRun(opt.k, ForwardSources, opt.asked),
             adjoint |-> OneRun(-opt.k, sources, opt.asked),
             structure |-> opt.asked]
=============================================================================
