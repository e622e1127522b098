----------------------------- MODULE MCFrontEnd -----------------------------
(***************************************************************************)
(* TLC instance of the Python front end: the loop of a run with what a     *)
(* script hands to it, and the three users of a Simulation, to which a run *)
(* is a single step: a script, the adjoint optimizer and the callable for  *)
(* JAX.  A behavior follows one of the four.                               *)
(***************************************************************************)
EXTENDS RunLoop, CheckpointScript, MeepJaxWrapper

VARIABLE driver
frontVars == <<vars, sim, queue, file, promised, opt, jax, driver>>

(* Scripts for RunLoop: every modifier around a step function with two     *)
(* arguments, one around a nested modifier, and every kind of condition.   *)

Leaf == [kind |-> "user", id |-> 1, time |-> 0, arguments |-> 2, inner |-> <<>>]
Modifier(k, time, f) ==
  [kind |-> k, id |-> f.id + 1, time |-> time, arguments |-> 2, inner |-> <<f>>]

Modifiers ==
  {Modifier(k, 0, Leaf) : k \in {"combine_step_funcs", "when_true", "after_sources",
                                 "at_beginning", "at_end", "during_sources"}}
  \cup {Modifier(k, 2, Leaf) : k \in {"after_time", "before_time", "at_time", "at_every"}}

Programs == {Leaf, [Leaf EXCEPT !.arguments = 1],
                 Modifier("after_time", 1, Modifier("at_every", 2, Leaf))} \cup Modifiers

Condition(k, time) == [kind |-> k, time |-> time, interval |-> 1]
Sampled == [Condition("fields", 2) EXCEPT !.interval = 2]

StopLists ==
  {<<Condition(k, 1)>> : k \in {"number", "fields", "energy", "dft", "flux"}}
  \cup {<<Sampled>>, <<Condition("number", 3), Condition("user", 0)>>,
        <<Condition("user", 0), Condition("number", 2)>>}

\* Every program with a condition that ends a run at any time, every list
\* with a plain step function.
ManyScripts ==
  [program : Programs, list : {<<Condition("user", 0)>>}]
  \cup [program : {Leaf}, list : StopLists]

AllMonitors == Fluxes \cup {"objective", "forward", "adjoint1", "adjoint2"}
PersistentMonitors == {"forward", "adjoint1", "adjoint2"}
Symmetric == Permutations(Fluxes) \cup Permutations(SourceLists)

NoLoop == t = 0 /\ ts = 0 /\ signal = <<>> /\ script = <<>> /\ verdicts = <<>> /\ run = NoRun
          /\ objects = <<>> /\ calls = <<>> /\ last = 0
NoSimulation == sim = NewSimulation(0, ForwardSources, "design") /\ queue = <<>>
NoScript == file = NoFile /\ promised = NoPromise
NoProblem == opt = [pc |-> "none", answer |-> Nobody]
NoJax == jax = [doing |-> Resting, answer |-> NoGradient]

FrontInit ==
  \/ driver = "loop" /\ Init /\ NoSimulation /\ NoScript /\ NoProblem /\ NoJax
  \/ driver = "script" /\ ScriptInit /\ NoLoop /\ NoProblem /\ NoJax
  \/ driver = "optimizer" /\ OptimizerInit /\ NoLoop /\ NoScript /\ NoJax
  \/ driver = "jax" /\ JaxInit /\ NoLoop /\ NoScript /\ NoProblem

FrontNext ==
  \/ driver = "loop" /\ Next /\ UNCHANGED <<sim, queue, file, promised, opt, jax, driver>>
  \/ driver = "script" /\ ScriptNext /\ UNCHANGED <<vars, opt, jax, driver>>
  \/ driver = "optimizer" /\ OptimizerNext /\ UNCHANGED <<vars, file, promised, jax, driver>>
  \/ driver = "jax" /\ JaxNext /\ UNCHANGED <<vars, file, promised, opt, driver>>

FrontSpec == FrontInit /\ [][FrontNext]_frontVars
=============================================================================
