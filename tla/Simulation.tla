----------------------------- MODULE Simulation -----------------------------
(***************************************************************************)
(* A Simulation object (python/simulation.py) and the C++ objects it owns: *)
(* the structure, the fields and the DFT monitors.  The C++ objects are    *)
(* created as late as possible, by whichever call needs one first, and     *)
(* destroyed when the last reference goes; the Python object of a monitor  *)
(* outlives the chunks it points to.                                       *)
(*                                                                         *)
(* Operations are operators from a simulation to a simulation.  A driver   *)
(* (a script, the adjoint solver, the JAX wrapper) that makes several in a *)
(* row puts them in a queue, from which Perform takes one at a time: an    *)
(* exception may end the row between any two.  Fields are abstracted to    *)
(* their history: the Bloch vector, the registered sources and the         *)
(* structure of each run since time zero.  A DFT is the sequence of        *)
(* histories it accumulated.                                               *)
(***************************************************************************)
EXTENDS Integers, Sequences, FiniteSets, SequencesExt

CONSTANTS
  Monitors,    \* the monitor objects a program has names for
  Persistent   \* those created with persist = True

ASSUME MonitorsAssumption == Persistent \subseteq Monitors

VARIABLES
  sim,     \* the Simulation object
  queue    \* the calls its driver has still to make

NoFields == [exists |-> FALSE]
NoStructure == "none"
NoFile == [exists |-> FALSE]

\* A monitor object: what its swigobj is, and its data once it is detached.
Lazy == [state |-> "lazy", data |-> <<>>]
Attached == [state |-> "attached", data |-> <<>>]
Detached(d) == [state |-> "detached", data |-> d]
Freed == [state |-> "freed", data |-> <<>>]

NewSimulation(k, sources, design) ==
  [fields |-> NoFields, structure |-> NoStructure, initialized |-> FALSE,
   dft_objects |-> <<>>, handle |-> [m \in Monitors |-> Lazy],
   k_point |-> k, sources |-> sources, design |-> design,
   load_fields_file |-> NoFile, fault |-> "none"]

\* Without symmetries and forced complex fields they are real iff k = 0.
using_real_fields(s) == s.k_point = 0

\* The entry of fields.monitors that a monitor object points to.
EntryOf(s, m) == CHOOSE i \in DOMAIN s.fields.monitors :
                   s.fields.monitors[i].who = m /\ s.fields.monitors[i].held
DataOf(s, m) == IF s.handle[m].state = "attached" THEN s.fields.monitors[EntryOf(s, m)].data
                ELSE s.handle[m].data

\* The last reference to the fields goes: ~fields_chunk deletes the chunks
\* of monitors, but leaves those of persistent ones to their objects.
Destroyed(s) ==
  [s EXCEPT !.fields = NoFields,
            !.handle = [m \in Monitors |->
               IF s.handle[m].state # "attached" THEN s.handle[m]
               ELSE IF m \in Persistent THEN Detached(DataOf(s, m)) ELSE Freed]]

NewFields(s) ==
  [exists |-> TRUE, real |-> using_real_fields(s), k |-> s.k_point,
   sources |-> <<s.sources>>, structure |-> s.structure,
   history |-> <<>>, monitors |-> <<>>]

\* A monitor gets its chunks from fields that exist.  If its object already
\* has some, nothing refers to those any more.
Attach(s, m) ==
  LET others == [i \in DOMAIN s.fields.monitors |->
                   [s.fields.monitors[i] EXCEPT !.held = @ /\ s.fields.monitors[i].who # m]]
  IN  [s EXCEPT !.fields.monitors =
                   Append(others, [who |-> m, held |-> TRUE, data |-> <<>>]),
                !.handle[m] = Attached]

\* The monitors no call has needed yet, in the order of their declaration.
\* Every caller has fields by now.
evaluate_dft_objects(s) ==
  LET m(i) == s.dft_objects[i]
      after[i \in 0..Len(s.dft_objects)] ==
        IF i = 0 THEN s
        ELSE IF after[i - 1].handle[m(i)].state = "lazy" THEN Attach(after[i - 1], m(i))
        ELSE after[i - 1]
  IN  after[Len(s.dft_objects)]

\* A bug: the monitors that no call has needed yet are left for the next run.
LoadBeforeMonitors(s, file) ==
  [s EXCEPT !.fields.history = file.history,
            !.fields.monitors = [i \in DOMAIN s.fields.monitors |->
               [s.fields.monitors[i] EXCEPT
                  !.data = IF i \in DOMAIN file.data THEN file.data[i] ELSE @]]]

\* fields::load gives the DFT data of the file to the registered chunks in
\* their order, and aborts if the sizes differ.
load_fields(s, file) ==
  LET e == evaluate_dft_objects(s)
  IN  IF Len(e.fields.monitors) # Len(file.data)
      THEN [e EXCEPT !.fault = "abort"]
      ELSE [e EXCEPT !.fields.history = file.history,
                     !.fields.monitors = [i \in DOMAIN e.fields.monitors |->
                        [e.fields.monitors[i] EXCEPT !.data = file.data[i]]]]

\* The file of a pending load is never forgotten.
init_sim(s) ==
  IF s.initialized THEN s
  ELSE LET d == [Destroyed(s) EXCEPT !.structure = IF @ = NoStructure THEN s.design ELSE @]
           up == [d EXCEPT !.fields = NewFields(d), !.initialized = TRUE]
       IN  IF s.load_fields_file = NoFile THEN up
           ELSE load_fields(up, s.load_fields_file)

WithFields(s) == IF s.fields.exists THEN s ELSE init_sim(s)

\* The deferred function of a monitor (_add_flux, _add_dft_fields, ...): the
\* object may have been given chunks while it initialized the simulation.
Created(s, m) == Attach(WithFields(s), m)

swigobj_attr(s, m) == IF s.handle[m].state = "lazy" THEN Created(s, m) ELSE s

\* add_flux, add_dft_fields, ...: a new object under the name m.
add_monitor(s, m) ==
  [s EXCEPT !.handle[m] = Lazy, !.dft_objects = Append(@, m)]

\* m.remove(): the destructors of the chunks take them off the fields.
remove(s, m) ==
  CASE s.handle[m].state = "freed" -> [s EXCEPT !.fault = "dangling"]
    [] s.handle[m].state = "attached" ->
         [s EXCEPT !.handle[m] = Freed,
                   !.fields.monitors = RemoveAt(@, EntryOf(s, m))]
    [] OTHER -> [s EXCEPT !.handle[m] = Freed]

\* A bug: the fields keep updating the monitors of the simulation.
ClearNamesOnly(s) == [s EXCEPT !.dft_objects = <<>>]

Dropped(s, m) == IF m \in Persistent THEN swigobj_attr(s, m) ELSE remove(swigobj_attr(s, m), m)

WithoutMonitors(s) ==
  [s EXCEPT !.dft_objects = <<>>,
            !.handle = [m \in Monitors |->
               IF @[m].state = "attached" THEN Detached(DataOf(s, m)) ELSE @[m]],
            !.fields.monitors = <<>>]

clear_dft_monitors(s) ==
  LET after[i \in 0..Len(s.dft_objects)] ==
        IF i = 0 THEN s ELSE Dropped(after[i - 1], s.dft_objects[i])
  IN  WithoutMonitors(after[Len(s.dft_objects)])

change_k_point(s, k) ==
  LET c == [s EXCEPT !.k_point = k]
  IN  IF ~s.fields.exists THEN c
      ELSE IF k # 0 /\ s.fields.real
      THEN init_sim([Destroyed(c) EXCEPT !.initialized = FALSE])
      ELSE [c EXCEPT !.fields.k = k]

change_sources(s, sources) ==
  LET c == [s EXCEPT !.sources = sources]
  IN  IF s.fields.exists THEN [c EXCEPT !.fields.sources = <<sources>>] ELSE c

\* A bug: the monitors of the deleted fields stay in the list.
ResetFieldsOnly(s) ==
  [Destroyed(s) EXCEPT !.structure = NoStructure, !.initialized = FALSE]

reset_meep(s) ==
  [Destroyed(s) EXCEPT !.structure = NoStructure, !.dft_objects = <<>>,
                       !.initialized = FALSE]

\* restart_fields; the monitors keep what they have accumulated.
restarted(s) ==
  IF s.fields.exists THEN [s EXCEPT !.fields.history = <<>>]
  ELSE init_sim([s EXCEPT !.initialized = FALSE])

\* A run is one piece of history.
Piece(s) == [k |-> s.fields.k, sources |-> s.fields.sources,
             structure |-> s.fields.structure]

\* What is left of run when the fields and monitors exist; RunLoop is its
\* inside.
_run_until(s) ==
  IF s.fault # "none" THEN s
  ELSE LET history == Append(s.fields.history, Piece(s))
       IN  [s EXCEPT !.fields.history = history,
                     !.fields.monitors = [i \in DOMAIN s.fields.monitors |->
                        [s.fields.monitors[i] EXCEPT !.data = Append(@, history)]]]
------------------------------------------------------------------------------
(* The queue.                                                              *)

CallWith(method, argument) == <<[method |-> method, argument |-> argument]>>
Call(method) == CallWith(method, <<>>)

\* sim.run(...), after the call that creates the fields if there are none.
AfterFields == Call("evaluate_dft_objects") \o Call("_run_until")
RunCalls == Call("WithFields") \o AfterFields

Performed(s, call) ==
  CASE call.method = "WithFields" -> WithFields(s)
        [] call.method = "init_sim" -> init_sim(s)
        [] call.method = "evaluate_dft_objects" -> evaluate_dft_objects(s)
        [] call.method = "_run_until" -> _run_until(s)
        [] call.method = "add_monitor" -> add_monitor(s, call.argument)
        [] call.method = "clear_dft_monitors" -> clear_dft_monitors(s)
        [] call.method = "change_k_point" -> change_k_point(s, call.argument)
        [] call.method = "change_sources" -> change_sources(s, call.argument)
        [] call.method = "reset_meep" -> reset_meep(s)
        [] call.method = "restart_fields" -> restarted(s)
        [] call.method = "update_design_parameters" -> [s EXCEPT !.design = call.argument]

Idle == queue = <<>>

Perform ==
  /\ ~Idle
  /\ sim' = Performed(sim, Head(queue))
  /\ queue' = Tail(queue)

\* The chunks that are updated at each time step are those some monitor
\* object of the program can still read.
RegisteredMonitorsAreHeld ==
  sim.fields.exists =>
    \A i \in DOMAIN sim.fields.monitors :
      /\ sim.fields.monitors[i].held
      /\ sim.fields.monitors[i].who \in ToSet(sim.dft_objects)

\* No call uses the chunks of a monitor after the fields they belonged to
\* have been destroyed.
NoDanglingMonitor ==
  /\ sim.fault # "dangling"
  /\ \A i \in DOMAIN sim.dft_objects : sim.handle[sim.dft_objects[i]].state # "freed"
=============================================================================
