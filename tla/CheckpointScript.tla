-------------------------- MODULE CheckpointScript --------------------------
(***************************************************************************)
(* A script that works with one Simulation by hand: it declares monitors,  *)
(* runs, changes sources and Bloch vector, and dumps its fields to a file  *)
(* that the same or a later process loads.  `promised' is what the manual  *)
(* makes of its calls: what the fields and each monitor have accumulated.  *)
(***************************************************************************)
EXTENDS Simulation

CONSTANTS
  Fluxes,      \* the monitors of the script, all of them fluxes
  BlochVectors,
  SourceLists,
  MaxHistory,  \* bound on the runs between two restarts of the fields
  MaxData,     \* bound on the runs a monitor accumulates
  CarefulScript  \* the script keeps to the uses that work, see below

VARIABLES
  file,        \* fields.h5 of the last dump, with the monitors it was made of
  promised     \* [followed, history, data]: what the manual says there is now,
               \* while a script runs at all

\* Only add_dft_fields takes persist = True, see _add_dft_fields.
ASSUME FluxesAssumption == Fluxes \subseteq Monitors \ Persistent

scriptVars == <<sim, queue, file, promised>>

Nothing == [followed |-> TRUE, history |-> <<>>, data |-> [m \in Fluxes |-> <<>>]]
NoPromise == [followed |-> FALSE]

ScriptInit ==
  /\ \E k \in BlochVectors, l \in SourceLists : sim = NewSimulation(k, l, "design")
  /\ queue = <<>> /\ file = NoFile /\ promised = Nothing

Declared == ToSet(sim.dft_objects)
Started(s) == s.fields.exists
Pending == ~Started(sim) /\ sim.load_fields_file # NoFile

\* A simulation that starts in this step is promised the state of the file
\* it was told to load.
Promise(s) == IF Started(s) /\ Pending THEN sim.load_fields_file.promised ELSE promised

\* A call that is made at once.
Now(s) == Idle /\ sim' = s /\ UNCHANGED queue

\* No monitor is added to the setup of a file that is still to be loaded.
AddFlux(m) ==
  /\ m \notin Declared
  /\ CarefulScript => ~Pending
  /\ Now(add_monitor(sim, m))
  /\ promised' = [promised EXCEPT !.data[m] = <<>>]
  /\ UNCHANGED file

\* Any attribute of a monitor creates it.  Careful scripts touch monitors in
\* the order they were declared, as a run does, and none while a load waits
\* for the simulation to be initialized: init_sim would create it twice.
Touch(m) ==
  /\ m \in Declared /\ sim.handle[m].state = "lazy"
  /\ CarefulScript =>
       /\ ~Pending
       /\ \A i, j \in DOMAIN sim.dft_objects :
            i < j /\ sim.dft_objects[j] = m => sim.handle[sim.dft_objects[i]].state # "lazy"
  /\ Now(swigobj_attr(sim, m)) /\ promised' = Promise(sim')
  /\ UNCHANGED file

Initialize ==
  /\ ~Started(sim)
  /\ Now(init_sim(sim)) /\ promised' = Promise(sim')
  /\ UNCHANGED file

\* sim.run: the piece of history is the one the script asked for.
RunOnce ==
  /\ Len(promised.history) < MaxHistory
  /\ \A m \in Fluxes : Len(promised.data[m]) < MaxData
  /\ Idle /\ sim' = WithFields(sim) /\ queue' = AfterFields
  /\ LET p == Promise(sim')
         h == Append(p.history, [k |-> sim.k_point, sources |-> <<sim.sources>>,
                                 structure |-> sim.design])
     IN  promised' = [p EXCEPT
                      !.history = h,
                      !.data = [m \in Fluxes |-> IF m \in Declared THEN Append(p.data[m], h)
                                                 ELSE p.data[m]]]
  /\ UNCHANGED file

\* Going from real to complex fields starts a new simulation.  Careful
\* scripts do it without monitors and without a file that would be loaded
\* once more.
ChangeBlochVector(k) ==
  /\ k # sim.k_point
  /\ Now(change_k_point(sim, k))
  /\ LET restarts == Started(sim) /\ sim.fields.real /\ k # 0
     IN  /\ CarefulScript /\ restarts =>
              sim.dft_objects = <<>> /\ sim.load_fields_file = NoFile
         /\ CarefulScript => ~Pending
         /\ promised' = IF restarts THEN [promised EXCEPT !.history = <<>>] ELSE promised
  /\ UNCHANGED file

ChangeSources(l) ==
  /\ l # sim.sources
  /\ Now(change_sources(sim, l))
  /\ UNCHANGED <<file, promised>>

RestartFields ==
  /\ Now(restarted(sim))
  /\ CarefulScript => ~Pending
  /\ promised' = [Promise(sim') EXCEPT !.history = <<>>]
  /\ UNCHANGED file

ClearMonitors ==
  /\ Started(sim)
  /\ Now(clear_dft_monitors(sim))
  /\ promised' = [promised EXCEPT !.data = Nothing.data]
  /\ UNCHANGED file

\* "as if you had not run any computations"
ResetMeep ==
  /\ CarefulScript => sim.load_fields_file = NoFile
  /\ Now(reset_meep(sim)) /\ promised' = Nothing
  /\ UNCHANGED file

DumpFields ==
  /\ Started(sim) /\ file = NoFile /\ Len(promised.history) \in 1..(MaxHistory - 1)
  /\ file' = [history |-> sim.fields.history, k |-> sim.k_point,
              monitors |-> sim.dft_objects, promised |-> promised,
              data |-> [i \in DOMAIN sim.fields.monitors |-> sim.fields.monitors[i].data]]
  /\ CarefulScript => \A m \in Declared : sim.handle[m].state = "attached"
  /\ Now(sim) /\ UNCHANGED promised

\* The process ends, or is killed, and another starts; what it was doing makes
\* no difference to the new one.
NewProcess ==
  /\ file # NoFile /\ Idle
  /\ \E l \in SourceLists : sim' = NewSimulation(file.k, l, "design")
  /\ promised' = Nothing
  /\ UNCHANGED <<queue, file>>

\* sim.load, of a file of the same setup: now, or when the simulation is
\* initialized.
Load ==
  /\ file # NoFile
  /\ CarefulScript => sim.k_point = file.k /\ sim.dft_objects = file.monitors
  /\ Now(IF Started(sim) THEN load_fields(sim, file)
         ELSE [sim EXCEPT !.load_fields_file = file])
  /\ promised' = IF Started(sim) THEN file.promised ELSE promised
  /\ UNCHANGED file

ScriptNext ==
  \/ Perform /\ UNCHANGED <<file, promised>>
  \/ \E m \in Fluxes : AddFlux(m) \/ Touch(m)
  \/ Initialize
  \/ RunOnce
  \/ \E k \in BlochVectors : ChangeBlochVector(k)
  \/ \E l \in SourceLists : ChangeSources(l)
  \/ RestartFields
  \/ ClearMonitors
  \/ ResetMeep
  \/ DumpFields
  \/ NewProcess
  \/ Load

ScriptSpec == ScriptInit /\ [][ScriptNext]_scriptVars

\* Between calls fields and monitors hold what those before promise: a simulation that
\* loads a checkpoint continues, with the data of each monitor its own, as if
\* it had not been stopped, and lazily created objects lose no history.
MonitorsContinue ==
  Idle /\ Started(sim) /\ promised.followed =>
    /\ sim.fields.history = promised.history
    /\ \A m \in Declared : sim.handle[m].state = "attached" =>
         DataOf(sim, m) = promised.data[m]
=============================================================================
