-------------------------- MODULE FiniteVerdictProofs --------------------------
(***************************************************************************)
(* The verdict word implements the sticky bit for every number of devices  *)
(* and every width of the generation counter.                              *)
(***************************************************************************)
EXTENDS FiniteVerdict, TLAPS

\* A session that scanned is pending and bound to the current generation, and
\* no generation that the word ever held is ahead of the counter: the next
\* generation is new.
GenerationIsFresh ==
    /\ session = "bound" => pending /\ sgen = gen
    /\ slot <= gen

\* Only a registered cache has a phase, a session or a verdict.
CacheIsAlive ==
    /\ phase => alive
    /\ pending => alive
    /\ session # "none" => phase
    /\ phase => device = selected

IInv ==
    /\ TypeOK
    /\ GenerationIsFresh
    /\ CacheIsAlive
    /\ PendingIsOnSelectedDevice

-----------------------------------------------------------------------------
\* What initialize_result starts with: a generation that the word does not
\* hold, unless the verdict is pending.
LEMMA StartedFresh ==
  ASSUME IInv
  PROVE  /\ Started.slot \in 0..MaxGen
         /\ Started.gen \in 1..MaxGen \/ (pending /\ Started.gen = gen)
         /\ Started.slot <= Started.gen
         /\ pending => Started.slot = slot /\ Started.gen = gen
         /\ ~pending => Started.slot # Started.gen
         /\ SessionGen = Started.gen
<1> USE MaxGenAssumption DEF IInv, TypeOK, GenerationIsFresh
<1>1. CASE pending
  <2>1. Started = [slot |-> slot, gen |-> gen]
    BY <1>1 DEF Started
  <2> QED BY <1>1, <2>1 DEF SessionGen
<1>2. CASE ~pending /\ gen = MaxGen
  <2>1. Started = [slot |-> 0, gen |-> 1] /\ session # "bound"
    BY <1>2 DEF Started
  <2> QED BY <1>2, <2>1 DEF SessionGen
<1>3. CASE ~pending /\ gen # MaxGen
  <2>1. Started = [slot |-> slot, gen |-> gen + 1] /\ session # "bound"
    BY <1>3 DEF Started
  <2> QED BY <1>3, <2>1 DEF SessionGen
<1> QED BY <1>1, <1>2, <1>3

\* Freed buffers leave an empty word that is not pending.
LEMMA ClearedTypes ==
  ASSUME Cleared
  PROVE  slot' = 0 /\ gen' = 0 /\ ~pending' /\ pending' \in BOOLEAN /\ plan' \in BOOLEAN
  BY Zenon DEF Cleared

\* The invariant holds initially.
LEMMA InitInv == Init => IInv
<1> SUFFICES ASSUME Init PROVE IInv
  OBVIOUS
<1>1. /\ alive \in BOOLEAN /\ phase \in BOOLEAN /\ pending \in BOOLEAN
      /\ plan \in BOOLEAN /\ answer \in BOOLEAN
      /\ ~phase /\ ~pending
  BY Zenon DEF Init
<1> QED
  BY <1>1, MaxGenAssumption
  DEF Init, IInv, TypeOK, GenerationIsFresh, CacheIsAlive, PendingIsOnSelectedDevice

\* Every action keeps the invariant.
LEMMA StepInv == IInv /\ [Next]_vars => IInv'
<1> SUFFICES ASSUME IInv, [Next]_vars PROVE IInv'
  OBVIOUS
<1> USE MaxGenAssumption, NoOrdinalAssumption
    DEF IInv, TypeOK, GenerationIsFresh, CacheIsAlive, PendingIsOnSelectedDevice,
        cache, word
<1>1. CASE CreateCache
  BY <1>1 DEF CreateCache
<1>2. CASE OpenPhase
  <2>1. CASE device \in Device /\ device # selected
    <3>1. Cleared
      BY <1>2, <2>1 DEF OpenPhase
    <3>2. slot' = 0 /\ gen' = 0 /\ ~pending' /\ pending' \in BOOLEAN /\ plan' \in BOOLEAN
      BY <3>1, ClearedTypes
    <3>3. ~pending
      BY <2>1
    <3>4. phase' /\ phase' \in BOOLEAN
      BY <1>2, Zenon DEF OpenPhase
    <3> QED BY <1>2, <3>2, <3>3, <3>4 DEF OpenPhase
  <2>2. CASE ~(device \in Device /\ device # selected)
    <3>1. phase' /\ phase' \in BOOLEAN
      BY <1>2, Zenon DEF OpenPhase
    <3> QED BY <1>2, <2>2, <3>1 DEF OpenPhase
  <2> QED BY <2>1, <2>2
<1>3. CASE ClosePhase
  BY <1>3 DEF ClosePhase
<1>4. CASE ResetReusingAllocations
  BY <1>4 DEF ResetReusingAllocations
<1>5. CASE DestroyCache
  <2>1. slot' = 0 /\ gen' = 0 /\ ~pending' /\ pending' \in BOOLEAN /\ plan' \in BOOLEAN
    BY <1>5, ClearedTypes DEF DestroyCache
  <2>2. alive' \in BOOLEAN /\ ~phase' /\ phase' \in BOOLEAN
    BY <1>5, Zenon DEF DestroyCache
  <2> QED BY <1>5, <2>1, <2>2 DEF DestroyCache
<1>6. ASSUME NEW f \in BOOLEAN, Kernel(f) PROVE IInv'
  BY <1>6 DEF Kernel
<1>7. ASSUME NEW d \in Device, SelectDevice(d) PROVE IInv'
  BY <1>7 DEF SelectDevice
<1>8. CASE OpenSession
  BY <1>8 DEF OpenSession
<1>9. CASE Accumulate
  <2>1. slot' \in 0..MaxGen /\ gen' \in 0..MaxGen /\ sgen' = gen' /\ slot' <= gen'
    BY <1>9, StartedFresh DEF Accumulate, Scanned
  <2> QED BY <1>9, <2>1 DEF Accumulate
<1>10. ASSUME NEW ran \in BOOLEAN, LaunchFails(ran) PROVE IInv'
  <2>1. slot' \in 0..MaxGen /\ gen' \in 0..MaxGen /\ slot' <= gen'
    BY <1>10, StartedFresh DEF LaunchFails, Scanned
  <2> QED BY <1>10, <2>1 DEF LaunchFails, EndSession
<1>11. CASE SessionThrows
  <2>1. plan' \in BOOLEAN
    BY <1>11, Zenon DEF SessionThrows
  <2> QED BY <1>11, <2>1 DEF SessionThrows, EndSession
<1>12. CASE FinishDeferred
  BY <1>12 DEF FinishDeferred, EndSession
<1>13. CASE FinishRead
  <2>1. CASE session = "open" /\ ~pending
    <3>1. answer' \in BOOLEAN /\ pending' = pending
      BY <1>13, <2>1, Zenon DEF FinishRead
    <3> QED BY <1>13, <3>1 DEF FinishRead, EndSession
  <2>2. CASE ~(session = "open" /\ ~pending)
    <3>1. answer' \in BOOLEAN /\ ~pending' /\ pending' \in BOOLEAN
      BY <1>13, <2>2, Zenon DEF FinishRead
    <3> QED BY <1>13, <3>1 DEF FinishRead, EndSession
  <2> QED BY <2>1, <2>2
<1>14. CASE UNCHANGED vars
  BY <1>14 DEF vars
<1> QED
  BY <1>1, <1>2, <1>3, <1>4, <1>5, <1>6, <1>7, <1>8, <1>9, <1>10, <1>11, <1>12,
     <1>13, <1>14 DEF Next

\* A pending verdict is on the device of the process, for every set of devices
\* and every width of the counter: select_device refuses to leave it behind.
THEOREM VerdictNotMigrated == Spec => []PendingIsOnSelectedDevice
<1>1. IInv => PendingIsOnSelectedDevice
  BY DEF IInv
<1> QED BY <1>1, InitInv, StepInv, PTL DEF Spec

-----------------------------------------------------------------------------
(* Refinement.                                                               *)

\* An empty word is not a verdict.
LEMMA InitRefines == Init => Sticky!Init
  BY DEF Init, Sticky!Init

\* Every action is an action of the sticky bit or leaves it alone.
LEMMA StepRefines == IInv /\ IInv' /\ [Next]_vars => [Sticky!Next]_(Sticky!vars)
<1> SUFFICES ASSUME IInv, IInv', [Next]_vars PROVE [Sticky!Next]_(Sticky!vars)
  OBVIOUS
<1>t. /\ alive \in BOOLEAN /\ finite \in BOOLEAN /\ pending \in BOOLEAN
      /\ answer \in BOOLEAN
  BY DEF IInv, TypeOK
<1> DEFINE bad == pending /\ slot = gen
<1>s. ASSUME UNCHANGED <<alive, finite, answer>>, bad' = bad
      PROVE  UNCHANGED Sticky!vars
  BY <1>s DEF Sticky!vars
<1>1. CASE CreateCache
  <2>1. Sticky!Create
    BY <1>1 DEF CreateCache, Sticky!Create, word
  <2> QED BY <2>1 DEF Sticky!Next
<1>2. CASE OpenPhase
  <2>1. device \in Device /\ device # selected => ~pending
    BY DEF IInv, PendingIsOnSelectedDevice
  <2>2. bad' = bad
    BY <1>2, <2>1 DEF OpenPhase, Cleared, word
  <2> QED BY <1>2, <2>2, <1>s DEF OpenPhase
<1>3. CASE ClosePhase
  BY <1>3, <1>s DEF ClosePhase, word
<1>4. CASE ResetReusingAllocations
  BY <1>4, <1>s DEF ResetReusingAllocations, word, cache
<1>5. CASE DestroyCache
  <2>1. Sticky!Destroy
    BY <1>5 DEF DestroyCache, Cleared, Sticky!Destroy
  <2> QED BY <2>1 DEF Sticky!Next
<1>6. ASSUME NEW f \in BOOLEAN, Kernel(f) PROVE [Sticky!Next]_(Sticky!vars)
  <2>1. Sticky!Compute
    BY <1>6 DEF Kernel, Sticky!Compute, word, cache
  <2> QED BY <2>1 DEF Sticky!Next
<1>7. ASSUME NEW d \in Device, SelectDevice(d) PROVE [Sticky!Next]_(Sticky!vars)
  BY <1>7, <1>s DEF SelectDevice, word, cache
<1>8. CASE OpenSession
  BY <1>8, <1>s DEF OpenSession, word, cache
<1>9. CASE Accumulate
  <2>1. bad' = (bad \/ ~finite)
    BY <1>9, <1>t, StartedFresh DEF Accumulate, Scanned
  <2>2. Sticky!Scan
    BY <1>9, <2>1 DEF Accumulate, Sticky!Scan, cache
  <2> QED BY <2>2 DEF Sticky!Next
<1>10. ASSUME NEW ran \in BOOLEAN, LaunchFails(ran) PROVE [Sticky!Next]_(Sticky!vars)
  <2>1. CASE pending /\ ran
    <3>1. bad' = (bad \/ ~finite)
      BY <1>10, <1>t, <2>1, StartedFresh DEF LaunchFails, Scanned
    <3>2. Sticky!Scan
      BY <1>10, <3>1 DEF LaunchFails, Sticky!Scan, cache
    <3> QED BY <3>2 DEF Sticky!Next
  <2>2. CASE pending /\ ~ran
    <3>1. bad' = bad
      BY <1>10, <2>2, StartedFresh DEF LaunchFails
    <3> QED BY <1>10, <3>1, <1>s DEF LaunchFails, cache
  <2>3. CASE ~pending
    <3>1. bad' = bad
      BY <1>10, <2>3 DEF LaunchFails
    <3> QED BY <1>10, <3>1, <1>s DEF LaunchFails, cache
  <2> QED BY <2>1, <2>2, <2>3
<1>11. CASE SessionThrows
  BY <1>11, <1>s DEF SessionThrows, word, cache
<1>12. CASE FinishDeferred
  <2>1. Sticky!Defer
    BY <1>12 DEF FinishDeferred, Sticky!Defer, word, cache
  <2> QED BY <2>1 DEF Sticky!Next
<1>13. CASE FinishRead
  <2>1. session = "bound" => pending /\ sgen = gen
    BY DEF IInv, GenerationIsFresh
  <2>2. answer' = ~bad /\ bad' = FALSE
    BY <1>13, <1>t, <2>1 DEF FinishRead, IInv, TypeOK
  <2>3. Sticky!Read
    BY <1>13, <2>2 DEF FinishRead, Sticky!Read, cache
  <2> QED BY <2>3 DEF Sticky!Next
<1>14. CASE UNCHANGED vars
  BY <1>14, <1>s DEF vars
<1> QED
  BY <1>1, <1>2, <1>3, <1>4, <1>5, <1>6, <1>7, <1>8, <1>9, <1>10, <1>11, <1>12,
     <1>13, <1>14 DEF Next

\* The generation-tagged word implements the sticky verdict, whatever the
\* width of the generation counter: its wrap loses and invents no failure.
THEOREM VerdictIsSticky == Spec => BehavesAsStickyVerdict
<1>1. Spec => []IInv
  BY InitInv, StepInv, PTL DEF Spec
<1> QED BY <1>1, InitRefines, StepRefines, PTL DEF Spec, BehavesAsStickyVerdict, Sticky!Spec

===============================================================================
