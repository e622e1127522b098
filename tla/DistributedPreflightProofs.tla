------------------------ MODULE DistributedPreflightProofs ------------------------
(***************************************************************************)
(* Proofs about DistributedPreflight for any set of ranks.                 *)
(*                                                                         *)
(* The ranks are never more than one collective apart.  Those that have    *)
(* not left the last collective all sit in it with the same votes; those   *)
(* that have left it are where the others will get to, because where a     *)
(* rank goes is a function of the votes and of the request they agreed on. *)
(***************************************************************************)
EXTENDS DistributedPreflight, TLAPS

\* The collectives after the vote on the mode, up to the exchange.
AfterMode == {"policy", "floor", "candidate", "available", "device", "transport",
              "assignment", "diagnostic", "features"}

\* The collective that rank r enters next, if it does not throw.
Target(r) ==
    CASE at[r] = "cached"     -> IF \A v \in out[r] : v.cached THEN "exchange" ELSE "config"
      [] at[r] = "config"     -> "mode"
      [] at[r] = "mode"       -> IF out[r] = {"cpu"} THEN "exchange"
                                 ELSE IF out[r] = {"auto"} THEN "policy" ELSE "available"
      [] at[r] = "policy"     -> "floor"
      [] at[r] = "floor"      -> IF All(r) THEN "candidate" ELSE "exchange"
      [] at[r] = "candidate"  -> "available"
      [] at[r] = "available"  -> IF \A v \in out[r] : v.ready
                                    THEN IF request[r] = "auto" THEN "device" ELSE "transport"
                                    ELSE "exchange"
      [] at[r] = "device"     -> IF All(r) THEN "transport" ELSE "exchange"
      [] at[r] = "transport"  -> "assignment"
      [] at[r] = "assignment" -> IF All(r) THEN "features" ELSE "diagnostic"
      [] at[r] = "exchange"   -> "cached"
      [] OTHER                -> "exchange"

\* The backend on which rank r enters the exchange, when that is its target.
Backend(r) ==
    IF \/ at[r] = "cached" /\ {v.cuda : v \in out[r]} = {TRUE}
       \/ at[r] = "features" /\ All(r)
       THEN "cuda" ELSE "cpu"

-----------------------------------------------------------------------------
(* The inductive invariant.                                                  *)

\* If every rank voted for its cached decision, they voted for the same one.
CommonChoice(votes) ==
    (\A v \in votes : v.cached) => \A v, w \in votes : v.cuda = w.cuda

\* What one rank knows of itself where it is.
Local(r) ==
    /\ at[r] = "idle" => out[r] = {}
    /\ out[r] # {} => vote[r] \in out[r]
    /\ at[r] = "cached" => /\ vote[r] = [cached |-> Cached(r), cuda |-> dec[r] = "cuda"]
                           /\ \A v \in out[r] : v.cuda \in BOOLEAN
                           /\ CommonChoice(out[r])
    /\ at[r] = "mode" => vote[r] = request[r]
    /\ at[r] \in {"transport", "assignment", "features"} => active[r] = "cuda"
    /\ at[r] = "features" => dec[r] = "cuda" /\ stamp[r] = "current"
    /\ at[r] = "exchange" => stamp[r] = "current" /\ (dec[r] = "cuda" <=> active[r] = "cuda")

\* Ranks that have not left the last collective are in it together.
LeftTogether ==
    \A r, s \in Rank : out[r] # {} /\ out[s] # {} => at[r] = at[s] /\ out[r] = out[s]

\* A rank that waits is where those that have not left yet will go.
WaitingAhead ==
    \A r, s \in Rank : out[r] # {} /\ Waiting(s) =>
        at[s] = Target(r) /\ (at[s] = "exchange" => active[s] = Backend(r))

\* A rank between two steps is at most one collective away from the others.
IdleNear ==
    \A r, s \in Rank : at[s] = "idle" =>
        /\ out[r] # {} => at[r] = "exchange"
        /\ Waiting(r) => at[r] = "cached"

\* Ranks beyond the vote on the mode, and those about to follow, agree on it.
RequestsAgree ==
    \A r, s \in Rank : at[r] \in AfterMode /\ at[s] \in AfterMode \union {"mode"} =>
        request[r] = request[s]

\* Outside the probing, decisions that are not forgotten are the same.
DecisionsAgree ==
    \A r, s \in Rank :
        /\ at[r] \in {"idle", "cached", "exchange"} /\ stamp[r] # "none"
        /\ at[s] \in {"idle", "cached", "exchange"} /\ stamp[s] # "none"
        => (dec[r] = "cuda" <=> dec[s] = "cuda")

CommTypeOK == DOMAIN vote = Rank /\ DOMAIN out = Rank

Lockstep == LeftTogether /\ WaitingAhead /\ IdleNear /\ CollectivesMatch

Inv ==
    /\ CommTypeOK
    /\ TypeOK
    /\ \A r \in Rank : Local(r)
    /\ Lockstep
    /\ RequestsAgree
    /\ DecisionsAgree

-----------------------------------------------------------------------------
(* A rank that leaves a collective for its target.                           *)

\* The step of a rank that is back from a collective and enters the next one.
Moves(r) ==
    /\ at' = [at EXCEPT ![r] = Target(r)]
    /\ out' = [out EXCEPT ![r] = {}]
    /\ DOMAIN vote' = Rank
    /\ UNCHANGED <<request, supported>>
    /\ \A s \in Rank \ {r} :
          /\ vote'[s] = vote[s]
          /\ dec'[s] = dec[s]
          /\ stamp'[s] = stamp[s]
          /\ seen'[s] = seen[s]
          /\ active'[s] = active[s]
    /\ Target(r) = "exchange" => active'[r] = Backend(r)
    /\ at[r] = "cached" => dec' = dec /\ stamp' = stamp
    /\ TypeOK'
    /\ Local(r)'

\* Left ranks in the same collective have the same target.
LEMMA SameTarget ==
    ASSUME Inv, NEW r \in Rank, NEW s \in Rank, out[r] # {}, out[s] # {}
    PROVE  Target(r) = Target(s) /\ Backend(r) = Backend(s)
<1>1. at[r] = at[s] /\ out[r] = out[s]
  BY DEF Inv, Lockstep, LeftTogether
<1>2. at[r] = "available" => request[r] = request[s]
  BY <1>1 DEF Inv, RequestsAgree, AfterMode
<1>3. QED
  BY <1>1, <1>2 DEF Target, Backend, All

\* Only the exchange leads to the next step's first collective.
LEMMA TargetCached ==
    ASSUME NEW r \in Rank, at[r] # "exchange"
    PROVE  Target(r) # "cached" /\ Target(r) # "idle"
BY DEF Target

\* What is local to the ranks that did not move stays true.
LEMMA MovesLocal ==
    ASSUME Inv, NEW r \in Rank, Moves(r)
    PROVE  \A s \in Rank : Local(s)'
<1>1. ASSUME NEW s \in Rank, s # r PROVE Local(s)'
  <2>1. at'[s] = at[s] /\ out'[s] = out[s]
    BY <1>1 DEF Inv, TypeOK, CommTypeOK, Moves
  <2>2. Local(s)
    BY DEF Inv
  <2>3. Cached(s)' = Cached(s)
    BY <1>1 DEF Cached, Moves
  <2>4. QED
    BY <1>1, <2>1, <2>2, <2>3 DEF Local, Moves
<1>2. QED
  BY <1>1 DEF Moves

\* A move keeps the ranks within one collective of each other.
LEMMA MovesLockstep ==
    ASSUME Inv, NEW r \in Rank, out[r] # {}, at[r] # "exchange", Moves(r)
    PROVE  Lockstep'
<1>1. /\ at'[r] = Target(r) /\ out'[r] = {}
      /\ \A s \in Rank \ {r} : at'[s] = at[s] /\ out'[s] = out[s]
  BY DEF Inv, TypeOK, CommTypeOK, Moves
<1>2. at[r] # "idle"
  BY DEF Inv, Local
<1>3. Target(r) # "cached" /\ Target(r) # "idle"
  BY TargetCached
<1>4. \A s \in Rank : at[s] # "idle"
  BY DEF Inv, Lockstep, IdleNear
<1>5. Waiting(r)' /\ \A s \in Rank \ {r} : Waiting(s)' <=> Waiting(s)
  BY <1>1, <1>3 DEF Waiting
<1>6. \A s \in Rank \ {r} : out[s] # {} => Target(s)' = Target(s) /\ Backend(s)' = Backend(s)
  BY <1>1 DEF Target, Backend, All, Moves
<1>7. LeftTogether'
  BY <1>1 DEF Inv, Lockstep, LeftTogether
<1>8. WaitingAhead'
  <2>1. ASSUME NEW s \in Rank \ {r}, out[s] # {}
        PROVE  at'[r] = Target(s) /\ (at'[r] = "exchange" => active'[r] = Backend(s))
    BY <1>1, <2>1, SameTarget DEF Moves
  <2>2. ASSUME NEW s \in Rank \ {r}, NEW t \in Rank \ {r}, out[s] # {}, Waiting(t)
        PROVE  at'[t] = Target(s) /\ (at'[t] = "exchange" => active'[t] = Backend(s))
    BY <1>1, <2>2 DEF Inv, Lockstep, WaitingAhead, Moves
  <2>3. QED
    BY <1>1, <1>5, <1>6, <2>1, <2>2 DEF WaitingAhead
<1>9. IdleNear'
  BY <1>1, <1>3, <1>4 DEF IdleNear
<1>10. CollectivesMatch'
  <2>1. ASSUME NEW s \in Rank \ {r}, Waiting(s)
        PROVE  at'[s] = at'[r]
    BY <1>1, <2>1 DEF Inv, Lockstep, WaitingAhead
  <2>2. QED
    BY <1>1, <1>5, <2>1 DEF Inv, Lockstep, CollectivesMatch
<1>11. QED
  BY <1>7, <1>8, <1>9, <1>10 DEF Lockstep

\* A move keeps the requests of the ranks that probe together in agreement.
LEMMA MovesRequests ==
    ASSUME Inv, NEW r \in Rank, out[r] # {}, at[r] # "exchange", Moves(r),
           at[r] = "mode" => out[r] \in {{"cpu"}, {"auto"}, {"cuda"}}
    PROVE  RequestsAgree'
<1>1. /\ at'[r] = Target(r)
      /\ \A s \in Rank \ {r} : at'[s] = at[s]
      /\ request' = request
  BY DEF Inv, TypeOK, Moves
<1>2. ASSUME NEW s \in Rank \ {r}, Target(r) \in AfterMode \union {"mode"},
             at[s] \in AfterMode \union {"mode"},
             Target(r) \in AfterMode \/ at[s] \in AfterMode
      PROVE  request[r] = request[s]
  <2>1. CASE out[s] = {}
    <3>1. at[s] = Target(r)
      BY <1>2, <2>1 DEF Inv, Lockstep, WaitingAhead, Waiting, AfterMode
    <3>2. at[r] \in AfterMode \union {"mode"}
      BY <1>2, <3>1 DEF Target, AfterMode
    <3>3. QED
      BY <1>2, <3>1, <3>2 DEF Inv, RequestsAgree
  <2>2. CASE out[s] # {}
    <3>1. at[s] = at[r] /\ out[s] = out[r]
      BY <2>2 DEF Inv, Lockstep, LeftTogether
    <3>2. CASE at[r] = "mode"
      <4>1. vote[r] \in out[r] /\ vote[r] = request[r]
        BY <3>2 DEF Inv, Local
      <4>2. vote[s] \in out[s] /\ vote[s] = request[s]
        BY <2>2, <3>1, <3>2 DEF Inv, Local
      <4>3. QED
        BY <3>1, <3>2, <4>1, <4>2
    <3>3. CASE at[r] # "mode"
      BY <1>2, <3>1, <3>3 DEF Inv, RequestsAgree
    <3>4. QED
      BY <3>2, <3>3
  <2>3. QED
    BY <2>1, <2>2
<1>3. QED
  BY <1>1, <1>2 DEF Inv, RequestsAgree

\* A move keeps the decisions of the ranks outside the probing in agreement: a
\* rank that ends the probing decides as those did that ended it before.
LEMMA MovesDecisions ==
    ASSUME Inv, NEW r \in Rank, out[r] # {}, at[r] # "exchange", Moves(r)
    PROVE  DecisionsAgree'
<1> DEFINE Outside == {"idle", "cached", "exchange"}
<1>1. /\ at'[r] = Target(r)
      /\ \A s \in Rank \ {r} : at'[s] = at[s] /\ dec'[s] = dec[s] /\ stamp'[s] = stamp[s]
  BY DEF Inv, TypeOK, Moves
<1>2. CASE at[r] = "cached"
  BY <1>1, <1>2 DEF Inv, DecisionsAgree, Moves
<1>3. CASE at[r] # "cached"
  <2>1. at[r] # "idle"
    BY DEF Inv, Local
  <2>2. SUFFICES ASSUME NEW s \in Rank \ {r}, at[s] \in Outside, Target(r) \in Outside
                 PROVE  dec'[r] = "cuda" <=> dec[s] = "cuda"
    BY <1>1 DEF Inv, DecisionsAgree
  <2>3. Target(r) = "exchange"
    BY <2>2, TargetCached
  <2>4. at[s] # "idle"
    BY DEF Inv, Lockstep, IdleNear
  <2>5. out[s] = {}
    BY <1>3, <2>1, <2>2 DEF Inv, Lockstep, LeftTogether
  <2>6. at[s] = "exchange" /\ active[s] = Backend(r)
    BY <2>3, <2>4, <2>5 DEF Inv, Lockstep, WaitingAhead, Waiting
  <2>7. dec[s] = "cuda" <=> active[s] = "cuda"
    BY <2>6 DEF Inv, Local
  <2>8. dec'[r] = "cuda" <=> active'[r] = "cuda"
    BY <1>1, <2>3 DEF Moves, Local
  <2>9. QED
    BY <2>3, <2>6, <2>7, <2>8 DEF Moves
<1>4. QED
  BY <1>2, <1>3

\* A move preserves the invariant.
LEMMA MovesInv ==
    ASSUME Inv, NEW r \in Rank, out[r] # {}, at[r] # "exchange", Moves(r),
           at[r] = "mode" => out[r] \in {{"cpu"}, {"auto"}, {"cuda"}}
    PROVE  Inv'
<1>1. CommTypeOK'
  BY DEF Inv, CommTypeOK, Moves
<1>2. QED
  BY <1>1, MovesLocal, MovesLockstep, MovesRequests, MovesDecisions DEF Inv, Moves

\* A step that only ends the job changes nothing the invariant speaks of.
LEMMA KeptInv ==
    ASSUME Inv, UNCHANGED <<decision, comm>>, aborted' \in BOOLEAN
    PROVE  Inv'
<1>1. \A r \in Rank : /\ Local(r)' <=> Local(r)
                      /\ Waiting(r)' <=> Waiting(r)
                      /\ Target(r)' = Target(r)
                      /\ Backend(r)' = Backend(r)
  BY DEF decision, comm, Local, Cached, Waiting, Target, Backend, All
<1>2. Lockstep'
  BY <1>1 DEF decision, comm, Inv, Lockstep, LeftTogether, WaitingAhead, IdleNear,
     CollectivesMatch
<1>3. QED
  BY <1>1, <1>2 DEF decision, comm, Inv, TypeOK, CommTypeOK, RequestsAgree, DecisionsAgree

-----------------------------------------------------------------------------
(* Every branch of the preflight is a move, or throws.                       *)

MovesOrThrows(r) ==
    \/ Throw
    \/ /\ out[r] # {} /\ at[r] # "exchange"
       /\ at[r] = "mode" => out[r] \in {{"cpu"}, {"auto"}, {"cuda"}}
       /\ Moves(r)

\* The decision for the CPU enters the exchange on the CPU.
LEMMA DecideCpuMoves ==
    ASSUME Inv, NEW r \in Rank, NEW d \in {"cpu", "fallback"}, DecideCpu(r, d),
           out[r] # {}, at[r] # "exchange", at[r] # "cached",
           Target(r) = "exchange", Backend(r) = "cpu",
           at[r] = "mode" => out[r] \in {{"cpu"}, {"auto"}, {"cuda"}}
    PROVE  MovesOrThrows(r)
<1>1. CASE request[r] = "cuda"
  BY <1>1 DEF DecideCpu, MovesOrThrows
<1>2. CASE request[r] # "cuda"
  <2>1. /\ dec' = [dec EXCEPT ![r] = d]
        /\ stamp' = [stamp EXCEPT ![r] = "current"]
        /\ seen' = [seen EXCEPT ![r] = IF d = "fallback" THEN supported[r] ELSE Unseen]
        /\ active' = [active EXCEPT ![r] = "cpu"]
        /\ UNCHANGED <<request, supported, explicit, aborted>>
        /\ at' = [at EXCEPT ![r] = "exchange"]
        /\ vote' = [vote EXCEPT ![r] = "cpu"]
        /\ out' = [out EXCEPT ![r] = {}]
    BY <1>2 DEF DecideCpu, EnterStep, Enter
  <2>2. TypeOK'
    BY <2>1 DEF Inv, TypeOK, Point, Unseen
  <2>3. at'[r] = "exchange" /\ out'[r] = {} /\ dec'[r] = d /\ active'[r] = "cpu"
        /\ stamp'[r] = "current"
    BY <2>1 DEF Inv, TypeOK, CommTypeOK
  <2>4. Local(r)'
    BY <2>3 DEF Local
  <2>5. Moves(r)
    BY <2>1, <2>2, <2>3, <2>4 DEF Inv, TypeOK, CommTypeOK, Moves
  <2>6. QED
    BY <2>5 DEF MovesOrThrows
<1>3. QED
  BY <1>1, <1>2

\* Entering the target with the decision as it was is a move, when what the
\* rank knows there holds.
LEMMA EnterMoves ==
    ASSUME Inv, NEW r \in Rank, NEW v, Enter(r, Target(r), v), UNCHANGED decision,
           out[r] # {}, at[r] # "exchange",
           at[r] = "mode" => out[r] \in {{"cpu"}, {"auto"}, {"cuda"}},
           Target(r) \in Point \ {"exchange", "features"},
           Target(r) = "mode" => v = request[r],
           Target(r) \in {"transport", "assignment"} => active[r] = "cuda"
    PROVE  MovesOrThrows(r)
<1>1. /\ at' = [at EXCEPT ![r] = Target(r)]
      /\ vote' = [vote EXCEPT ![r] = v]
      /\ out' = [out EXCEPT ![r] = {}]
      /\ UNCHANGED <<request, dec, stamp, supported, seen, active, explicit, aborted>>
  BY DEF Enter, decision
<1>2. TypeOK'
  BY <1>1 DEF Inv, TypeOK
<1>3. at'[r] = Target(r) /\ out'[r] = {} /\ vote'[r] = v
  BY <1>1 DEF Inv, TypeOK, CommTypeOK
<1>4. Target(r) # "cached"
  BY TargetCached
<1>5. Local(r)'
  BY <1>1, <1>3, <1>4 DEF Local
<1>6. Moves(r)
  BY <1>1, <1>2, <1>5 DEF Inv, TypeOK, CommTypeOK, Moves
<1>7. QED
  BY <1>6 DEF MovesOrThrows

\* The consensus of the caches: the rank's own cached decision is one of the
\* votes, so that a common choice of CUDA is validated for its features too.
LEMMA LeaveCachedMoves ==
    ASSUME Inv, NEW r \in Rank, LeaveCached(r)
    PROVE  MovesOrThrows(r)
<1> DEFINE choices == {v.cuda : v \in out[r]}
           backend == IF choices = {TRUE} THEN "cuda" ELSE "cpu"
<1>1. at[r] = "cached" /\ out[r] # {}
  BY DEF LeaveCached, Left
<1>2. vote[r] \in out[r] /\ vote[r] = [cached |-> Cached(r), cuda |-> dec[r] = "cuda"]
  BY <1>1 DEF Inv, Local
<1>3. CASE ~ \A v \in out[r] : v.cached
  <2>1. Target(r) = "config"
    BY <1>1, <1>3 DEF Target
  <2>2. PICK ok \in BOOLEAN : Enter(r, "config", ok) /\ UNCHANGED decision
    BY <1>3 DEF LeaveCached
  <2>3. QED
    BY <1>1, <2>1, <2>2, EnterMoves DEF Point
<1>4. CASE (\A v \in out[r] : v.cached) /\ choices = {TRUE, FALSE}
  BY <1>4 DEF LeaveCached, MovesOrThrows
<1>5. CASE (\A v \in out[r] : v.cached) /\ choices # {TRUE, FALSE}
  <2>1. Cached(r)
    BY <1>2, <1>5
  <2>2. stamp[r] = "current"
    BY <2>1 DEF Cached
  <2>3. (dec[r] = "cuda") \in choices /\ choices \subseteq BOOLEAN
    BY <1>1, <1>2 DEF Inv, Local
  <2>4. dec[r] = "cuda" <=> backend = "cuda"
    BY <1>5, <2>3
  <2>5. backend = "cuda" => seen[r] = supported[r]
    BY <2>1, <2>4 DEF Cached
  <2>6. /\ active' = [active EXCEPT ![r] = backend]
        /\ EnterStep(r, backend, TRUE)
        /\ UNCHANGED <<request, dec, stamp, supported, seen, explicit>>
    BY <1>5 DEF LeaveCached
  <2>7. Target(r) = "exchange" /\ Backend(r) = backend
    BY <1>1, <1>5 DEF Target, Backend
  <2> HIDE DEF backend, choices
  <2>8. Enter(r, "exchange", backend)
    <3>1. backend = "cpu" \/ backend = "cuda"
      BY DEF backend
    <3>2. QED
      BY <2>5, <2>6, <3>1 DEF EnterStep, StepValidated
  <2>9. /\ at' = [at EXCEPT ![r] = "exchange"]
        /\ vote' = [vote EXCEPT ![r] = backend]
        /\ out' = [out EXCEPT ![r] = {}]
        /\ UNCHANGED aborted
    BY <2>8 DEF Enter
  <2>10. TypeOK'
    BY <2>6, <2>9 DEF Inv, TypeOK, Point, backend
  <2>11. at'[r] = "exchange" /\ out'[r] = {} /\ active'[r] = backend
    BY <2>6, <2>9 DEF Inv, TypeOK, CommTypeOK
  <2>12. Local(r)'
    BY <2>2, <2>4, <2>6, <2>11 DEF Local
  <2>13. Moves(r)
    BY <2>6, <2>7, <2>9, <2>10, <2>11, <2>12 DEF Inv, TypeOK, CommTypeOK, Moves
  <2>14. QED
    BY <1>1, <2>13 DEF MovesOrThrows
<1>6. QED
  BY <1>3, <1>4, <1>5

\* Configuration errors, then the modes.
LEMMA LeaveConfigMoves ==
    ASSUME Inv, NEW r \in Rank, LeaveConfig(r)
    PROVE  MovesOrThrows(r)
<1>1. at[r] = "config" /\ out[r] # {}
  BY DEF LeaveConfig, Left
<1>2. Target(r) = "mode"
  BY <1>1 DEF Target
<1>3. QED
  BY <1>1, <1>2, EnterMoves DEF LeaveConfig, MovesOrThrows, Point

\* The modes agree, and each leads to its own collective.
LEMMA LeaveModeMoves ==
    ASSUME Inv, NEW r \in Rank, LeaveMode(r)
    PROVE  MovesOrThrows(r)
<1>1. at[r] = "mode" /\ out[r] # {}
  BY DEF LeaveMode, Left
<1>2. CASE out[r] = {"cpu"}
  <2>1. Target(r) = "exchange" /\ Backend(r) = "cpu"
    BY <1>1, <1>2 DEF Target, Backend
  <2>2. DecideCpu(r, "cpu")
    BY <1>2 DEF LeaveMode
  <2>3. QED
    BY <1>1, <1>2, <2>1, <2>2, DecideCpuMoves
<1>3. CASE out[r] = {"auto"}
  <2>1. Target(r) = "policy"
    BY <1>1, <1>3 DEF Target
  <2>2. PICK valid \in BOOLEAN : Enter(r, "policy", valid) /\ UNCHANGED decision
    BY <1>3 DEF LeaveMode
  <2>3. QED
    BY <1>1, <1>3, <2>1, <2>2, EnterMoves DEF Point
<1>4. CASE out[r] = {"cuda"}
  <2>1. Target(r) = "available"
    BY <1>1, <1>4 DEF Target
  <2>2. EnterAvailable(r)
    BY <1>4 DEF LeaveMode
  <2>3. PICK ready \in BOOLEAN, chosen \in BOOLEAN :
            Enter(r, "available", [ready |-> ready, explicit |-> chosen])
    BY <2>2 DEF EnterAvailable
  <2>4. QED
    BY <1>1, <1>4, <2>1, <2>2, <2>3, EnterMoves DEF Point, EnterAvailable
<1>5. CASE out[r] \notin {{"cpu"}, {"auto"}, {"cuda"}}
  BY <1>5 DEF LeaveMode, MovesOrThrows
<1>6. QED
  BY <1>2, <1>3, <1>4, <1>5

\* The policy variables are valid everywhere, or the step fails.
LEMMA LeavePolicyMoves ==
    ASSUME Inv, NEW r \in Rank, LeavePolicy(r)
    PROVE  MovesOrThrows(r)
<1>1. at[r] = "policy" /\ out[r] # {}
  BY DEF LeavePolicy, Left
<1>2. Target(r) = "floor"
  BY <1>1 DEF Target
<1>3. QED
  BY <1>1, <1>2, EnterMoves DEF LeavePolicy, MovesOrThrows, Point

\* Too few cells on any rank decide for the CPU on all of them.
LEMMA LeaveFloorMoves ==
    ASSUME Inv, NEW r \in Rank, LeaveFloor(r)
    PROVE  MovesOrThrows(r)
<1>1. at[r] = "floor" /\ out[r] # {}
  BY DEF LeaveFloor, Left
<1>2. Target(r) = IF All(r) THEN "candidate" ELSE "exchange"
  BY <1>1 DEF Target
<1>3. Backend(r) = "cpu"
  BY <1>1 DEF Backend
<1>4. CASE All(r)
  BY <1>1, <1>2, <1>4, EnterMoves DEF LeaveFloor, Point
<1>5. CASE ~All(r)
  BY <1>1, <1>2, <1>3, <1>5, DecideCpuMoves DEF LeaveFloor
<1>6. QED
  BY <1>4, <1>5

\* A device candidate everywhere, or the step fails.
LEMMA LeaveCandidateMoves ==
    ASSUME Inv, NEW r \in Rank, LeaveCandidate(r)
    PROVE  MovesOrThrows(r)
<1>1. at[r] = "candidate" /\ out[r] # {}
  BY DEF LeaveCandidate, Left
<1>2. Target(r) = "available"
  BY <1>1 DEF Target
<1>3. CASE All(r)
  <2>1. EnterAvailable(r)
    BY <1>3 DEF LeaveCandidate
  <2>2. PICK ready \in BOOLEAN, chosen \in BOOLEAN :
            Enter(r, "available", [ready |-> ready, explicit |-> chosen])
    BY <2>1 DEF EnterAvailable
  <2>3. QED
    BY <1>1, <1>2, <2>1, <2>2, EnterMoves DEF Point, EnterAvailable
<1>4. CASE ~All(r)
  BY <1>4 DEF LeaveCandidate, MovesOrThrows
<1>5. QED
  BY <1>3, <1>4

\* The transport vote is entered with CUDA active.
LEMMA EnterTransportMoves ==
    ASSUME Inv, NEW r \in Rank, EnterTransport(r), Target(r) = "transport",
           out[r] # {}, at[r] \in {"available", "device"},
           UNCHANGED <<request, dec, stamp, supported, seen>>,
           explicit' \in [Rank -> BOOLEAN]
    PROVE  MovesOrThrows(r)
<1>1. PICK agrees \in BOOLEAN : Enter(r, "transport", agrees)
  BY DEF EnterTransport
<1>2. /\ at' = [at EXCEPT ![r] = "transport"]
      /\ vote' = [vote EXCEPT ![r] = agrees]
      /\ out' = [out EXCEPT ![r] = {}]
      /\ active' = [active EXCEPT ![r] = "cuda"]
      /\ UNCHANGED aborted
  BY <1>1 DEF EnterTransport, Enter
<1>3. TypeOK'
  BY <1>2 DEF Inv, TypeOK, Point
<1>4. at'[r] = "transport" /\ out'[r] = {} /\ active'[r] = "cuda"
  BY <1>2 DEF Inv, TypeOK, CommTypeOK
<1>5. Local(r)'
  BY <1>4 DEF Local
<1>6. Moves(r)
  BY <1>2, <1>3, <1>5 DEF Inv, TypeOK, CommTypeOK, Moves
<1>7. QED
  BY <1>6 DEF MovesOrThrows

\* A device on every rank, or the CPU on all of them.
LEMMA LeaveAvailableMoves ==
    ASSUME Inv, NEW r \in Rank, LeaveAvailable(r)
    PROVE  MovesOrThrows(r)
<1>1. at[r] = "available" /\ out[r] # {}
  BY DEF LeaveAvailable, Left
<1>2. Backend(r) = "cpu"
  BY <1>1 DEF Backend
<1>3. CASE ~ \A v \in out[r] : v.ready
  <2>1. Target(r) = "exchange"
    BY <1>1, <1>3 DEF Target
  <2>2. DecideCpu(r, "cpu")
    BY <1>3 DEF LeaveAvailable
  <2>3. QED
    BY <1>1, <1>2, <2>1, <2>2, DecideCpuMoves
<1>4. CASE \A v \in out[r] : v.ready
  <2>1. /\ explicit' = [explicit EXCEPT ![r] = \E v \in out[r] : v.explicit]
        /\ UNCHANGED <<request, dec, stamp, supported, seen>>
    BY <1>4 DEF LeaveAvailable
  <2>2. explicit' \in [Rank -> BOOLEAN]
    BY <2>1 DEF Inv, TypeOK
  <2>3. CASE request[r] = "auto"
    <3>1. PICK use \in BOOLEAN : Enter(r, "device", use)
      BY <1>4, <2>3 DEF LeaveAvailable
    <3>2. /\ at' = [at EXCEPT ![r] = "device"]
          /\ vote' = [vote EXCEPT ![r] = use]
          /\ out' = [out EXCEPT ![r] = {}]
          /\ UNCHANGED <<active, aborted>>
      BY <1>4, <2>3, <3>1 DEF LeaveAvailable, Enter
    <3>3. TypeOK'
      BY <2>1, <2>2, <3>2 DEF Inv, TypeOK, Point
    <3>4. at'[r] = "device" /\ out'[r] = {}
      BY <3>2 DEF Inv, TypeOK, CommTypeOK
    <3>5. Local(r)'
      BY <3>4 DEF Local
    <3>6. Target(r) = "device"
      BY <1>1, <1>4, <2>3 DEF Target
    <3>7. Moves(r)
      BY <1>1, <2>1, <3>2, <3>3, <3>5, <3>6 DEF Inv, TypeOK, CommTypeOK, Moves
    <3>8. QED
      BY <1>1, <3>7 DEF MovesOrThrows
  <2>4. CASE request[r] # "auto"
    <3>1. Target(r) = "transport"
      BY <1>1, <1>4, <2>4 DEF Target
    <3>2. EnterTransport(r)
      BY <1>4, <2>4 DEF LeaveAvailable
    <3>3. QED
      BY <1>1, <2>1, <2>2, <3>1, <3>2, EnterTransportMoves
  <2>5. QED
    BY <2>3, <2>4
<1>5. QED
  BY <1>3, <1>4

\* The automatic backend takes the devices on all ranks, or on none.
LEMMA LeaveDeviceMoves ==
    ASSUME Inv, NEW r \in Rank, LeaveDevice(r)
    PROVE  MovesOrThrows(r)
<1>1. at[r] = "device" /\ out[r] # {}
  BY DEF LeaveDevice, Left
<1>2. Target(r) = IF All(r) THEN "transport" ELSE "exchange"
  BY <1>1 DEF Target
<1>3. Backend(r) = "cpu"
  BY <1>1 DEF Backend
<1>4. CASE All(r)
  <2>1. EnterTransport(r) /\ UNCHANGED <<request, dec, stamp, supported, seen, explicit>>
    BY <1>4 DEF LeaveDevice
  <2>2. explicit' \in [Rank -> BOOLEAN]
    BY <2>1 DEF Inv, TypeOK
  <2>3. QED
    BY <1>1, <1>2, <1>4, <2>1, <2>2, EnterTransportMoves
<1>5. CASE ~All(r)
  BY <1>1, <1>2, <1>3, <1>5, DecideCpuMoves DEF LeaveDevice
<1>6. QED
  BY <1>4, <1>5

\* The transports agree, or the step fails.
LEMMA LeaveTransportMoves ==
    ASSUME Inv, NEW r \in Rank, LeaveTransport(r)
    PROVE  MovesOrThrows(r)
<1>1. at[r] = "transport" /\ out[r] # {}
  BY DEF LeaveTransport, Left
<1>2. Target(r) = "assignment" /\ active[r] = "cuda"
  BY <1>1 DEF Target, Inv, Local
<1>3. QED
  BY <1>1, <1>2, EnterMoves DEF LeaveTransport, MovesOrThrows, Point

\* Validated devices lead to the vote on the features, which a rank enters
\* whatever it validated before.
LEMMA LeaveAssignmentMoves ==
    ASSUME Inv, NEW r \in Rank, LeaveAssignment(r)
    PROVE  MovesOrThrows(r)
<1>1. at[r] = "assignment" /\ out[r] # {}
  BY DEF LeaveAssignment, Left
<1>2. Target(r) = IF All(r) THEN "features" ELSE "diagnostic"
  BY <1>1 DEF Target
<1>3. CASE All(r)
  <2>1. /\ dec' = [dec EXCEPT ![r] = "cuda"]
        /\ stamp' = [stamp EXCEPT ![r] = "current"]
        /\ at' = [at EXCEPT ![r] = "features"]
        /\ vote' = [vote EXCEPT ![r] = supported[r] = "yes"]
        /\ out' = [out EXCEPT ![r] = {}]
        /\ UNCHANGED <<request, supported, seen, active, explicit, aborted>>
    BY <1>3 DEF LeaveAssignment, EnterStep, StepValidated, Enter
  <2>2. TypeOK'
    BY <2>1 DEF Inv, TypeOK, Point
  <2>3. /\ at'[r] = "features" /\ out'[r] = {} /\ dec'[r] = "cuda"
        /\ stamp'[r] = "current" /\ active'[r] = "cuda"
    BY <1>1, <2>1 DEF Inv, TypeOK, CommTypeOK, Local
  <2>4. Local(r)'
    BY <2>3 DEF Local
  <2>5. Moves(r)
    BY <1>1, <1>2, <1>3, <2>1, <2>2, <2>4 DEF Inv, TypeOK, CommTypeOK, Moves
  <2>6. QED
    BY <1>1, <2>5 DEF MovesOrThrows
<1>4. CASE ~All(r) /\ (request[r] = "cuda" \/ explicit[r])
  BY <1>4 DEF LeaveAssignment, MovesOrThrows
<1>5. CASE ~All(r) /\ ~(request[r] = "cuda" \/ explicit[r])
  <2>1. Enter(r, "diagnostic", TRUE) /\ UNCHANGED decision
    BY <1>5 DEF LeaveAssignment
  <2>2. QED
    BY <1>1, <1>2, <1>5, <2>1, EnterMoves DEF Point
<1>6. QED
  BY <1>3, <1>4, <1>5

\* After a refused assignment the automatic backend decides for the CPU.
LEMMA LeaveDiagnosticMoves ==
    ASSUME Inv, NEW r \in Rank, LeaveDiagnostic(r)
    PROVE  MovesOrThrows(r)
<1>1. at[r] = "diagnostic" /\ out[r] # {}
  BY DEF LeaveDiagnostic, Left
<1>2. Target(r) = "exchange" /\ Backend(r) = "cpu"
  BY <1>1 DEF Target, Backend
<1>3. QED
  BY <1>1, <1>2, DecideCpuMoves DEF LeaveDiagnostic

\* The vote on the features ends the probing on CUDA or on the CPU.
LEMMA LeaveFeaturesMoves ==
    ASSUME Inv, NEW r \in Rank, LeaveFeatures(r)
    PROVE  MovesOrThrows(r)
<1>1. at[r] = "features" /\ out[r] # {}
  BY DEF LeaveFeatures, Left
<1>2. Target(r) = "exchange" /\ Backend(r) = IF All(r) THEN "cuda" ELSE "cpu"
  BY <1>1 DEF Target, Backend
<1>3. CASE All(r)
  <2>1. /\ seen' = [seen EXCEPT ![r] = supported[r]]
        /\ at' = [at EXCEPT ![r] = "exchange"]
        /\ vote' = [vote EXCEPT ![r] = "cuda"]
        /\ out' = [out EXCEPT ![r] = {}]
        /\ UNCHANGED <<request, dec, stamp, supported, active, explicit, aborted>>
    BY <1>3 DEF LeaveFeatures, Enter
  <2>2. TypeOK'
    BY <2>1 DEF Inv, TypeOK, Point
  <2>3. /\ at'[r] = "exchange" /\ out'[r] = {} /\ dec'[r] = "cuda"
        /\ stamp'[r] = "current" /\ active'[r] = "cuda"
    BY <1>1, <2>1 DEF Inv, TypeOK, CommTypeOK, Local
  <2>4. Local(r)'
    BY <2>3 DEF Local
  <2>5. Moves(r)
    BY <1>1, <1>2, <1>3, <2>1, <2>2, <2>3, <2>4 DEF Inv, TypeOK, CommTypeOK, Moves
  <2>6. QED
    BY <1>1, <2>5 DEF MovesOrThrows
<1>4. CASE ~All(r)
  BY <1>1, <1>2, <1>4, DecideCpuMoves DEF LeaveFeatures
<1>5. QED
  BY <1>3, <1>4

-----------------------------------------------------------------------------
(* The other steps.                                                          *)

\* When a collective returns, every rank is in it and gets the same votes.
LEMMA CompleteInv ==
    ASSUME Inv, Complete
    PROVE  Inv'
<1> DEFINE V == {vote[s] : s \in Rank}
<1>1. \A r, s \in Rank : Waiting(r) /\ at[r] = at[s]
  BY DEF Complete
<1>2. /\ out' = [r \in Rank |-> V]
      /\ UNCHANGED <<decision, at, vote, aborted>>
  BY DEF Complete
<1>3. UNCHANGED <<request, dec, stamp, supported, seen, active, explicit>>
  BY <1>2 DEF decision
<1>4. \A r \in Rank : vote[r] \in V /\ out'[r] = V
  BY <1>2
<1>5. \A r \in Rank : at[r] # "idle" /\ ~Waiting(r)'
  BY <1>1, <1>4 DEF Waiting
<1>6. ASSUME NEW r \in Rank PROVE Local(r)'
  <2>1. at[r] = "cached" => (\A v \in V : v.cuda \in BOOLEAN) /\ CommonChoice(V)
    <3>1. SUFFICES ASSUME at[r] = "cached"
                   PROVE  (\A v \in V : v.cuda \in BOOLEAN) /\ CommonChoice(V)
      OBVIOUS
    <3>2. ASSUME NEW s \in Rank
          PROVE  /\ at[s] = "cached"
                 /\ vote[s].cached = Cached(s)
                 /\ vote[s].cuda = (dec[s] = "cuda")
      <4>1. at[s] = "cached"
        BY <1>1, <3>1
      <4>2. vote[s] = [cached |-> Cached(s), cuda |-> dec[s] = "cuda"]
        BY <4>1 DEF Inv, Local
      <4>3. QED
        BY <4>1, <4>2
    <3>3. \A v \in V : v.cuda \in BOOLEAN
      BY <3>2
    <3>4. ASSUME \A v \in V : v.cached, NEW s \in Rank, NEW t \in Rank
          PROVE  vote[s].cuda = vote[t].cuda
      <4>1. Cached(s) /\ Cached(t)
        BY <3>2, <3>4 DEF Cached
      <4>2. stamp[s] # "none" /\ stamp[t] # "none"
        BY <4>1 DEF Cached
      <4>3. dec[s] = "cuda" <=> dec[t] = "cuda"
        BY <3>2, <4>2 DEF Inv, DecisionsAgree
      <4>4. QED
        BY <3>2, <4>3
    <3>5. CommonChoice(V)
      BY <3>4 DEF CommonChoice
    <3>6. QED
      BY <3>3, <3>5
  <2>2. Cached(r)' = Cached(r)
    BY <1>3 DEF Cached
  <2> HIDE DEF V
  <2>3. QED
    BY <1>2, <1>3, <1>4, <1>5, <2>1, <2>2 DEF Inv, Local
<1> HIDE DEF V
<1>7. Lockstep'
  BY <1>1, <1>2, <1>4, <1>5 DEF Lockstep, LeftTogether, WaitingAhead, IdleNear,
     CollectivesMatch
<1>8. TypeOK' /\ CommTypeOK' /\ RequestsAgree' /\ DecisionsAgree'
  BY <1>2, <1>3 DEF Inv, TypeOK, CommTypeOK, RequestsAgree, DecisionsAgree
<1>9. QED
  BY <1>6, <1>7, <1>8 DEF Inv

\* A rank that begins a step enters the collective where the others will be.
LEMMA BeginStepInv ==
    ASSUME Inv, NEW r \in Rank, BeginStep(r)
    PROVE  Inv'
<1> DEFINE ballot == [cached |-> Cached(r), cuda |-> dec[r] = "cuda"]
<1>1. at[r] = "idle" /\ out[r] = {}
  BY DEF BeginStep, Inv, Local
<1>2. /\ at' = [at EXCEPT ![r] = "cached"]
      /\ vote' = [vote EXCEPT ![r] = ballot]
      /\ out' = [out EXCEPT ![r] = {}]
      /\ UNCHANGED <<request, dec, stamp, supported, seen, active, explicit, aborted>>
  BY DEF BeginStep, Enter, decision
<1> HIDE DEF ballot
<1>3. /\ at'[r] = "cached" /\ vote'[r] = ballot /\ out'[r] = {}
      /\ \A s \in Rank \ {r} : at'[s] = at[s] /\ vote'[s] = vote[s] /\ out'[s] = out[s]
  BY <1>2 DEF Inv, TypeOK, CommTypeOK
<1>4. TypeOK' /\ CommTypeOK'
  BY <1>2 DEF Inv, TypeOK, CommTypeOK, Point
<1>5. ASSUME NEW s \in Rank PROVE Local(s)'
  <2>1. Cached(s)' = Cached(s)
    BY <1>2 DEF Cached
  <2>2. CASE s = r
    BY <1>2, <1>3, <2>1, <2>2 DEF Local, ballot, CommonChoice
  <2>3. CASE s # r
    BY <1>2, <1>3, <2>1, <2>3 DEF Inv, Local
  <2>4. QED
    BY <2>2, <2>3
<1>6. Waiting(r)' /\ \A s \in Rank \ {r} : Waiting(s)' <=> Waiting(s)
  BY <1>3 DEF Waiting
<1>7. \A s \in Rank \ {r} : /\ out[s] # {} => Target(s) = "cached"
                            /\ Waiting(s) => at[s] = "cached"
                            /\ Target(s)' = Target(s) /\ Backend(s)' = Backend(s)
  BY <1>1, <1>2, <1>3 DEF Inv, Lockstep, IdleNear, Target, Backend, All
<1>8. Lockstep'
  <2>1. LeftTogether'
    BY <1>3 DEF Inv, Lockstep, LeftTogether
  <2>2. WaitingAhead'
    BY <1>2, <1>3, <1>6, <1>7 DEF Inv, Lockstep, WaitingAhead
  <2>3. IdleNear'
    BY <1>3, <1>6 DEF Inv, Lockstep, IdleNear
  <2>4. CollectivesMatch'
    BY <1>3, <1>6, <1>7 DEF Inv, Lockstep, CollectivesMatch
  <2>5. QED
    BY <2>1, <2>2, <2>3, <2>4 DEF Lockstep
<1>9. RequestsAgree' /\ DecisionsAgree'
  BY <1>1, <1>2, <1>3 DEF Inv, RequestsAgree, DecisionsAgree, AfterMode
<1>10. QED
  BY <1>4, <1>5, <1>8, <1>9 DEF Inv

\* A rank that ends a step leaves only ranks behind that end it too, or ranks
\* that already wait for the next one.
LEMMA EndStepInv ==
    ASSUME Inv, NEW r \in Rank, EndStep(r)
    PROVE  Inv'
<1>1. at[r] = "exchange" /\ out[r] # {}
  BY DEF EndStep, Left
<1>2. /\ at' = [at EXCEPT ![r] = "idle"]
      /\ vote' = [vote EXCEPT ![r] = <<>>]
      /\ out' = [out EXCEPT ![r] = {}]
      /\ explicit' = [explicit EXCEPT ![r] = FALSE]
      /\ UNCHANGED <<request, dec, stamp, supported, seen, active, aborted>>
  BY DEF EndStep
<1>3. /\ at'[r] = "idle" /\ out'[r] = {}
      /\ \A s \in Rank \ {r} : at'[s] = at[s] /\ vote'[s] = vote[s] /\ out'[s] = out[s]
  BY <1>2 DEF Inv, TypeOK, CommTypeOK
<1>4. TypeOK' /\ CommTypeOK'
  BY <1>2 DEF Inv, TypeOK, CommTypeOK, Point
<1>5. ASSUME NEW s \in Rank PROVE Local(s)'
  <2>1. Cached(s)' = Cached(s)
    BY <1>2 DEF Cached
  <2>2. CASE s = r
    BY <1>3, <2>2 DEF Local
  <2>3. CASE s # r
    BY <1>2, <1>3, <2>1, <2>3 DEF Inv, Local
  <2>4. QED
    BY <2>2, <2>3
<1>6. ~Waiting(r)' /\ \A s \in Rank \ {r} : Waiting(s)' <=> Waiting(s)
  BY <1>3 DEF Waiting
<1>7. Target(r) = "cached"
  BY <1>1 DEF Target
<1>8. \A s \in Rank \ {r} : /\ out[s] # {} => at[s] = "exchange"
                            /\ Waiting(s) => at[s] = "cached"
                            /\ Target(s)' = Target(s) /\ Backend(s)' = Backend(s)
  <2>1. ASSUME NEW s \in Rank \ {r}
        PROVE  (out[s] # {} => at[s] = "exchange") /\ (Waiting(s) => at[s] = "cached")
    BY <1>1, <1>7 DEF Inv, Lockstep, LeftTogether, WaitingAhead
  <2>2. ASSUME NEW s \in Rank \ {r}
        PROVE  Target(s)' = Target(s) /\ Backend(s)' = Backend(s)
    BY <1>2, <1>3 DEF Target, Backend, All
  <2>3. QED
    BY <2>1, <2>2
<1>9. Lockstep'
  <2>1. LeftTogether'
    BY <1>3 DEF Inv, Lockstep, LeftTogether
  <2>2. WaitingAhead'
    BY <1>2, <1>3, <1>6, <1>8 DEF Inv, Lockstep, WaitingAhead
  <2>3. IdleNear'
    BY <1>3, <1>6, <1>8 DEF Inv, Lockstep, IdleNear
  <2>4. CollectivesMatch'
    BY <1>3, <1>6 DEF Inv, Lockstep, CollectivesMatch
  <2>5. QED
    BY <2>1, <2>2, <2>3, <2>4 DEF Lockstep
<1>10. RequestsAgree' /\ DecisionsAgree'
  BY <1>1, <1>2, <1>3 DEF Inv, RequestsAgree, DecisionsAgree, AfterMode
<1>11. QED
  BY <1>4, <1>5, <1>9, <1>10 DEF Inv

\* What happens between the steps of a rank: it forgets decisions or changes
\* what they depend on, and makes none.
LEMMA BetweenInv ==
    ASSUME Inv, NEW r \in Rank, Between(r)
    PROVE  Inv'
<1>1. at[r] = "idle" /\ UNCHANGED <<dec, comm, aborted, explicit>>
  BY DEF Between, Reconfigure, SetEnvironment, SetFeatures, OtherOwnerSteps
<1>2. UNCHANGED <<at, vote, out>>
  BY <1>1 DEF comm
<1>3. TypeOK'
  <2>1. ASSUME NEW m \in Mode, Reconfigure(r, m) PROVE TypeOK'
    BY <2>1 DEF Reconfigure, comm, Inv, TypeOK, Unseen
  <2>2. ASSUME SetEnvironment(r) PROVE TypeOK'
    BY <2>2 DEF SetEnvironment, comm, Inv, TypeOK
  <2>3. ASSUME NEW s \in {"yes", "no"}, SetFeatures(r, s) PROVE TypeOK'
    BY <2>3 DEF SetFeatures, comm, Inv, TypeOK, Unseen
  <2>4. ASSUME NEW b \in {"cpu", "cuda"}, OtherOwnerSteps(r, b) PROVE TypeOK'
    BY <2>4 DEF OtherOwnerSteps, comm, Inv, TypeOK
  <2>5. QED
    BY <2>1, <2>2, <2>3, <2>4 DEF Between
<1>4. \A s \in Rank \ {r} : /\ request'[s] = request[s] /\ stamp'[s] = stamp[s]
                            /\ supported'[s] = supported[s] /\ seen'[s] = seen[s]
                            /\ active'[s] = active[s]
  BY DEF Between, Reconfigure, SetEnvironment, SetFeatures, OtherOwnerSteps, Inv, TypeOK
<1>5. stamp'[r] # "none" => stamp[r] # "none"
  BY DEF Between, Reconfigure, SetEnvironment, SetFeatures, OtherOwnerSteps, Inv, TypeOK
<1>6. ASSUME NEW s \in Rank PROVE Local(s)'
  <2>1. CASE s = r
    BY <1>1, <1>2, <2>1 DEF Inv, Local
  <2>2. CASE s # r
    <3>1. Cached(s)' = Cached(s)
      BY <1>1, <1>4, <2>2 DEF Cached
    <3>2. QED
      BY <1>1, <1>2, <1>4, <2>2, <3>1 DEF Inv, Local
  <2>3. QED
    BY <2>1, <2>2
<1>7. Lockstep'
  <2>1. \A s \in Rank : Waiting(s)' <=> Waiting(s)
    BY <1>2 DEF Waiting
  <2>2. \A s \in Rank : out[s] # {} => Target(s)' = Target(s) /\ Backend(s)' = Backend(s)
    BY <1>1, <1>2, <1>4 DEF Inv, Local, Target, Backend, All
  <2>3. \A s \in Rank : at[s] = "exchange" => active'[s] = active[s]
    BY <1>1, <1>4
  <2>4. QED
    BY <1>2, <2>1, <2>2, <2>3 DEF Inv, Lockstep, LeftTogether, WaitingAhead, IdleNear,
       CollectivesMatch
<1>8. RequestsAgree' /\ DecisionsAgree'
  BY <1>1, <1>2, <1>4, <1>5 DEF Inv, RequestsAgree, DecisionsAgree, AfterMode
<1>9. QED
  BY <1>2, <1>3, <1>6, <1>7, <1>8 DEF Inv, CommTypeOK

\* Every step of the specification preserves the invariant.
LEMMA NextInv == Inv /\ [Next]_vars => Inv'
<1> SUFFICES ASSUME Inv, [Next]_vars PROVE Inv'
  OBVIOUS
<1>1. ASSUME NEW r \in Rank, Preflight(r) PROVE Inv'
  <2>1. MovesOrThrows(r) \/ EndStep(r)
    BY <1>1, LeaveCachedMoves, LeaveConfigMoves, LeaveModeMoves, LeavePolicyMoves,
       LeaveFloorMoves, LeaveCandidateMoves, LeaveAvailableMoves, LeaveDeviceMoves,
       LeaveTransportMoves, LeaveAssignmentMoves, LeaveDiagnosticMoves,
       LeaveFeaturesMoves DEF Preflight
  <2>2. QED
    BY <2>1, EndStepInv, MovesInv, KeptInv DEF MovesOrThrows, Throw
<1>2. ASSUME NEW r \in Rank, LocalFailure(r) PROVE Inv'
  BY <1>2, KeptInv DEF LocalFailure, Throw
<1>3. CASE UNCHANGED vars
  BY <1>3, KeptInv DEF vars, Inv, TypeOK
<1>4. QED
  BY <1>1, <1>2, <1>3, CompleteInv, BeginStepInv, BetweenInv DEF Next, Ended

\* The initial states satisfy the invariant.
LEMMA InitInv == Init => Inv
<1> SUFFICES ASSUME Init PROVE Inv
  OBVIOUS
<1>1. TypeOK /\ CommTypeOK
  BY DEF Init, TypeOK, CommTypeOK, Point, Unseen
<1>2. \A r \in Rank : Local(r) /\ out[r] = {} /\ at[r] = "idle" /\ ~Waiting(r)
  BY DEF Init, Local, Waiting
<1>3. Lockstep
  BY <1>2 DEF Lockstep, LeftTogether, WaitingAhead, IdleNear, CollectivesMatch
<1>4. RequestsAgree /\ DecisionsAgree
  BY <1>2 DEF Init, RequestsAgree, DecisionsAgree, AfterMode
<1>5. QED
  BY <1>1, <1>2, <1>3, <1>4 DEF Inv

\* The inductive invariant holds in every execution.
THEOREM Invariance == Spec => []Inv
BY InitInv, NextInv, PTL DEF Spec

\* Every rank keeps its types.
THEOREM TypeCorrect == Spec => []TypeOK
<1>1. Inv => TypeOK
  BY DEF Inv
<1>2. QED
  BY <1>1, Invariance, PTL

\* No two ranks ever wait in different collectives: the preflight cannot hang
\* because its branches disagree.
THEOREM PreflightMatches == Spec => []CollectivesMatch
<1>1. Inv => CollectivesMatch
  BY DEF Inv, Lockstep
<1>2. QED
  BY <1>1, Invariance, PTL

\* All ranks exchange boundaries on the same backend.
THEOREM StepOnOneBackend == Spec => []OneBackend
<1>1. Inv => OneBackend
  <2> SUFFICES ASSUME Inv, NEW r \in Rank, NEW s \in Rank,
                      at[r] = "exchange", at[s] = "exchange"
               PROVE  active[r] = active[s]
    BY DEF OneBackend
  <2>1. active[r] \in {"cpu", "cuda"} /\ active[s] \in {"cpu", "cuda"}
    BY DEF Inv, TypeOK
  <2>2. Local(r) /\ Local(s)
    BY DEF Inv
  <2>3. dec[r] = "cuda" <=> dec[s] = "cuda"
    BY <2>2 DEF Inv, DecisionsAgree, Local
  <2>4. QED
    BY <2>1, <2>2, <2>3 DEF Local
<1>2. QED
  BY <1>1, Invariance, PTL

\* When every rank still has a decision of the current settings, the decisions
\* are the same on all of them.
THEOREM CachedDecisionsMatch == Spec => []CachedDecisionsAgree
<1>1. Inv => CachedDecisionsAgree
  <2> SUFFICES ASSUME Inv, \A r \in Rank : at[r] = "cached" /\ vote[r].cached,
                      NEW r \in Rank, NEW s \in Rank
               PROVE  vote[r].cuda = vote[s].cuda
    BY DEF CachedDecisionsAgree
  <2>1. ASSUME NEW q \in Rank
        PROVE  at[q] = "cached" /\ Cached(q) /\ vote[q].cuda = (dec[q] = "cuda")
    <3>1. at[q] = "cached" /\ vote[q].cached
      OBVIOUS
    <3>2. vote[q] = [cached |-> Cached(q), cuda |-> dec[q] = "cuda"]
      BY <3>1 DEF Inv, Local
    <3>3. vote[q].cached = Cached(q) /\ vote[q].cuda = (dec[q] = "cuda")
      BY <3>2
    <3>4. QED
      BY <3>1, <3>3 DEF Cached
  <2>2. \A q \in Rank : stamp[q] # "none"
    BY <2>1 DEF Cached
  <2>3. dec[r] = "cuda" <=> dec[s] = "cuda"
    BY <2>1, <2>2 DEF Inv, DecisionsAgree
  <2>4. QED
    BY <2>1, <2>3
<1>2. QED
  BY <1>1, Invariance, PTL

\* A rank that finds a cached decision on every rank finds one decision: the
\* exception for decisions that differ is never thrown.
THEOREM NoCachedDisagreement ==
    Spec => [](\A r \in Rank : at[r] = "cached" /\ (\A v \in out[r] : v.cached)
                   => {v.cuda : v \in out[r]} # {TRUE, FALSE})
<1>1. Inv => \A r \in Rank : at[r] = "cached" /\ (\A v \in out[r] : v.cached)
                   => {v.cuda : v \in out[r]} # {TRUE, FALSE}
  <2> SUFFICES ASSUME Inv, NEW r \in Rank, at[r] = "cached", \A v \in out[r] : v.cached,
                      {v.cuda : v \in out[r]} = {TRUE, FALSE}
               PROVE  FALSE
    OBVIOUS
  <2>1. \A v, w \in out[r] : v.cuda = w.cuda
    BY DEF Inv, Local, CommonChoice
  <2>2. PICK v \in out[r] : v.cuda = TRUE
    OBVIOUS
  <2>3. PICK w \in out[r] : w.cuda = FALSE
    OBVIOUS
  <2>4. QED
    BY <2>1, <2>2, <2>3
<1>2. QED
  BY <1>1, Invariance, PTL
===============================================================================
