-------------------------- MODULE DeviceClaimsProofs --------------------------
(***************************************************************************)
(* The claim table is free of conflicts for any world, division, number of *)
(* owners and devices; and when every subcommunicator steps one owner, no  *)
(* device is shared without the consent of all its ranks.                  *)
(***************************************************************************)
EXTENDS DeviceClaims, TLAPS

\* While every rank of a subcommunicator has the owner validated, none of them
\* is in a validation and all hold the claim on their device.
ValidatedHoldClaims(o) ==
    \A g \in Group : (\A r \in g : o \in valid[r]) =>
        \A r \in g : pc[r] = "idle" /\ table[r] = Desired(r)

\* A claim that was granted is in the table until the reduction.
GrantedHoldClaims ==
    \A r \in Rank : pc[r] = "agree" /\ granted[r] => table[r] = Desired(r)

IInv(o) ==
    /\ TypeOK
    /\ ClaimsAreCompatible
    /\ GrantedHoldClaims
    /\ ValidatedHoldClaims(o)

-----------------------------------------------------------------------------
\* The ranks of a subcommunicator are ranks of the world.
LEMMA GroupRanks == \A g \in Group : \A r \in g : r \in Rank
  BY GroupAssumption

\* A rank is in one subcommunicator only.
LEMMA GroupsDisjoint ==
  \A g, h \in Group : \A r : r \in g /\ r \in h => g = h
  BY GroupAssumption

\* Moving a group through the validation keeps the types.
LEMMA MoveType ==
  ASSUME NEW g, NEW state \in {"idle", "release", "barrier", "claim", "agree", "withdraw"},
         TypeOK, Move(g, state)
  PROVE  pc' \in [Rank -> {"idle", "release", "barrier", "claim", "agree", "withdraw"}]
  BY DEF TypeOK, Move

\* Every action keeps the types.
LEMMA TypeInv == TypeOK /\ [Next]_vars => TypeOK'
<1> SUFFICES ASSUME TypeOK, [Next]_vars PROVE TypeOK'
  OBVIOUS
<1>1. ASSUME NEW r \in Rank, NEW d \in Device, NEW s \in BOOLEAN, Reconfigure(r, d, s)
      PROVE  TypeOK'
  BY <1>1 DEF TypeOK, Reconfigure
<1>2. ASSUME NEW r \in Rank, UseCpu(r) PROVE TypeOK'
  BY <1>2 DEF TypeOK, UseCpu, Claims, Empty
<1>3. ASSUME NEW r \in Rank, Release(r) PROVE TypeOK'
  BY <1>3 DEF TypeOK, Release, Claims, Empty
<1>4. ASSUME NEW r \in Rank, Claim(r) PROVE TypeOK'
  <2>1. Desired(r) \in Claims /\ Empty \in Claims
    BY DEF TypeOK, Desired, Claims, Empty
  <2>2. Available(r) \in BOOLEAN
    BY DEF Available
  <2> QED BY <1>4, <2>1, <2>2 DEF TypeOK, Claim
<1>5. ASSUME NEW r \in Rank, Withdraw(r) PROVE TypeOK'
  BY <1>5 DEF TypeOK, Withdraw, Claims, Empty
<1>6. ASSUME NEW g \in Group, NEW o \in Owner, NEW bad \in SUBSET g, Gather(g, o, bad)
      PROVE  TypeOK'
  BY <1>6, MoveType DEF TypeOK, Gather, Move
<1>7. ASSUME NEW g \in Group, Barrier(g) PROVE TypeOK'
  BY <1>7, MoveType DEF TypeOK, Barrier, Move
<1>8. ASSUME NEW g \in Group, Agree(g) PROVE TypeOK'
  <2>1. valid' \in [Rank -> SUBSET Owner]
    BY <1>8 DEF TypeOK, Agree
  <2>2. pc' \in [Rank -> {"idle", "release", "barrier", "claim", "agree", "withdraw"}]
    BY <1>8, MoveType DEF Agree
  <2>3. granted' \in [Rank -> BOOLEAN]
    BY <1>8 DEF TypeOK, Agree
  <2> QED BY <1>8, <2>1, <2>2, <2>3 DEF TypeOK, Agree
<1>9. CASE UNCHANGED vars
  BY <1>9 DEF TypeOK, vars
<1> QED
  BY <1>1, <1>2, <1>3, <1>4, <1>5, <1>6, <1>7, <1>8, <1>9 DEF Next

\* Emptying an entry of the table creates no conflict.
LEMMA EmptyCompatible ==
  ASSUME TypeOK, ClaimsAreCompatible, NEW r \in Rank,
         table' = [table EXCEPT ![r] = Empty]
  PROVE  ClaimsAreCompatible'
  BY NoDeviceAssumption DEF TypeOK, ClaimsAreCompatible, Empty

\* Only a granted claim enters the table, and it conflicts with none.
LEMMA CompatibleInv == TypeOK /\ ClaimsAreCompatible /\ [Next]_vars => ClaimsAreCompatible'
<1> SUFFICES ASSUME TypeOK, ClaimsAreCompatible, [Next]_vars PROVE ClaimsAreCompatible'
  OBVIOUS
<1>1. ASSUME NEW r \in Rank, UseCpu(r) PROVE ClaimsAreCompatible'
  BY <1>1, EmptyCompatible DEF UseCpu
<1>2. ASSUME NEW r \in Rank, Release(r) PROVE ClaimsAreCompatible'
  BY <1>2, EmptyCompatible DEF Release
<1>3. ASSUME NEW r \in Rank, Withdraw(r) PROVE ClaimsAreCompatible'
  BY <1>3, EmptyCompatible DEF Withdraw
<1>4. ASSUME NEW r \in Rank, Claim(r) PROVE ClaimsAreCompatible'
  <2>1. CASE ~Available(r)
    BY <1>4, <2>1, EmptyCompatible DEF Claim
  <2>2. CASE Available(r)
    <3>1. table' = [table EXCEPT ![r] = Desired(r)]
      BY <1>4, <2>2 DEF Claim
    <3> QED BY <2>2, <3>1 DEF TypeOK, ClaimsAreCompatible, Available, Desired
  <2> QED BY <2>1, <2>2
<1>5. CASE UNCHANGED table
  BY <1>5 DEF ClaimsAreCompatible
<1>6. ASSUME NEW g \in Group, NEW o \in Owner, NEW bad \in SUBSET g, Gather(g, o, bad)
      PROVE  UNCHANGED table
  BY <1>6 DEF Gather
<1> QED
  BY <1>1, <1>2, <1>3, <1>4, <1>5, <1>6
  DEF Next, Reconfigure, Barrier, Agree, vars

\* The initial table is empty.
LEMMA InitCompatible == Init => TypeOK /\ ClaimsAreCompatible
  BY DEF Init, TypeOK, ClaimsAreCompatible, Claims, Empty

\* The claim table never holds two claims on one device that do not both allow
\* it: for every world, division, number of owners and of devices.
THEOREM TableExclusion == Spec => []ClaimsAreCompatible
<1>1. TypeOK /\ ClaimsAreCompatible /\ [Next]_vars => (TypeOK /\ ClaimsAreCompatible)'
  BY TypeInv, CompatibleInv
<1> QED BY <1>1, InitCompatible, PTL DEF Spec

-----------------------------------------------------------------------------
(* One owner in each subcommunicator.                                        *)

\* A step of one rank r that is in a validation, or loses its validations,
\* keeps the claims of the validated subcommunicators.
LEMMA RankStepKeepsValidated ==
  ASSUME NEW o, TypeOK, ValidatedHoldClaims(o), NEW r \in Rank,
         pc[r] # "idle" \/ o \notin valid'[r],
         \A s \in Rank \ {r} : /\ valid'[s] = valid[s]
                               /\ pc'[s] = pc[s]
                               /\ table'[s] = table[s]
                               /\ assigned'[s] = assigned[s]
                               /\ share'[s] = share[s],
         valid'[r] \subseteq valid[r]
  PROVE  ValidatedHoldClaims(o)'
<1> SUFFICES ASSUME NEW g \in Group, \A q \in g : o \in valid'[q]
             PROVE  \A q \in g : pc'[q] = "idle" /\ table'[q] = Desired(q)'
  BY DEF ValidatedHoldClaims
<1>1. \A q \in g : o \in valid[q]
  BY GroupRanks
<1>2. \A q \in g : pc[q] = "idle" /\ table[q] = Desired(q)
  BY <1>1 DEF ValidatedHoldClaims
<1>3. r \notin g
  BY <1>2
<1> QED BY <1>2, <1>3, GroupRanks DEF Desired

\* A claim that was granted stays in the table: only its rank touches it.
LEMMA GrantedInv == TypeOK /\ GrantedHoldClaims /\ [Next]_vars => GrantedHoldClaims'
<1> SUFFICES ASSUME TypeOK, GrantedHoldClaims, [Next]_vars PROVE GrantedHoldClaims'
  OBVIOUS
<1>1. ASSUME NEW r \in Rank, NEW d \in Device, NEW s \in BOOLEAN, Reconfigure(r, d, s)
      PROVE  GrantedHoldClaims'
  BY <1>1 DEF TypeOK, GrantedHoldClaims, Reconfigure, Desired
<1>2. ASSUME NEW r \in Rank, UseCpu(r) PROVE GrantedHoldClaims'
  BY <1>2 DEF TypeOK, GrantedHoldClaims, UseCpu, Desired
<1>3. ASSUME NEW r \in Rank, Release(r) PROVE GrantedHoldClaims'
  BY <1>3 DEF TypeOK, GrantedHoldClaims, Release, Desired
<1>4. ASSUME NEW r \in Rank, Claim(r) PROVE GrantedHoldClaims'
  BY <1>4 DEF TypeOK, GrantedHoldClaims, Claim, Desired
<1>5. ASSUME NEW r \in Rank, Withdraw(r) PROVE GrantedHoldClaims'
  BY <1>5 DEF TypeOK, GrantedHoldClaims, Withdraw, Desired
<1>6. ASSUME NEW g \in Group, NEW o \in Owner, NEW bad \in SUBSET g, Gather(g, o, bad)
      PROVE  GrantedHoldClaims'
  BY <1>6 DEF TypeOK, GrantedHoldClaims, Gather, Move, Desired
<1>7. ASSUME NEW g \in Group, Barrier(g) PROVE GrantedHoldClaims'
  BY <1>7 DEF TypeOK, GrantedHoldClaims, Barrier, Move, Desired
<1>8. ASSUME NEW g \in Group, Agree(g) PROVE GrantedHoldClaims'
  BY <1>8 DEF TypeOK, GrantedHoldClaims, Agree, Move, Desired
<1>9. CASE UNCHANGED vars
  BY <1>9 DEF GrantedHoldClaims, Desired, vars
<1> QED
  BY <1>1, <1>2, <1>3, <1>4, <1>5, <1>6, <1>7, <1>8, <1>9 DEF Next

\* With one owner, a validation only starts where that owner is not validated
\* everywhere, and the validation that succeeds leaves every claim in place.
LEMMA ValidatedInv ==
  ASSUME NEW o, Owner = {o}
  PROVE  TypeOK /\ GrantedHoldClaims /\ ValidatedHoldClaims(o) /\ [Next]_vars
             => ValidatedHoldClaims(o)'
<1> SUFFICES ASSUME TypeOK, GrantedHoldClaims, ValidatedHoldClaims(o), [Next]_vars
             PROVE  ValidatedHoldClaims(o)'
  OBVIOUS
<1>1. ASSUME NEW r \in Rank, NEW d \in Device, NEW s \in BOOLEAN, Reconfigure(r, d, s)
      PROVE  ValidatedHoldClaims(o)'
  BY <1>1, RankStepKeepsValidated DEF TypeOK, Reconfigure
<1>2. ASSUME NEW r \in Rank, UseCpu(r) PROVE ValidatedHoldClaims(o)'
  BY <1>2, RankStepKeepsValidated DEF TypeOK, UseCpu
<1>3. ASSUME NEW r \in Rank, Release(r) PROVE ValidatedHoldClaims(o)'
  BY <1>3, RankStepKeepsValidated DEF TypeOK, Release
<1>4. ASSUME NEW r \in Rank, Claim(r) PROVE ValidatedHoldClaims(o)'
  BY <1>4, RankStepKeepsValidated DEF TypeOK, Claim
<1>5. ASSUME NEW r \in Rank, Withdraw(r) PROVE ValidatedHoldClaims(o)'
  BY <1>5, RankStepKeepsValidated DEF TypeOK, Withdraw
<1>6. ASSUME NEW g \in Group, NEW p \in Owner, NEW bad \in SUBSET g, Gather(g, p, bad)
      PROVE  ValidatedHoldClaims(o)'
  <2>1. \E r \in g : o \notin valid[r]
    BY <1>6 DEF Gather
  <2> SUFFICES ASSUME NEW h \in Group, \A q \in h : o \in valid'[q]
               PROVE  \A q \in h : pc'[q] = "idle" /\ table'[q] = Desired(q)'
    BY DEF ValidatedHoldClaims
  <2>2. \A q \in h : o \in valid[q]
    BY <1>6 DEF Gather
  <2>3. \A q \in h : q \notin g
    BY <2>1, <2>2, GroupsDisjoint
  <2>4. \A q \in h : pc[q] = "idle" /\ table[q] = Desired(q)
    BY <2>2 DEF ValidatedHoldClaims
  <2> QED BY <1>6, <2>3, <2>4, GroupRanks DEF Gather, Move, Desired, TypeOK
<1>7. ASSUME NEW g \in Group, Barrier(g) PROVE ValidatedHoldClaims(o)'
  <2> SUFFICES ASSUME NEW h \in Group, \A q \in h : o \in valid'[q]
               PROVE  \A q \in h : pc'[q] = "idle" /\ table'[q] = Desired(q)'
    BY DEF ValidatedHoldClaims
  <2>1. \A q \in h : pc[q] = "idle" /\ table[q] = Desired(q)
    BY <1>7 DEF ValidatedHoldClaims, Barrier
  <2>2. \A q \in h : q \notin g
    BY <1>7, <2>1 DEF Barrier, All
  <2> QED BY <1>7, <2>1, <2>2, GroupRanks DEF Barrier, Move, Desired, TypeOK
<1>8. ASSUME NEW g \in Group, Agree(g) PROVE ValidatedHoldClaims(o)'
  <2> SUFFICES ASSUME NEW h \in Group, \A q \in h : o \in valid'[q]
               PROVE  \A q \in h : pc'[q] = "idle" /\ table'[q] = Desired(q)'
    BY DEF ValidatedHoldClaims
  <2>1. CASE h = g
    <3>1. ASSUME ~ \A r \in g : granted[r] PROVE FALSE
      <4>1. UNCHANGED valid
        BY <1>8, <3>1 DEF Agree
      <4>2. \A q \in g : pc[q] = "idle"
        BY <2>1, <4>1 DEF ValidatedHoldClaims
      <4>3. PICK q \in g : ~granted[q]
        BY <3>1
      <4> QED BY <1>8, <4>2, <4>3 DEF Agree, All
    <3>2. \A r \in g : granted[r] /\ pc[r] = "agree"
      BY <1>8, <3>1 DEF Agree, All
    <3>3. \A r \in g : table[r] = Desired(r)
      BY <3>2, GroupRanks DEF GrantedHoldClaims
    <3> QED BY <1>8, <2>1, <3>2, <3>3, GroupRanks DEF Agree, Move, Desired, TypeOK
  <2>2. CASE h # g
    <3>1. \A q \in h : q \notin g
      BY <2>2, GroupsDisjoint
    <3>2. \A q \in h : o \in valid[q]
      BY <1>8, <3>1, GroupRanks DEF Agree
    <3>3. \A q \in h : pc[q] = "idle" /\ table[q] = Desired(q)
      BY <3>2 DEF ValidatedHoldClaims
    <3> QED BY <1>8, <3>1, <3>3, GroupRanks DEF Agree, Move, Desired, TypeOK
  <2> QED BY <2>1, <2>2
<1>9. CASE UNCHANGED vars
  BY <1>9 DEF ValidatedHoldClaims, Desired, vars
<1> QED
  BY <1>1, <1>2, <1>3, <1>4, <1>5, <1>6, <1>7, <1>8, <1>9 DEF Next

\* The claims of validated ranks are in the table, and the table is free of
\* conflicts: so is the use of the devices.
LEMMA ClaimsExclude ==
  ASSUME NEW o, Owner = {o}, IInv(o)
  PROVE  NoSilentOversubscription
<1> SUFFICES ASSUME NEW g \in Group, NEW h \in Group, OnDevices(g), OnDevices(h),
                    NEW r \in g, NEW s \in h, r # s, assigned[r] = assigned[s]
             PROVE  share[r] /\ share[s]
  BY DEF NoSilentOversubscription
<1>1. /\ table[r] = Desired(r)
      /\ table[s] = Desired(s)
  BY DEF OnDevices, IInv, ValidatedHoldClaims
<1>2. r \in Rank /\ s \in Rank
  BY GroupRanks
<1> QED BY <1>1, <1>2, NoDeviceAssumption DEF IInv, ClaimsAreCompatible, Desired, TypeOK

\* When every subcommunicator steps a single fields owner, two ranks that step
\* on one device have both allowed it: for every world, division and number of
\* devices.  Without that hypothesis the claim of a validated owner can be lost
\* to the validation of another (run SharedClaim).
THEOREM OneOwnerExclusion ==
  ASSUME NEW o, Owner = {o}
  PROVE  Spec => []NoSilentOversubscription
<1>1. Init => IInv(o)
  <2> SUFFICES ASSUME Init PROVE IInv(o)
    OBVIOUS
  <2>1. GrantedHoldClaims
    BY DEF Init, GrantedHoldClaims
  <2>2. ValidatedHoldClaims(o)
    <3> SUFFICES ASSUME NEW g \in Group, \A r \in g : o \in valid[r], NEW q \in g
                 PROVE  FALSE
      BY DEF ValidatedHoldClaims
    <3> QED BY GroupRanks DEF Init
  <2> QED BY <2>1, <2>2, InitCompatible DEF IInv
<1>2. IInv(o) /\ [Next]_vars => IInv(o)'
  BY TypeInv, CompatibleInv, GrantedInv, ValidatedInv DEF IInv
<1>3. IInv(o) => NoSilentOversubscription
  BY ClaimsExclude
<1> QED BY <1>1, <1>2, <1>3, PTL DEF Spec

===============================================================================
