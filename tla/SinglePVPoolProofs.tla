-------------------------- MODULE SinglePVPoolProofs --------------------------
(***************************************************************************)
(* SinglePVPool implements WholePoolOwnership, for any number of           *)
(* processes and volumes.                                                  *)
(*                                                                         *)
(* The inductive invariant says what a process may rely on: the flock is   *)
(* held exactly through the steps under it, and nobody else changes the    *)
(* claim meanwhile.  As long as there is no claim, whatever names an owner *)
(* (the record, a list the operator has made, a record a call has read)    *)
(* names the only volume with a PersistentVolume, and only such volumes    *)
(* have the pool mounted.                                                  *)
(***************************************************************************)
EXTENDS SinglePVPool, TLAPS

DeleteSteps == {"d_look", "d_lock", "d_policy", "d_claim", "d_adopt",
                "d_begin", "d_purge", "d_check", "d_retire"}
PurgeSteps  == {"d_purge", "d_check", "d_retire"}

Locking == \A p \in Procs : pc[p] \in Locked <=> lock = p

\* What a process knows of the claim.
KnowsClaim(p) ==
    /\ pc[p] # "idle" => vol[p] \in Vols
    /\ pc[p] = "c_set" => claim = NoClaim
    /\ pc[p] \in {"d_adopt", "u_adopt"} => claim = NoClaim /\ snap[p] = vol[p]
    /\ pc[p] = "d_begin" => claim # NoClaim /\ claim.vol = vol[p]
    /\ pc[p] \in PurgeSteps => /\ claim.vol = vol[p]
                               /\ claim.state \in {"deleting", "retired"}
    /\ pc[p] = "u_mount" => Mine(vol[p])

\* What a process knows of the volumes of a pool that nobody has claimed.
KnowsPool(p) ==
    /\ pc[p] \in DeleteSteps => vol[p] \in doomed
    /\ claim = NoClaim =>
         /\ pc[p] \in DeleteSteps => vol[p] \notin mounts
         /\ pc[p] \in {"c_lock", "c_scan", "c_set"} => pvs = {}
         /\ snap[p] # None => pvs \subseteq {snap[p]}

Unclaimed == claim = NoClaim =>
    /\ mounts \subseteq pvs
    /\ acked \subseteq doomed
    /\ rec.present /\ rec.ver => pvs = {}
    /\ rec.legacy # None => /\ pvs \subseteq {rec.legacy}
                             /\ rec.legacy \in pvs \cup doomed
    /\ listed.is => /\ pvs \subseteq listed.pvs
                    /\ listed.pvs \subseteq pvs \cup doomed

Claimed == claim # NoClaim =>
    /\ pvs \subseteq {claim.vol}
    /\ acked \subseteq doomed \cup {claim.vol}
    /\ claim.state # "active" => claim.vol \in doomed

IInv == /\ TypeOK
        /\ Locking
        /\ \A p \in Procs : KnowsClaim(p)
        /\ \A p \in Procs : KnowsPool(p)
        /\ Unclaimed
        /\ Claimed

LEMMA InitInv == Init => IInv
<1> SUFFICES ASSUME Init PROVE IInv
  OBVIOUS
<1>1. /\ rec \in Records /\ rec.legacy = None
      /\ rec.present /\ rec.ver => pvs = {}
      /\ pvs \subseteq Vols /\ mounts \subseteq pvs
  <2>1. NoRecord \in Records /\ ~NoRecord.present /\ NoRecord.legacy = None
    BY DEF Records, NoRecord
  <2>2. CASE Fresh
    BY <2>1, <2>2 DEF Fresh, Records, NoRecord
  <2>3. CASE FromLegacy
    <3>1. rec = NoRecord \/ rec = [NoRecord EXCEPT !.present = TRUE]
      BY <2>3 DEF FromLegacy
    <3>2. rec = NoRecord \/ rec = [present |-> TRUE, ver |-> FALSE, legacy |-> None]
      BY <3>1 DEF NoRecord
    <3>3. CASE rec = NoRecord
      BY <2>1, <2>3, <3>3 DEF FromLegacy
    <3>4. CASE rec = [present |-> TRUE, ver |-> FALSE, legacy |-> None]
      <4>1. rec \in Records
        BY <3>4 DEF Records
      <4>2. rec.legacy = None /\ ~rec.ver
        BY <3>4
      <4> QED
        BY <2>3, <4>1, <4>2 DEF FromLegacy
    <3> QED
      BY <3>2, <3>3, <3>4
  <2> QED
    BY <2>2, <2>3 DEF Init
<1>2. TypeOK
  BY <1>1, ConstantsAssumption
     DEF Init, TypeOK, PoolTyped, KubeTyped, LocalsTyped, Fresh, FromLegacy,
         NotSeen, NotListed, Claims, Seens, Steps
<1>3. Locking /\ \A p \in Procs : KnowsClaim(p) /\ KnowsPool(p)
  BY ConstantsAssumption
     DEF Init, Locking, KnowsClaim, KnowsPool, Locked, DeleteSteps, PurgeSteps
<1>4. Unclaimed /\ Claimed
  BY <1>1 DEF Init, Unclaimed, Claimed, NotListed
<1> QED
  BY <1>2, <1>3, <1>4 DEF IInv

LEMMA DoneTyped ==
    ASSUME TypeOK, NEW p \in Procs, Done(p)
    PROVE  /\ lock' \in Procs \cup {None}
           /\ pc' \in [Procs -> Steps]
           /\ vol' \in [Procs -> Vols \cup {None}]
           /\ seen' \in [Procs -> Seens]
           /\ snap' \in [Procs -> Vols \cup {None}]
  BY DEF TypeOK, PoolTyped, LocalsTyped, Done, Go, Steps, Seens, NotSeen

LEMMA ValuesTyped ==
    ASSUME PoolTyped, KubeTyped
    PROVE  /\ rec.legacy \in Vols \cup {None}
           /\ \A v \in Vols : Evidence(v) \in Seens
           /\ claim.state \in {"deleting", "retired"} =>
                [claim EXCEPT !.state = "retired"] \in Claims
<1>1. rec.legacy \in Vols \cup {None} /\ rec.ver \in BOOLEAN
  BY DEF KubeTyped, Records
<1>2. claim = NoClaim \/ claim \in [vol : Vols, state : {"active", "deleting", "retired"}]
  BY DEF PoolTyped, Claims
<1>3. ClaimState \in {"active", "deleting", "retired"}
  BY <1>2 DEF ClaimState
<1>4. \A v \in Vols : Evidence(v) \in Seens
  BY <1>1, <1>3 DEF Evidence, Seens, NotSeen
<1>5. claim.state \in {"deleting", "retired"} =>
        [claim EXCEPT !.state = "retired"] \in Claims
  BY <1>2 DEF Claims, NoClaim
<1> QED
  BY <1>1, <1>4, <1>5

LEMMA FailedTyped ==
    ASSUME TypeOK, NEW p \in Procs, Failed(p)
    PROVE  TypeOK'
  BY DoneTyped DEF TypeOK, PoolTyped, KubeTyped, LocalsTyped, Failed, kube

LEMMA CreateLookInv ==
    ASSUME IInv, NEW p \in Procs, CreateLook(p)
    PROVE  IInv'
<1>1. TypeOK'
  <2>1. CASE Failed(p)
    BY <2>1, FailedTyped DEF IInv
  <2>2. CASE ~Failed(p)
    <3>1. PoolTyped'
      BY <2>2, ConstantsAssumption, DoneTyped DEF IInv, TypeOK, PoolTyped,
      KubeTyped, LocalsTyped, KnowsClaim, CreateLook, At, Go, Created, Found,
      ClaimState, NoClaim, NotSeen, pool, kube, locals, Claims
    <3>2. KubeTyped'
      BY <2>2, ConstantsAssumption, DoneTyped DEF IInv, TypeOK, PoolTyped,
      KubeTyped, LocalsTyped, KnowsClaim, CreateLook, At, Go, Created, Found,
      ClaimState, NoClaim, NotSeen, pool, kube, locals, Claims, Records
    <3>3. LocalsTyped'
      BY <2>2, ConstantsAssumption, DoneTyped DEF IInv, TypeOK, PoolTyped,
      KubeTyped, LocalsTyped, KnowsClaim, CreateLook, At, Go, Created, Found,
      ClaimState, NoClaim, NotSeen, pool, kube, locals, Steps, Seens
    <3> QED
      BY <3>1, <3>2, <3>3 DEF TypeOK
  <2> QED
    BY <2>1, <2>2
<1>2. Locking'
  BY ConstantsAssumption DEF IInv, TypeOK, PoolTyped, KubeTyped, LocalsTyped,
      Locking, Locked, CreateLook, At, Go, Done, Created, Failed, Found,
      ClaimState, NoClaim, NotSeen, pool, kube, locals
<1>3. \A q \in Procs : KnowsClaim(q)'
  BY ConstantsAssumption DEF IInv, TypeOK, PoolTyped, KubeTyped, LocalsTyped,
      Locking, Locked, KnowsClaim, PurgeSteps, CreateLook, At, Go, Done,
      Created, Failed, Found, ClaimState, NoClaim, NotSeen, pool, kube,
      locals, Mine, Claim, Claims
<1>4. \A q \in Procs : KnowsPool(q)'
  BY ConstantsAssumption DEF IInv, TypeOK, PoolTyped, KubeTyped, LocalsTyped,
      Locking, Locked, KnowsClaim, KnowsPool, Unclaimed, Claimed, DeleteSteps,
      CreateLook, At, Go, Done, Created, Failed, Found, ClaimState, NoClaim,
      NotSeen, pool, kube, locals, Claims
<1>5. Unclaimed' /\ Claimed'
  BY ConstantsAssumption DEF IInv, TypeOK, PoolTyped, KubeTyped, LocalsTyped,
      Locking, Locked, KnowsClaim, KnowsPool, Unclaimed, Claimed, DeleteSteps,
      PurgeSteps, CreateLook, At, Go, Done, Created, Failed, Found,
      ClaimState, NoClaim, NotSeen, pool, kube, locals, Claims
<1> QED
  BY <1>1, <1>2, <1>3, <1>4, <1>5 DEF IInv

LEMMA CreateSelectInv ==
    ASSUME IInv, NEW p \in Procs, CreateSelect(p)
    PROVE  IInv'
<1>1. TypeOK'
  <2>1. CASE Failed(p)
    BY <2>1, FailedTyped DEF IInv
  <2>2. CASE ~Failed(p)
    <3>1. PoolTyped'
      BY <2>2, ConstantsAssumption, DoneTyped DEF IInv, TypeOK, PoolTyped,
      KubeTyped, LocalsTyped, KnowsClaim, CreateSelect, At, Go, NotSeen, pool,
      kube, locals, Claims
    <3>2. KubeTyped'
      BY <2>2, ConstantsAssumption, DoneTyped DEF IInv, TypeOK, PoolTyped,
      KubeTyped, LocalsTyped, KnowsClaim, CreateSelect, At, Go, NotSeen, pool,
      kube, locals, Claims, Records
    <3>3. LocalsTyped'
      BY <2>2, ConstantsAssumption, DoneTyped DEF IInv, TypeOK, PoolTyped,
      KubeTyped, LocalsTyped, KnowsClaim, CreateSelect, At, Go, NotSeen, pool,
      kube, locals, Steps, Seens
    <3> QED
      BY <3>1, <3>2, <3>3 DEF TypeOK
  <2> QED
    BY <2>1, <2>2
<1>2. Locking'
  BY ConstantsAssumption DEF IInv, TypeOK, PoolTyped, KubeTyped, LocalsTyped,
      Locking, Locked, CreateSelect, At, Go, Done, Failed, NotSeen, pool,
      kube, locals
<1>3. \A q \in Procs : KnowsClaim(q)'
  BY ConstantsAssumption DEF IInv, TypeOK, PoolTyped, KubeTyped, LocalsTyped,
      Locking, Locked, KnowsClaim, PurgeSteps, CreateSelect, At, Go, Done,
      Failed, NotSeen, pool, kube, locals, Mine, Claim, NoClaim, Claims
<1>4. \A q \in Procs : KnowsPool(q)'
  BY ConstantsAssumption DEF IInv, TypeOK, PoolTyped, KubeTyped, LocalsTyped,
      Locking, Locked, KnowsClaim, KnowsPool, Unclaimed, Claimed, DeleteSteps,
      CreateSelect, At, Go, Done, Failed, NotSeen, pool, kube, locals,
      NoClaim, Claims
<1>5. Unclaimed' /\ Claimed'
  BY ConstantsAssumption DEF IInv, TypeOK, PoolTyped, KubeTyped, LocalsTyped,
      Locking, Locked, KnowsClaim, KnowsPool, Unclaimed, Claimed, DeleteSteps,
      PurgeSteps, CreateSelect, At, Go, Done, Failed, NotSeen, pool, kube,
      locals, NoClaim, Claims
<1> QED
  BY <1>1, <1>2, <1>3, <1>4, <1>5 DEF IInv

LEMMA CreateLockInv ==
    ASSUME IInv, NEW p \in Procs, CreateLock(p)
    PROVE  IInv'
<1>1. TypeOK'
  <2>1. PoolTyped'
    BY ConstantsAssumption DEF IInv, TypeOK, PoolTyped, KubeTyped,
      LocalsTyped, KnowsClaim, CreateLock, At, Go, Take, kube, locals, Claims
  <2>2. KubeTyped'
    BY ConstantsAssumption DEF IInv, TypeOK, PoolTyped, KubeTyped,
      LocalsTyped, KnowsClaim, CreateLock, At, Go, Take, kube, locals, Claims,
      Records
  <2>3. LocalsTyped'
    BY ConstantsAssumption DEF IInv, TypeOK, PoolTyped, KubeTyped,
      LocalsTyped, KnowsClaim, CreateLock, At, Go, Take, kube, locals, Steps,
      Seens
  <2> QED
    BY <2>1, <2>2, <2>3 DEF TypeOK
<1>2. Locking'
  BY ConstantsAssumption DEF IInv, TypeOK, PoolTyped, KubeTyped, LocalsTyped,
      Locking, Locked, CreateLock, At, Go, Take, kube, locals
<1>3. \A q \in Procs : KnowsClaim(q)'
  BY ConstantsAssumption DEF IInv, TypeOK, PoolTyped, KubeTyped, LocalsTyped,
      Locking, Locked, KnowsClaim, PurgeSteps, CreateLock, At, Go, Take, kube,
      locals, Mine, Claim, NoClaim, Claims
<1>4. \A q \in Procs : KnowsPool(q)'
  BY ConstantsAssumption DEF IInv, TypeOK, PoolTyped, KubeTyped, LocalsTyped,
      Locking, Locked, KnowsClaim, KnowsPool, Unclaimed, Claimed, DeleteSteps,
      CreateLock, At, Go, Take, kube, locals, NoClaim, Claims
<1>5. Unclaimed' /\ Claimed'
  BY ConstantsAssumption DEF IInv, TypeOK, PoolTyped, KubeTyped, LocalsTyped,
      Locking, Locked, KnowsClaim, KnowsPool, Unclaimed, Claimed, DeleteSteps,
      PurgeSteps, CreateLock, At, Go, Take, kube, locals, NoClaim, Claims
<1> QED
  BY <1>1, <1>2, <1>3, <1>4, <1>5 DEF IInv

LEMMA CreateScanInv ==
    ASSUME IInv, NEW p \in Procs, CreateScan(p)
    PROVE  IInv'
<1>1. TypeOK'
  <2>1. CASE Failed(p)
    BY <2>1, FailedTyped DEF IInv
  <2>2. CASE ~Failed(p)
    <3>1. PoolTyped'
      BY <2>2, ConstantsAssumption, DoneTyped DEF IInv, TypeOK, PoolTyped,
      KubeTyped, LocalsTyped, KnowsClaim, CreateScan, At, Go, Created, Claim,
      Mine, NoClaim, NotSeen, pool, kube, locals, Claims
    <3>2. KubeTyped'
      BY <2>2, ConstantsAssumption, DoneTyped DEF IInv, TypeOK, PoolTyped,
      KubeTyped, LocalsTyped, KnowsClaim, CreateScan, At, Go, Created, Claim,
      Mine, NoClaim, NotSeen, pool, kube, locals, Claims, Records
    <3>3. LocalsTyped'
      BY <2>2, ConstantsAssumption, DoneTyped DEF IInv, TypeOK, PoolTyped,
      KubeTyped, LocalsTyped, KnowsClaim, CreateScan, At, Go, Created, Claim,
      Mine, NoClaim, NotSeen, pool, kube, locals, Steps, Seens
    <3> QED
      BY <3>1, <3>2, <3>3 DEF TypeOK
  <2> QED
    BY <2>1, <2>2
<1>2. Locking'
  BY ConstantsAssumption DEF IInv, TypeOK, PoolTyped, KubeTyped, LocalsTyped,
      Locking, Locked, CreateScan, At, Go, Done, Created, Failed, Claim, Mine,
      NoClaim, NotSeen, pool, kube, locals
<1>3. \A q \in Procs : KnowsClaim(q)'
  BY ConstantsAssumption DEF IInv, TypeOK, PoolTyped, KubeTyped, LocalsTyped,
      Locking, Locked, KnowsClaim, PurgeSteps, CreateScan, At, Go, Done,
      Created, Failed, Claim, Mine, NoClaim, NotSeen, pool, kube, locals,
      Claims
<1>4. \A q \in Procs : KnowsPool(q)'
  BY ConstantsAssumption DEF IInv, TypeOK, PoolTyped, KubeTyped, LocalsTyped,
      Locking, Locked, KnowsClaim, KnowsPool, Unclaimed, Claimed, DeleteSteps,
      CreateScan, At, Go, Done, Created, Failed, Claim, Mine, NoClaim,
      NotSeen, pool, kube, locals, Claims
<1>5. Unclaimed' /\ Claimed'
  BY ConstantsAssumption DEF IInv, TypeOK, PoolTyped, KubeTyped, LocalsTyped,
      Locking, Locked, KnowsClaim, KnowsPool, Unclaimed, Claimed, DeleteSteps,
      PurgeSteps, CreateScan, At, Go, Done, Created, Failed, Claim, Mine,
      NoClaim, NotSeen, pool, kube, locals, Claims
<1> QED
  BY <1>1, <1>2, <1>3, <1>4, <1>5 DEF IInv

LEMMA CreateSetInv ==
    ASSUME IInv, NEW p \in Procs, CreateSet(p)
    PROVE  IInv'
<1>1. TypeOK'
  <2>1. PoolTyped'
    BY ConstantsAssumption, DoneTyped DEF IInv, TypeOK, PoolTyped, KubeTyped,
      LocalsTyped, KnowsClaim, CreateSet, At, Go, ClaimPool, Claim, NoClaim,
      NotSeen, Claims
  <2>2. KubeTyped'
    BY ConstantsAssumption, DoneTyped DEF IInv, TypeOK, PoolTyped, KubeTyped,
      LocalsTyped, KnowsClaim, CreateSet, At, Go, ClaimPool, Claim, NoClaim,
      NotSeen, Claims, Records
  <2>3. LocalsTyped'
    BY ConstantsAssumption, DoneTyped DEF IInv, TypeOK, PoolTyped, KubeTyped,
      LocalsTyped, KnowsClaim, CreateSet, At, Go, ClaimPool, Claim, NoClaim,
      NotSeen, Steps, Seens
  <2> QED
    BY <2>1, <2>2, <2>3 DEF TypeOK
<1>2. Locking'
  BY ConstantsAssumption DEF IInv, TypeOK, PoolTyped, KubeTyped, LocalsTyped,
      Locking, Locked, CreateSet, At, Go, Done, ClaimPool, Claim, NoClaim,
      NotSeen
<1>3. \A q \in Procs : KnowsClaim(q)'
  BY ConstantsAssumption DEF IInv, TypeOK, PoolTyped, KubeTyped, LocalsTyped,
      Locking, Locked, KnowsClaim, PurgeSteps, CreateSet, At, Go, Done,
      ClaimPool, Claim, NoClaim, NotSeen, Mine, Claims
<1>4. \A q \in Procs : KnowsPool(q)'
  BY ConstantsAssumption DEF IInv, TypeOK, PoolTyped, KubeTyped, LocalsTyped,
      Locking, Locked, KnowsClaim, KnowsPool, Unclaimed, Claimed, DeleteSteps,
      CreateSet, At, Go, Done, ClaimPool, Claim, NoClaim, NotSeen, Claims
<1>5. Unclaimed' /\ Claimed'
  BY ConstantsAssumption DEF IInv, TypeOK, PoolTyped, KubeTyped, LocalsTyped,
      Locking, Locked, KnowsClaim, KnowsPool, Unclaimed, Claimed, DeleteSteps,
      PurgeSteps, CreateSet, At, Go, Done, ClaimPool, Claim, NoClaim, NotSeen,
      Claims
<1> QED
  BY <1>1, <1>2, <1>3, <1>4, <1>5 DEF IInv

LEMMA DeleteLookInv ==
    ASSUME IInv, NEW p \in Procs, DeleteLook(p)
    PROVE  IInv'
<1>1. TypeOK'
  <2>1. PoolTyped'
    BY ConstantsAssumption, DoneTyped, ValuesTyped DEF IInv, TypeOK,
      PoolTyped, KubeTyped, LocalsTyped, KnowsClaim, DeleteLook, At, Go,
      Deleted, pool, kube, Claims
  <2>2. KubeTyped'
    BY ConstantsAssumption, DoneTyped, ValuesTyped DEF IInv, TypeOK,
      PoolTyped, KubeTyped, LocalsTyped, KnowsClaim, DeleteLook, At, Go,
      Deleted, pool, kube, Claims, Records
  <2>3. LocalsTyped'
    BY ConstantsAssumption, DoneTyped, ValuesTyped DEF IInv, TypeOK,
      LocalsTyped, KnowsClaim, DeleteLook, At, Go, Deleted, pool, kube, Steps
  <2> QED
    BY <2>1, <2>2, <2>3 DEF TypeOK
<1>2. Locking'
  BY ConstantsAssumption DEF IInv, TypeOK, PoolTyped, KubeTyped, LocalsTyped,
      Locking, Locked, DeleteLook, At, Go, Done, Deleted, Found, ClaimState,
      Evidence, NoClaim, NotSeen, pool, kube
<1>3. \A q \in Procs : KnowsClaim(q)'
  BY ConstantsAssumption DEF IInv, TypeOK, PoolTyped, KubeTyped, LocalsTyped,
      Locking, Locked, KnowsClaim, PurgeSteps, DeleteLook, At, Go, Done,
      Deleted, Found, ClaimState, Evidence, NoClaim, NotSeen, pool, kube,
      Mine, Claim, Claims
<1>4. \A q \in Procs : KnowsPool(q)'
  BY ConstantsAssumption DEF IInv, TypeOK, PoolTyped, KubeTyped, LocalsTyped,
      Locking, Locked, KnowsClaim, KnowsPool, Unclaimed, Claimed, DeleteSteps,
      DeleteLook, At, Go, Done, Deleted, Found, ClaimState, Evidence, NoClaim,
      NotSeen, pool, kube, Claims
<1>5. Unclaimed' /\ Claimed'
  BY ConstantsAssumption DEF IInv, TypeOK, PoolTyped, KubeTyped, LocalsTyped,
      Locking, Locked, KnowsClaim, KnowsPool, Unclaimed, Claimed, DeleteSteps,
      PurgeSteps, DeleteLook, At, Go, Done, Deleted, Found, ClaimState,
      Evidence, NoClaim, NotSeen, pool, kube, Claims
<1> QED
  BY <1>1, <1>2, <1>3, <1>4, <1>5 DEF IInv

LEMMA DeleteLockInv ==
    ASSUME IInv, NEW p \in Procs, DeleteLock(p)
    PROVE  IInv'
<1>1. TypeOK'
  <2>1. CASE Failed(p)
    BY <2>1, FailedTyped DEF IInv
  <2>2. CASE ~Failed(p)
    <3>1. PoolTyped'
      BY <2>2, ConstantsAssumption, DoneTyped DEF IInv, TypeOK, PoolTyped,
      KubeTyped, LocalsTyped, KnowsClaim, DeleteLock, At, Go, Take, Deleted,
      Found, ClaimState, Evidence, NoClaim, NotSeen, kube, locals, Claims
    <3>2. KubeTyped'
      BY <2>2, ConstantsAssumption, DoneTyped DEF IInv, TypeOK, PoolTyped,
      KubeTyped, LocalsTyped, KnowsClaim, DeleteLock, At, Go, Take, Deleted,
      Found, ClaimState, Evidence, NoClaim, NotSeen, kube, locals, Claims,
      Records
    <3>3. LocalsTyped'
      BY <2>2, ConstantsAssumption, DoneTyped DEF IInv, TypeOK, PoolTyped,
      KubeTyped, LocalsTyped, KnowsClaim, DeleteLock, At, Go, Take, Deleted,
      Found, ClaimState, Evidence, NoClaim, NotSeen, kube, locals, Steps,
      Seens
    <3> QED
      BY <3>1, <3>2, <3>3 DEF TypeOK
  <2> QED
    BY <2>1, <2>2
<1>2. Locking'
  BY ConstantsAssumption DEF IInv, TypeOK, PoolTyped, KubeTyped, LocalsTyped,
      Locking, Locked, DeleteLock, At, Go, Take, Done, Deleted, Failed, Found,
      ClaimState, Evidence, NoClaim, NotSeen, kube, locals
<1>3. \A q \in Procs : KnowsClaim(q)'
  BY ConstantsAssumption DEF IInv, TypeOK, PoolTyped, KubeTyped, LocalsTyped,
      Locking, Locked, KnowsClaim, PurgeSteps, DeleteLock, At, Go, Take, Done,
      Deleted, Failed, Found, ClaimState, Evidence, NoClaim, NotSeen, kube,
      locals, Mine, Claim, Claims
<1>4. \A q \in Procs : KnowsPool(q)'
  BY ConstantsAssumption DEF IInv, TypeOK, PoolTyped, KubeTyped, LocalsTyped,
      Locking, Locked, KnowsClaim, KnowsPool, Unclaimed, Claimed, DeleteSteps,
      DeleteLock, At, Go, Take, Done, Deleted, Failed, Found, ClaimState,
      Evidence, NoClaim, NotSeen, kube, locals, Claims
<1>5. Unclaimed' /\ Claimed'
  BY ConstantsAssumption DEF IInv, TypeOK, PoolTyped, KubeTyped, LocalsTyped,
      Locking, Locked, KnowsClaim, KnowsPool, Unclaimed, Claimed, DeleteSteps,
      PurgeSteps, DeleteLock, At, Go, Take, Done, Deleted, Failed, Found,
      ClaimState, Evidence, NoClaim, NotSeen, kube, locals, Claims
<1> QED
  BY <1>1, <1>2, <1>3, <1>4, <1>5 DEF IInv

LEMMA DeletePolicyInv ==
    ASSUME IInv, NEW p \in Procs, DeletePolicy(p)
    PROVE  IInv'
<1>1. TypeOK'
  <2>1. CASE Failed(p)
    BY <2>1, FailedTyped DEF IInv
  <2>2. CASE ~Failed(p)
    <3>1. PoolTyped'
      BY <2>2, ConstantsAssumption, DoneTyped, ValuesTyped DEF IInv, TypeOK,
      PoolTyped, KubeTyped, LocalsTyped, KnowsClaim, DeletePolicy, At, Go,
      Deleted, pool, kube, Claims
    <3>2. KubeTyped'
      BY <2>2, ConstantsAssumption, DoneTyped, ValuesTyped DEF IInv, TypeOK,
      PoolTyped, KubeTyped, LocalsTyped, KnowsClaim, DeletePolicy, At, Go,
      Deleted, pool, kube, Claims, Records
    <3>3. LocalsTyped'
      BY <2>2, ConstantsAssumption, DoneTyped, ValuesTyped DEF IInv, TypeOK,
      LocalsTyped, KnowsClaim, DeletePolicy, At, Go, Deleted, pool, kube,
      Steps
    <3> QED
      BY <3>1, <3>2, <3>3 DEF TypeOK
  <2> QED
    BY <2>1, <2>2
<1>2. Locking'
  BY ConstantsAssumption DEF IInv, TypeOK, PoolTyped, KubeTyped, LocalsTyped,
      Locking, Locked, DeletePolicy, At, Go, Done, Deleted, Failed, NotSeen,
      pool, kube
<1>3. \A q \in Procs : KnowsClaim(q)'
  BY ConstantsAssumption DEF IInv, TypeOK, PoolTyped, KubeTyped, LocalsTyped,
      Locking, Locked, KnowsClaim, PurgeSteps, DeletePolicy, At, Go, Done,
      Deleted, Failed, NotSeen, pool, kube, Mine, Claim, NoClaim, Claims
<1>4. \A q \in Procs : KnowsPool(q)'
  BY ConstantsAssumption DEF IInv, TypeOK, PoolTyped, KubeTyped, LocalsTyped,
      Locking, Locked, KnowsClaim, KnowsPool, Unclaimed, Claimed, DeleteSteps,
      DeletePolicy, At, Go, Done, Deleted, Failed, NotSeen, pool, kube,
      NoClaim, Claims
<1>5. Unclaimed' /\ Claimed'
  BY ConstantsAssumption DEF IInv, TypeOK, PoolTyped, KubeTyped, LocalsTyped,
      Locking, Locked, KnowsClaim, KnowsPool, Unclaimed, Claimed, DeleteSteps,
      PurgeSteps, DeletePolicy, At, Go, Done, Deleted, Failed, NotSeen, pool,
      kube, NoClaim, Claims
<1> QED
  BY <1>1, <1>2, <1>3, <1>4, <1>5 DEF IInv

LEMMA DeleteClaimInv ==
    ASSUME IInv, NEW p \in Procs, DeleteClaim(p)
    PROVE  IInv'
<1>1. TypeOK'
  <2>1. CASE Failed(p)
    BY <2>1, FailedTyped DEF IInv
  <2>2. CASE ~Failed(p)
    <3>1. PoolTyped'
      BY <2>2, ConstantsAssumption, DoneTyped DEF IInv, TypeOK, PoolTyped,
      KubeTyped, LocalsTyped, KnowsClaim, DeleteClaim, At, Go, NoClaim,
      NotSeen, pool, kube, locals, Claims
    <3>2. KubeTyped'
      BY <2>2, ConstantsAssumption, DoneTyped DEF IInv, TypeOK, PoolTyped,
      KubeTyped, LocalsTyped, KnowsClaim, DeleteClaim, At, Go, NoClaim,
      NotSeen, pool, kube, locals, Claims, Records
    <3>3. LocalsTyped'
      BY <2>2, ConstantsAssumption, DoneTyped DEF IInv, TypeOK, PoolTyped,
      KubeTyped, LocalsTyped, KnowsClaim, DeleteClaim, At, Go, NoClaim,
      NotSeen, pool, kube, locals, Steps, Seens
    <3> QED
      BY <3>1, <3>2, <3>3 DEF TypeOK
  <2> QED
    BY <2>1, <2>2
<1>2. Locking'
  BY ConstantsAssumption DEF IInv, TypeOK, PoolTyped, KubeTyped, LocalsTyped,
      Locking, Locked, DeleteClaim, At, Go, Done, Failed, NoClaim, NotSeen,
      pool, kube, locals
<1>3. \A q \in Procs : KnowsClaim(q)'
  BY ConstantsAssumption DEF IInv, TypeOK, PoolTyped, KubeTyped, LocalsTyped,
      Locking, Locked, KnowsClaim, PurgeSteps, DeleteClaim, At, Go, Done,
      Failed, NoClaim, NotSeen, pool, kube, locals, Mine, Claim, Claims
<1>4. \A q \in Procs : KnowsPool(q)'
  BY ConstantsAssumption DEF IInv, TypeOK, PoolTyped, KubeTyped, LocalsTyped,
      Locking, Locked, KnowsClaim, KnowsPool, Unclaimed, Claimed, DeleteSteps,
      DeleteClaim, At, Go, Done, Failed, NoClaim, NotSeen, pool, kube, locals,
      Claims
<1>5. Unclaimed' /\ Claimed'
  BY ConstantsAssumption DEF IInv, TypeOK, PoolTyped, KubeTyped, LocalsTyped,
      Locking, Locked, KnowsClaim, KnowsPool, Unclaimed, Claimed, DeleteSteps,
      PurgeSteps, DeleteClaim, At, Go, Done, Failed, NoClaim, NotSeen, pool,
      kube, locals, Claims
<1> QED
  BY <1>1, <1>2, <1>3, <1>4, <1>5 DEF IInv

LEMMA DeleteAdoptInv ==
    ASSUME IInv, NEW p \in Procs, DeleteAdopt(p)
    PROVE  IInv'
<1>1. TypeOK'
  <2>1. PoolTyped'
    BY ConstantsAssumption DEF IInv, TypeOK, PoolTyped, KubeTyped,
      LocalsTyped, KnowsClaim, DeleteAdopt, At, Go, ClaimPool, Claim, NoClaim,
      kube, locals, Claims
  <2>2. KubeTyped'
    BY ConstantsAssumption DEF IInv, TypeOK, PoolTyped, KubeTyped,
      LocalsTyped, KnowsClaim, DeleteAdopt, At, Go, ClaimPool, Claim, NoClaim,
      kube, locals, Claims, Records
  <2>3. LocalsTyped'
    BY ConstantsAssumption DEF IInv, TypeOK, PoolTyped, KubeTyped,
      LocalsTyped, KnowsClaim, DeleteAdopt, At, Go, ClaimPool, Claim, NoClaim,
      kube, locals, Steps, Seens
  <2> QED
    BY <2>1, <2>2, <2>3 DEF TypeOK
<1>2. Locking'
  BY ConstantsAssumption DEF IInv, TypeOK, PoolTyped, KubeTyped, LocalsTyped,
      Locking, Locked, DeleteAdopt, At, Go, ClaimPool, Claim, NoClaim, kube,
      locals
<1>3. \A q \in Procs : KnowsClaim(q)'
  BY ConstantsAssumption DEF IInv, TypeOK, PoolTyped, KubeTyped, LocalsTyped,
      Locking, Locked, KnowsClaim, PurgeSteps, DeleteAdopt, At, Go, ClaimPool,
      Claim, NoClaim, kube, locals, Mine, Claims
<1>4. \A q \in Procs : KnowsPool(q)'
  BY ConstantsAssumption DEF IInv, TypeOK, PoolTyped, KubeTyped, LocalsTyped,
      Locking, Locked, KnowsClaim, KnowsPool, Unclaimed, Claimed, DeleteSteps,
      DeleteAdopt, At, Go, ClaimPool, Claim, NoClaim, kube, locals, Claims
<1>5. Unclaimed' /\ Claimed'
  BY ConstantsAssumption DEF IInv, TypeOK, PoolTyped, KubeTyped, LocalsTyped,
      Locking, Locked, KnowsClaim, KnowsPool, Unclaimed, Claimed, DeleteSteps,
      PurgeSteps, DeleteAdopt, At, Go, ClaimPool, Claim, NoClaim, kube,
      locals, Claims
<1> QED
  BY <1>1, <1>2, <1>3, <1>4, <1>5 DEF IInv

LEMMA DeleteBeginInv ==
    ASSUME IInv, NEW p \in Procs, DeleteBegin(p)
    PROVE  IInv'
<1>1. TypeOK'
  <2>1. PoolTyped'
    BY ConstantsAssumption DEF IInv, TypeOK, PoolTyped, KubeTyped,
      LocalsTyped, KnowsClaim, DeleteBegin, At, Go, Claim, kube, locals,
      Claims
  <2>2. KubeTyped'
    BY ConstantsAssumption DEF IInv, TypeOK, PoolTyped, KubeTyped,
      LocalsTyped, KnowsClaim, DeleteBegin, At, Go, Claim, kube, locals,
      Claims, Records
  <2>3. LocalsTyped'
    BY ConstantsAssumption DEF IInv, TypeOK, PoolTyped, KubeTyped,
      LocalsTyped, KnowsClaim, DeleteBegin, At, Go, Claim, kube, locals,
      Steps, Seens
  <2> QED
    BY <2>1, <2>2, <2>3 DEF TypeOK
<1>2. Locking'
  BY ConstantsAssumption DEF IInv, TypeOK, PoolTyped, KubeTyped, LocalsTyped,
      Locking, Locked, DeleteBegin, At, Go, Claim, kube, locals
<1>3. \A q \in Procs : KnowsClaim(q)'
  BY ConstantsAssumption DEF IInv, TypeOK, PoolTyped, KubeTyped, LocalsTyped,
      Locking, Locked, KnowsClaim, PurgeSteps, DeleteBegin, At, Go, Claim,
      kube, locals, Mine, NoClaim, Claims
<1>4. \A q \in Procs : KnowsPool(q)'
  BY ConstantsAssumption DEF IInv, TypeOK, PoolTyped, KubeTyped, LocalsTyped,
      Locking, Locked, KnowsClaim, KnowsPool, Unclaimed, Claimed, DeleteSteps,
      DeleteBegin, At, Go, Claim, kube, locals, NoClaim, Claims
<1>5. Unclaimed' /\ Claimed'
  BY ConstantsAssumption DEF IInv, TypeOK, PoolTyped, KubeTyped, LocalsTyped,
      Locking, Locked, KnowsClaim, KnowsPool, Unclaimed, Claimed, DeleteSteps,
      PurgeSteps, DeleteBegin, At, Go, Claim, kube, locals, NoClaim, Claims
<1> QED
  BY <1>1, <1>2, <1>3, <1>4, <1>5 DEF IInv

LEMMA PurgeEntryInv ==
    ASSUME IInv, NEW p \in Procs, PurgeEntry(p)
    PROVE  IInv'
<1>1. TypeOK'
  <2>1. PoolTyped'
    BY ConstantsAssumption DEF IInv, TypeOK, PoolTyped, KubeTyped,
      LocalsTyped, KnowsClaim, PurgeEntry, At, kube, locals, Claims
  <2>2. KubeTyped'
    BY ConstantsAssumption DEF IInv, TypeOK, PoolTyped, KubeTyped,
      LocalsTyped, KnowsClaim, PurgeEntry, At, kube, locals, Claims, Records
  <2>3. LocalsTyped'
    BY ConstantsAssumption DEF IInv, TypeOK, PoolTyped, KubeTyped,
      LocalsTyped, KnowsClaim, PurgeEntry, At, kube, locals, Steps, Seens
  <2> QED
    BY <2>1, <2>2, <2>3 DEF TypeOK
<1>2. Locking'
  BY ConstantsAssumption DEF IInv, TypeOK, PoolTyped, KubeTyped, LocalsTyped,
      Locking, Locked, PurgeEntry, At, kube, locals
<1>3. \A q \in Procs : KnowsClaim(q)'
  BY ConstantsAssumption DEF IInv, TypeOK, PoolTyped, KubeTyped, LocalsTyped,
      Locking, Locked, KnowsClaim, PurgeSteps, PurgeEntry, At, kube, locals,
      Mine, Claim, NoClaim, Claims
<1>4. \A q \in Procs : KnowsPool(q)'
  BY ConstantsAssumption DEF IInv, TypeOK, PoolTyped, KubeTyped, LocalsTyped,
      Locking, Locked, KnowsClaim, KnowsPool, Unclaimed, Claimed, DeleteSteps,
      PurgeEntry, At, kube, locals, NoClaim, Claims
<1>5. Unclaimed' /\ Claimed'
  BY ConstantsAssumption DEF IInv, TypeOK, PoolTyped, KubeTyped, LocalsTyped,
      Locking, Locked, KnowsClaim, KnowsPool, Unclaimed, Claimed, DeleteSteps,
      PurgeSteps, PurgeEntry, At, kube, locals, NoClaim, Claims
<1> QED
  BY <1>1, <1>2, <1>3, <1>4, <1>5 DEF IInv

LEMMA PurgeEndInv ==
    ASSUME IInv, NEW p \in Procs, PurgeEnd(p)
    PROVE  IInv'
<1>1. TypeOK'
  <2>1. PoolTyped'
    BY ConstantsAssumption DEF IInv, TypeOK, PoolTyped, KubeTyped,
      LocalsTyped, KnowsClaim, PurgeEnd, At, Go, pool, kube, locals, Claims
  <2>2. KubeTyped'
    BY ConstantsAssumption DEF IInv, TypeOK, PoolTyped, KubeTyped,
      LocalsTyped, KnowsClaim, PurgeEnd, At, Go, pool, kube, locals, Claims,
      Records
  <2>3. LocalsTyped'
    BY ConstantsAssumption DEF IInv, TypeOK, PoolTyped, KubeTyped,
      LocalsTyped, KnowsClaim, PurgeEnd, At, Go, pool, kube, locals, Steps,
      Seens
  <2> QED
    BY <2>1, <2>2, <2>3 DEF TypeOK
<1>2. Locking'
  BY ConstantsAssumption DEF IInv, TypeOK, PoolTyped, KubeTyped, LocalsTyped,
      Locking, Locked, PurgeEnd, At, Go, pool, kube, locals
<1>3. \A q \in Procs : KnowsClaim(q)'
  BY ConstantsAssumption DEF IInv, TypeOK, PoolTyped, KubeTyped, LocalsTyped,
      Locking, Locked, KnowsClaim, PurgeSteps, PurgeEnd, At, Go, pool, kube,
      locals, Mine, Claim, NoClaim, Claims
<1>4. \A q \in Procs : KnowsPool(q)'
  BY ConstantsAssumption DEF IInv, TypeOK, PoolTyped, KubeTyped, LocalsTyped,
      Locking, Locked, KnowsClaim, KnowsPool, Unclaimed, Claimed, DeleteSteps,
      PurgeEnd, At, Go, pool, kube, locals, NoClaim, Claims
<1>5. Unclaimed' /\ Claimed'
  BY ConstantsAssumption DEF IInv, TypeOK, PoolTyped, KubeTyped, LocalsTyped,
      Locking, Locked, KnowsClaim, KnowsPool, Unclaimed, Claimed, DeleteSteps,
      PurgeSteps, PurgeEnd, At, Go, pool, kube, locals, NoClaim, Claims
<1> QED
  BY <1>1, <1>2, <1>3, <1>4, <1>5 DEF IInv

LEMMA DeleteCheckInv ==
    ASSUME IInv, NEW p \in Procs, DeleteCheck(p)
    PROVE  IInv'
<1>1. TypeOK'
  <2>1. CASE Failed(p)
    BY <2>1, FailedTyped DEF IInv
  <2>2. CASE ~Failed(p)
    <3>1. PoolTyped'
      BY <2>2, ConstantsAssumption, DoneTyped DEF IInv, TypeOK, PoolTyped,
      KubeTyped, LocalsTyped, KnowsClaim, DeleteCheck, At, Go, NotSeen, pool,
      kube, locals, Claims
    <3>2. KubeTyped'
      BY <2>2, ConstantsAssumption, DoneTyped DEF IInv, TypeOK, PoolTyped,
      KubeTyped, LocalsTyped, KnowsClaim, DeleteCheck, At, Go, NotSeen, pool,
      kube, locals, Claims, Records
    <3>3. LocalsTyped'
      BY <2>2, ConstantsAssumption, DoneTyped DEF IInv, TypeOK, PoolTyped,
      KubeTyped, LocalsTyped, KnowsClaim, DeleteCheck, At, Go, NotSeen, pool,
      kube, locals, Steps, Seens
    <3> QED
      BY <3>1, <3>2, <3>3 DEF TypeOK
  <2> QED
    BY <2>1, <2>2
<1>2. Locking'
  BY ConstantsAssumption DEF IInv, TypeOK, PoolTyped, KubeTyped, LocalsTyped,
      Locking, Locked, DeleteCheck, At, Go, Done, Failed, NotSeen, pool, kube,
      locals
<1>3. \A q \in Procs : KnowsClaim(q)'
  BY ConstantsAssumption DEF IInv, TypeOK, PoolTyped, KubeTyped, LocalsTyped,
      Locking, Locked, KnowsClaim, PurgeSteps, DeleteCheck, At, Go, Done,
      Failed, NotSeen, pool, kube, locals, Mine, Claim, NoClaim, Claims
<1>4. \A q \in Procs : KnowsPool(q)'
  BY ConstantsAssumption DEF IInv, TypeOK, PoolTyped, KubeTyped, LocalsTyped,
      Locking, Locked, KnowsClaim, KnowsPool, Unclaimed, Claimed, DeleteSteps,
      DeleteCheck, At, Go, Done, Failed, NotSeen, pool, kube, locals, NoClaim,
      Claims
<1>5. Unclaimed' /\ Claimed'
  BY ConstantsAssumption DEF IInv, TypeOK, PoolTyped, KubeTyped, LocalsTyped,
      Locking, Locked, KnowsClaim, KnowsPool, Unclaimed, Claimed, DeleteSteps,
      PurgeSteps, DeleteCheck, At, Go, Done, Failed, NotSeen, pool, kube,
      locals, NoClaim, Claims
<1> QED
  BY <1>1, <1>2, <1>3, <1>4, <1>5 DEF IInv

LEMMA DeleteRetireInv ==
    ASSUME IInv, NEW p \in Procs, DeleteRetire(p)
    PROVE  IInv'
<1>1. TypeOK'
  <2>1. PoolTyped'
    BY ConstantsAssumption, DoneTyped, ValuesTyped DEF IInv, TypeOK,
      PoolTyped, KubeTyped, LocalsTyped, KnowsClaim, PurgeSteps, DeleteRetire,
      At, Go, Claims
  <2>2. KubeTyped'
    BY ConstantsAssumption, DoneTyped, ValuesTyped DEF IInv, TypeOK,
      PoolTyped, KubeTyped, LocalsTyped, KnowsClaim, PurgeSteps, DeleteRetire,
      At, Go, Claims, Records
  <2>3. LocalsTyped'
    BY ConstantsAssumption, DoneTyped, ValuesTyped DEF IInv, TypeOK,
      PoolTyped, KubeTyped, LocalsTyped, KnowsClaim, PurgeSteps, DeleteRetire,
      At, Go, Steps, Seens
  <2> QED
    BY <2>1, <2>2, <2>3 DEF TypeOK
<1>2. Locking'
  BY ConstantsAssumption DEF IInv, TypeOK, PoolTyped, KubeTyped, LocalsTyped,
      Locking, Locked, DeleteRetire, At, Go, Done, NotSeen
<1>3. \A q \in Procs : KnowsClaim(q)'
  BY ConstantsAssumption DEF IInv, TypeOK, PoolTyped, KubeTyped, LocalsTyped,
      Locking, Locked, KnowsClaim, PurgeSteps, DeleteRetire, At, Go, Done,
      NotSeen, Mine, Claim, NoClaim, Claims
<1>4. \A q \in Procs : KnowsPool(q)'
  BY ConstantsAssumption DEF IInv, TypeOK, PoolTyped, KubeTyped, LocalsTyped,
      Locking, Locked, KnowsClaim, KnowsPool, Unclaimed, Claimed, DeleteSteps,
      DeleteRetire, At, Go, Done, NotSeen, NoClaim, Claims
<1>5. Unclaimed' /\ Claimed'
  BY ConstantsAssumption DEF IInv, TypeOK, PoolTyped, KubeTyped, LocalsTyped,
      Locking, Locked, KnowsClaim, KnowsPool, Unclaimed, Claimed, DeleteSteps,
      PurgeSteps, DeleteRetire, At, Go, Done, NotSeen, NoClaim, Claims
<1> QED
  BY <1>1, <1>2, <1>3, <1>4, <1>5 DEF IInv

LEMMA PublishRecordInv ==
    ASSUME IInv, NEW p \in Procs, PublishRecord(p)
    PROVE  IInv'
<1>1. TypeOK'
  <2>1. CASE Failed(p)
    BY <2>1, FailedTyped DEF IInv
  <2>2. CASE ~Failed(p)
    <3>1. PoolTyped'
      BY <2>2, ConstantsAssumption, DoneTyped, ValuesTyped DEF IInv, TypeOK,
      PoolTyped, KubeTyped, LocalsTyped, KnowsClaim, PublishRecord, At, Go,
      pool, kube, Claims
    <3>2. KubeTyped'
      BY <2>2, ConstantsAssumption, DoneTyped, ValuesTyped DEF IInv, TypeOK,
      PoolTyped, KubeTyped, LocalsTyped, KnowsClaim, PublishRecord, At, Go,
      pool, kube, Claims, Records
    <3>3. LocalsTyped'
      BY <2>2, ConstantsAssumption, DoneTyped, ValuesTyped DEF IInv, TypeOK,
      LocalsTyped, KnowsClaim, PublishRecord, At, Go, pool, kube, Steps
    <3> QED
      BY <3>1, <3>2, <3>3 DEF TypeOK
  <2> QED
    BY <2>1, <2>2
<1>2. Locking'
  BY ConstantsAssumption DEF IInv, TypeOK, PoolTyped, KubeTyped, LocalsTyped,
      Locking, Locked, PublishRecord, At, Go, Done, Failed, NotSeen, pool,
      kube
<1>3. \A q \in Procs : KnowsClaim(q)'
  BY ConstantsAssumption DEF IInv, TypeOK, PoolTyped, KubeTyped, LocalsTyped,
      Locking, Locked, KnowsClaim, PurgeSteps, PublishRecord, At, Go, Done,
      Failed, NotSeen, pool, kube, Mine, Claim, NoClaim, Claims
<1>4. \A q \in Procs : KnowsPool(q)'
  BY ConstantsAssumption DEF IInv, TypeOK, PoolTyped, KubeTyped, LocalsTyped,
      Locking, Locked, KnowsClaim, KnowsPool, Unclaimed, Claimed, DeleteSteps,
      PublishRecord, At, Go, Done, Failed, NotSeen, pool, kube, NoClaim,
      Claims
<1>5. Unclaimed' /\ Claimed'
  BY ConstantsAssumption DEF IInv, TypeOK, PoolTyped, KubeTyped, LocalsTyped,
      Locking, Locked, KnowsClaim, KnowsPool, Unclaimed, Claimed, DeleteSteps,
      PurgeSteps, PublishRecord, At, Go, Done, Failed, NotSeen, pool, kube,
      NoClaim, Claims
<1> QED
  BY <1>1, <1>2, <1>3, <1>4, <1>5 DEF IInv

LEMMA PublishEnsureInv ==
    ASSUME IInv, NEW p \in Procs, PublishEnsure(p)
    PROVE  IInv'
<1>1. TypeOK'
  <2>1. CASE Failed(p)
    BY <2>1, FailedTyped DEF IInv
  <2>2. CASE ~Failed(p)
    <3>1. PoolTyped'
      BY <2>2, ConstantsAssumption, DoneTyped DEF IInv, TypeOK, PoolTyped,
      KubeTyped, LocalsTyped, KnowsClaim, PublishEnsure, At, Go, Take, Claim,
      Mine, NoClaim, NotSeen, pool, kube, locals, Claims
    <3>2. KubeTyped'
      BY <2>2, ConstantsAssumption, DoneTyped DEF IInv, TypeOK, PoolTyped,
      KubeTyped, LocalsTyped, KnowsClaim, PublishEnsure, At, Go, Take, Claim,
      Mine, NoClaim, NotSeen, pool, kube, locals, Claims, Records
    <3>3. LocalsTyped'
      BY <2>2, ConstantsAssumption, DoneTyped DEF IInv, TypeOK, PoolTyped,
      KubeTyped, LocalsTyped, KnowsClaim, PublishEnsure, At, Go, Take, Claim,
      Mine, NoClaim, NotSeen, pool, kube, locals, Steps, Seens
    <3> QED
      BY <3>1, <3>2, <3>3 DEF TypeOK
  <2> QED
    BY <2>1, <2>2
<1>2. Locking'
  BY ConstantsAssumption DEF IInv, TypeOK, PoolTyped, KubeTyped, LocalsTyped,
      Locking, Locked, PublishEnsure, At, Go, Take, Done, Failed, Claim, Mine,
      NoClaim, NotSeen, pool, kube, locals
<1>3. \A q \in Procs : KnowsClaim(q)'
  BY ConstantsAssumption DEF IInv, TypeOK, PoolTyped, KubeTyped, LocalsTyped,
      Locking, Locked, KnowsClaim, PurgeSteps, PublishEnsure, At, Go, Take,
      Done, Failed, Claim, Mine, NoClaim, NotSeen, pool, kube, locals, Claims
<1>4. \A q \in Procs : KnowsPool(q)'
  BY ConstantsAssumption DEF IInv, TypeOK, PoolTyped, KubeTyped, LocalsTyped,
      Locking, Locked, KnowsClaim, KnowsPool, Unclaimed, Claimed, DeleteSteps,
      PublishEnsure, At, Go, Take, Done, Failed, Claim, Mine, NoClaim,
      NotSeen, pool, kube, locals, Claims
<1>5. Unclaimed' /\ Claimed'
  BY ConstantsAssumption DEF IInv, TypeOK, PoolTyped, KubeTyped, LocalsTyped,
      Locking, Locked, KnowsClaim, KnowsPool, Unclaimed, Claimed, DeleteSteps,
      PurgeSteps, PublishEnsure, At, Go, Take, Done, Failed, Claim, Mine,
      NoClaim, NotSeen, pool, kube, locals, Claims
<1> QED
  BY <1>1, <1>2, <1>3, <1>4, <1>5 DEF IInv

LEMMA PublishAdoptInv ==
    ASSUME IInv, NEW p \in Procs, PublishAdopt(p)
    PROVE  IInv'
<1>1. TypeOK'
  <2>1. PoolTyped'
    BY ConstantsAssumption DEF IInv, TypeOK, PoolTyped, KubeTyped,
      LocalsTyped, KnowsClaim, PublishAdopt, At, Go, ClaimPool, Claim,
      NoClaim, kube, locals, Claims
  <2>2. KubeTyped'
    BY ConstantsAssumption DEF IInv, TypeOK, PoolTyped, KubeTyped,
      LocalsTyped, KnowsClaim, PublishAdopt, At, Go, ClaimPool, Claim,
      NoClaim, kube, locals, Claims, Records
  <2>3. LocalsTyped'
    BY ConstantsAssumption DEF IInv, TypeOK, PoolTyped, KubeTyped,
      LocalsTyped, KnowsClaim, PublishAdopt, At, Go, ClaimPool, Claim,
      NoClaim, kube, locals, Steps, Seens
  <2> QED
    BY <2>1, <2>2, <2>3 DEF TypeOK
<1>2. Locking'
  BY ConstantsAssumption DEF IInv, TypeOK, PoolTyped, KubeTyped, LocalsTyped,
      Locking, Locked, PublishAdopt, At, Go, ClaimPool, Claim, NoClaim, kube,
      locals
<1>3. \A q \in Procs : KnowsClaim(q)'
  BY ConstantsAssumption DEF IInv, TypeOK, PoolTyped, KubeTyped, LocalsTyped,
      Locking, Locked, KnowsClaim, PurgeSteps, PublishAdopt, At, Go,
      ClaimPool, Claim, NoClaim, kube, locals, Mine, Claims
<1>4. \A q \in Procs : KnowsPool(q)'
  BY ConstantsAssumption DEF IInv, TypeOK, PoolTyped, KubeTyped, LocalsTyped,
      Locking, Locked, KnowsClaim, KnowsPool, Unclaimed, Claimed, DeleteSteps,
      PublishAdopt, At, Go, ClaimPool, Claim, NoClaim, kube, locals, Claims
<1>5. Unclaimed' /\ Claimed'
  BY ConstantsAssumption DEF IInv, TypeOK, PoolTyped, KubeTyped, LocalsTyped,
      Locking, Locked, KnowsClaim, KnowsPool, Unclaimed, Claimed, DeleteSteps,
      PurgeSteps, PublishAdopt, At, Go, ClaimPool, Claim, NoClaim, kube,
      locals, Claims
<1> QED
  BY <1>1, <1>2, <1>3, <1>4, <1>5 DEF IInv

LEMMA PublishLockInv ==
    ASSUME IInv, NEW p \in Procs, PublishLock(p)
    PROVE  IInv'
<1>1. TypeOK'
  <2>1. CASE Failed(p)
    BY <2>1, FailedTyped DEF IInv
  <2>2. CASE ~Failed(p)
    <3>1. PoolTyped'
      BY <2>2, ConstantsAssumption, DoneTyped DEF IInv, TypeOK, PoolTyped,
      KubeTyped, LocalsTyped, KnowsClaim, PublishLock, At, Go, Take, Claim,
      Mine, NotSeen, kube, locals, Claims
    <3>2. KubeTyped'
      BY <2>2, ConstantsAssumption, DoneTyped DEF IInv, TypeOK, PoolTyped,
      KubeTyped, LocalsTyped, KnowsClaim, PublishLock, At, Go, Take, Claim,
      Mine, NotSeen, kube, locals, Claims, Records
    <3>3. LocalsTyped'
      BY <2>2, ConstantsAssumption, DoneTyped DEF IInv, TypeOK, PoolTyped,
      KubeTyped, LocalsTyped, KnowsClaim, PublishLock, At, Go, Take, Claim,
      Mine, NotSeen, kube, locals, Steps, Seens
    <3> QED
      BY <3>1, <3>2, <3>3 DEF TypeOK
  <2> QED
    BY <2>1, <2>2
<1>2. Locking'
  BY ConstantsAssumption DEF IInv, TypeOK, PoolTyped, KubeTyped, LocalsTyped,
      Locking, Locked, PublishLock, At, Go, Take, Done, Failed, Claim, Mine,
      NotSeen, kube, locals
<1>3. \A q \in Procs : KnowsClaim(q)'
  BY ConstantsAssumption DEF IInv, TypeOK, PoolTyped, KubeTyped, LocalsTyped,
      Locking, Locked, KnowsClaim, PurgeSteps, PublishLock, At, Go, Take,
      Done, Failed, Claim, Mine, NotSeen, kube, locals, NoClaim, Claims
<1>4. \A q \in Procs : KnowsPool(q)'
  BY ConstantsAssumption DEF IInv, TypeOK, PoolTyped, KubeTyped, LocalsTyped,
      Locking, Locked, KnowsClaim, KnowsPool, Unclaimed, Claimed, DeleteSteps,
      PublishLock, At, Go, Take, Done, Failed, Claim, Mine, NotSeen, kube,
      locals, NoClaim, Claims
<1>5. Unclaimed' /\ Claimed'
  BY ConstantsAssumption DEF IInv, TypeOK, PoolTyped, KubeTyped, LocalsTyped,
      Locking, Locked, KnowsClaim, KnowsPool, Unclaimed, Claimed, DeleteSteps,
      PurgeSteps, PublishLock, At, Go, Take, Done, Failed, Claim, Mine,
      NotSeen, kube, locals, NoClaim, Claims
<1> QED
  BY <1>1, <1>2, <1>3, <1>4, <1>5 DEF IInv

LEMMA PublishMountInv ==
    ASSUME IInv, NEW p \in Procs, PublishMount(p)
    PROVE  IInv'
<1>1. TypeOK'
  <2>1. PoolTyped'
    BY ConstantsAssumption, DoneTyped DEF IInv, TypeOK, PoolTyped, KubeTyped,
      LocalsTyped, KnowsClaim, PublishMount, At, Go, Claim, Mine, NotSeen,
      kube, Claims
  <2>2. KubeTyped'
    BY ConstantsAssumption, DoneTyped DEF IInv, TypeOK, PoolTyped, KubeTyped,
      LocalsTyped, KnowsClaim, PublishMount, At, Go, Claim, Mine, NotSeen,
      kube, Claims, Records
  <2>3. LocalsTyped'
    BY ConstantsAssumption, DoneTyped DEF IInv, TypeOK, PoolTyped, KubeTyped,
      LocalsTyped, KnowsClaim, PublishMount, At, Go, Claim, Mine, NotSeen,
      kube, Steps, Seens
  <2> QED
    BY <2>1, <2>2, <2>3 DEF TypeOK
<1>2. Locking'
  BY ConstantsAssumption DEF IInv, TypeOK, PoolTyped, KubeTyped, LocalsTyped,
      Locking, Locked, PublishMount, At, Go, Done, Claim, Mine, NotSeen, kube
<1>3. \A q \in Procs : KnowsClaim(q)'
  BY ConstantsAssumption DEF IInv, TypeOK, PoolTyped, KubeTyped, LocalsTyped,
      Locking, Locked, KnowsClaim, PurgeSteps, PublishMount, At, Go, Done,
      Claim, Mine, NotSeen, kube, NoClaim, Claims
<1>4. \A q \in Procs : KnowsPool(q)'
  BY ConstantsAssumption DEF IInv, TypeOK, PoolTyped, KubeTyped, LocalsTyped,
      Locking, Locked, KnowsClaim, KnowsPool, Unclaimed, Claimed, DeleteSteps,
      PublishMount, At, Go, Done, Claim, Mine, NotSeen, kube, NoClaim, Claims
<1>5. Unclaimed' /\ Claimed'
  BY ConstantsAssumption DEF IInv, TypeOK, PoolTyped, KubeTyped, LocalsTyped,
      Locking, Locked, KnowsClaim, KnowsPool, Unclaimed, Claimed, DeleteSteps,
      PurgeSteps, PublishMount, At, Go, Done, Claim, Mine, NotSeen, kube,
      NoClaim, Claims
<1> QED
  BY <1>1, <1>2, <1>3, <1>4, <1>5 DEF IInv

LEMMA AbandonInv ==
    ASSUME IInv, NEW p \in Procs, Abandon(p)
    PROVE  IInv'
<1>1. TypeOK'
  <2>1. PoolTyped'
    BY ConstantsAssumption, DoneTyped DEF IInv, TypeOK, PoolTyped, KubeTyped,
      LocalsTyped, KnowsClaim, Abandon, At, Go, NotSeen, kube, Claims
  <2>2. KubeTyped'
    BY ConstantsAssumption, DoneTyped DEF IInv, TypeOK, PoolTyped, KubeTyped,
      LocalsTyped, KnowsClaim, Abandon, At, Go, NotSeen, kube, Claims, Records
  <2>3. LocalsTyped'
    BY ConstantsAssumption, DoneTyped DEF IInv, TypeOK, PoolTyped, KubeTyped,
      LocalsTyped, KnowsClaim, Abandon, At, Go, NotSeen, kube, Steps, Seens
  <2> QED
    BY <2>1, <2>2, <2>3 DEF TypeOK
<1>2. Locking'
  BY ConstantsAssumption DEF IInv, TypeOK, PoolTyped, KubeTyped, LocalsTyped,
      Locking, Locked, Abandon, At, Go, Done, NotSeen, kube
<1>3. \A q \in Procs : KnowsClaim(q)'
  BY ConstantsAssumption DEF IInv, TypeOK, PoolTyped, KubeTyped, LocalsTyped,
      Locking, Locked, KnowsClaim, PurgeSteps, Abandon, At, Go, Done, NotSeen,
      kube, Mine, Claim, NoClaim, Claims
<1>4. \A q \in Procs : KnowsPool(q)'
  BY ConstantsAssumption DEF IInv, TypeOK, PoolTyped, KubeTyped, LocalsTyped,
      Locking, Locked, KnowsClaim, KnowsPool, Unclaimed, Claimed, DeleteSteps,
      Abandon, At, Go, Done, NotSeen, kube, NoClaim, Claims
<1>5. Unclaimed' /\ Claimed'
  BY ConstantsAssumption DEF IInv, TypeOK, PoolTyped, KubeTyped, LocalsTyped,
      Locking, Locked, KnowsClaim, KnowsPool, Unclaimed, Claimed, DeleteSteps,
      PurgeSteps, Abandon, At, Go, Done, NotSeen, kube, NoClaim, Claims
<1> QED
  BY <1>1, <1>2, <1>3, <1>4, <1>5 DEF IInv

LEMMA StartCreateInv ==
    ASSUME IInv, NEW p \in Procs, NEW v \in Vols, StartCreate(p, v)
    PROVE  IInv'
<1>1. TypeOK'
  <2>1. PoolTyped'
    BY ConstantsAssumption DEF IInv, TypeOK, PoolTyped, KubeTyped,
      LocalsTyped, KnowsClaim, StartCreate, At, Go, Begin, pool, kube, Claims
  <2>2. KubeTyped'
    BY ConstantsAssumption DEF IInv, TypeOK, PoolTyped, KubeTyped,
      LocalsTyped, KnowsClaim, StartCreate, At, Go, Begin, pool, kube, Claims,
      Records
  <2>3. LocalsTyped'
    BY ConstantsAssumption DEF IInv, TypeOK, PoolTyped, KubeTyped,
      LocalsTyped, KnowsClaim, StartCreate, At, Go, Begin, pool, kube, Steps,
      Seens
  <2> QED
    BY <2>1, <2>2, <2>3 DEF TypeOK
<1>2. Locking'
  BY ConstantsAssumption DEF IInv, TypeOK, PoolTyped, KubeTyped, LocalsTyped,
      Locking, Locked, StartCreate, At, Go, Begin, pool, kube
<1>3. \A q \in Procs : KnowsClaim(q)'
  BY ConstantsAssumption DEF IInv, TypeOK, PoolTyped, KubeTyped, LocalsTyped,
      Locking, Locked, KnowsClaim, PurgeSteps, StartCreate, At, Go, Begin,
      pool, kube, Mine, Claim, NoClaim, Claims
<1>4. \A q \in Procs : KnowsPool(q)'
  BY ConstantsAssumption DEF IInv, TypeOK, PoolTyped, KubeTyped, LocalsTyped,
      Locking, Locked, KnowsClaim, KnowsPool, Unclaimed, Claimed, DeleteSteps,
      StartCreate, At, Go, Begin, pool, kube, NoClaim, Claims
<1>5. Unclaimed' /\ Claimed'
  BY ConstantsAssumption DEF IInv, TypeOK, PoolTyped, KubeTyped, LocalsTyped,
      Locking, Locked, KnowsClaim, KnowsPool, Unclaimed, Claimed, DeleteSteps,
      PurgeSteps, StartCreate, At, Go, Begin, pool, kube, NoClaim, Claims
<1> QED
  BY <1>1, <1>2, <1>3, <1>4, <1>5 DEF IInv

LEMMA StartDeleteInv ==
    ASSUME IInv, NEW p \in Procs, NEW v \in Vols, StartDelete(p, v)
    PROVE  IInv'
<1>1. TypeOK'
  <2>1. PoolTyped'
    BY ConstantsAssumption DEF IInv, TypeOK, PoolTyped, KubeTyped,
      LocalsTyped, KnowsClaim, StartDelete, At, Go, Begin, NoClaim, pool,
      Claims
  <2>2. KubeTyped'
    BY ConstantsAssumption DEF IInv, TypeOK, PoolTyped, KubeTyped,
      LocalsTyped, KnowsClaim, StartDelete, At, Go, Begin, NoClaim, pool,
      Claims, Records
  <2>3. LocalsTyped'
    BY ConstantsAssumption DEF IInv, TypeOK, PoolTyped, KubeTyped,
      LocalsTyped, KnowsClaim, StartDelete, At, Go, Begin, NoClaim, pool,
      Steps, Seens
  <2> QED
    BY <2>1, <2>2, <2>3 DEF TypeOK
<1>2. Locking'
  BY ConstantsAssumption DEF IInv, TypeOK, PoolTyped, KubeTyped, LocalsTyped,
      Locking, Locked, StartDelete, At, Go, Begin, NoClaim, pool
<1>3. \A q \in Procs : KnowsClaim(q)'
  BY ConstantsAssumption DEF IInv, TypeOK, PoolTyped, KubeTyped, LocalsTyped,
      Locking, Locked, KnowsClaim, PurgeSteps, StartDelete, At, Go, Begin,
      NoClaim, pool, Mine, Claim, Claims
<1>4. \A q \in Procs : KnowsPool(q)'
  BY ConstantsAssumption DEF IInv, TypeOK, PoolTyped, KubeTyped, LocalsTyped,
      Locking, Locked, KnowsClaim, KnowsPool, Unclaimed, Claimed, DeleteSteps,
      StartDelete, At, Go, Begin, NoClaim, pool, Claims
<1>5. Unclaimed' /\ Claimed'
  BY ConstantsAssumption DEF IInv, TypeOK, PoolTyped, KubeTyped, LocalsTyped,
      Locking, Locked, KnowsClaim, KnowsPool, Unclaimed, Claimed, DeleteSteps,
      PurgeSteps, StartDelete, At, Go, Begin, NoClaim, pool, Claims
<1> QED
  BY <1>1, <1>2, <1>3, <1>4, <1>5 DEF IInv

LEMMA StartPublishInv ==
    ASSUME IInv, NEW p \in Procs, NEW v \in Vols, StartPublish(p, v)
    PROVE  IInv'
<1>1. TypeOK'
  <2>1. PoolTyped'
    BY ConstantsAssumption DEF IInv, TypeOK, PoolTyped, KubeTyped,
      LocalsTyped, KnowsClaim, StartPublish, At, Go, Begin, pool, kube, Claims
  <2>2. KubeTyped'
    BY ConstantsAssumption DEF IInv, TypeOK, PoolTyped, KubeTyped,
      LocalsTyped, KnowsClaim, StartPublish, At, Go, Begin, pool, kube,
      Claims, Records
  <2>3. LocalsTyped'
    BY ConstantsAssumption DEF IInv, TypeOK, PoolTyped, KubeTyped,
      LocalsTyped, KnowsClaim, StartPublish, At, Go, Begin, pool, kube, Steps,
      Seens
  <2> QED
    BY <2>1, <2>2, <2>3 DEF TypeOK
<1>2. Locking'
  BY ConstantsAssumption DEF IInv, TypeOK, PoolTyped, KubeTyped, LocalsTyped,
      Locking, Locked, StartPublish, At, Go, Begin, pool, kube
<1>3. \A q \in Procs : KnowsClaim(q)'
  BY ConstantsAssumption DEF IInv, TypeOK, PoolTyped, KubeTyped, LocalsTyped,
      Locking, Locked, KnowsClaim, PurgeSteps, StartPublish, At, Go, Begin,
      pool, kube, Mine, Claim, NoClaim, Claims
<1>4. \A q \in Procs : KnowsPool(q)'
  BY ConstantsAssumption DEF IInv, TypeOK, PoolTyped, KubeTyped, LocalsTyped,
      Locking, Locked, KnowsClaim, KnowsPool, Unclaimed, Claimed, DeleteSteps,
      StartPublish, At, Go, Begin, pool, kube, NoClaim, Claims
<1>5. Unclaimed' /\ Claimed'
  BY ConstantsAssumption DEF IInv, TypeOK, PoolTyped, KubeTyped, LocalsTyped,
      Locking, Locked, KnowsClaim, KnowsPool, Unclaimed, Claimed, DeleteSteps,
      PurgeSteps, StartPublish, At, Go, Begin, pool, kube, NoClaim, Claims
<1> QED
  BY <1>1, <1>2, <1>3, <1>4, <1>5 DEF IInv

LEMMA UnpublishInv ==
    ASSUME IInv, NEW v \in Vols, Unpublish(v)
    PROVE  IInv'
<1>1. TypeOK'
  <2>1. PoolTyped'
    BY ConstantsAssumption DEF IInv, TypeOK, PoolTyped, KubeTyped,
      LocalsTyped, KnowsClaim, Unpublish, kube, locals, Claims
  <2>2. KubeTyped'
    BY ConstantsAssumption DEF IInv, TypeOK, PoolTyped, KubeTyped,
      LocalsTyped, KnowsClaim, Unpublish, kube, locals, Claims, Records
  <2>3. LocalsTyped'
    BY ConstantsAssumption DEF IInv, TypeOK, PoolTyped, KubeTyped,
      LocalsTyped, KnowsClaim, Unpublish, kube, locals, Steps, Seens
  <2> QED
    BY <2>1, <2>2, <2>3 DEF TypeOK
<1>2. Locking'
  BY ConstantsAssumption DEF IInv, TypeOK, PoolTyped, KubeTyped, LocalsTyped,
      Locking, Locked, Unpublish, kube, locals
<1>3. \A q \in Procs : KnowsClaim(q)'
  BY ConstantsAssumption DEF IInv, TypeOK, PoolTyped, KubeTyped, LocalsTyped,
      Locking, Locked, KnowsClaim, PurgeSteps, Unpublish, kube, locals, Mine,
      Claim, NoClaim, Claims
<1>4. \A q \in Procs : KnowsPool(q)'
  BY ConstantsAssumption DEF IInv, TypeOK, PoolTyped, KubeTyped, LocalsTyped,
      Locking, Locked, KnowsClaim, KnowsPool, Unclaimed, Claimed, DeleteSteps,
      Unpublish, kube, locals, NoClaim, Claims
<1>5. Unclaimed' /\ Claimed'
  BY ConstantsAssumption DEF IInv, TypeOK, PoolTyped, KubeTyped, LocalsTyped,
      Locking, Locked, KnowsClaim, KnowsPool, Unclaimed, Claimed, DeleteSteps,
      PurgeSteps, Unpublish, kube, locals, NoClaim, Claims
<1> QED
  BY <1>1, <1>2, <1>3, <1>4, <1>5 DEF IInv

LEMMA WriteInv ==
    ASSUME IInv, NEW v \in Vols, Write(v)
    PROVE  IInv'
<1>1. TypeOK'
  <2>1. PoolTyped'
    BY ConstantsAssumption DEF IInv, TypeOK, PoolTyped, KubeTyped,
      LocalsTyped, KnowsClaim, Write, kube, locals, Claims
  <2>2. KubeTyped'
    BY ConstantsAssumption DEF IInv, TypeOK, PoolTyped, KubeTyped,
      LocalsTyped, KnowsClaim, Write, kube, locals, Claims, Records
  <2>3. LocalsTyped'
    BY ConstantsAssumption DEF IInv, TypeOK, PoolTyped, KubeTyped,
      LocalsTyped, KnowsClaim, Write, kube, locals, Steps, Seens
  <2> QED
    BY <2>1, <2>2, <2>3 DEF TypeOK
<1>2. Locking'
  BY ConstantsAssumption DEF IInv, TypeOK, PoolTyped, KubeTyped, LocalsTyped,
      Locking, Locked, Write, kube, locals
<1>3. \A q \in Procs : KnowsClaim(q)'
  BY ConstantsAssumption DEF IInv, TypeOK, PoolTyped, KubeTyped, LocalsTyped,
      Locking, Locked, KnowsClaim, PurgeSteps, Write, kube, locals, Mine,
      Claim, NoClaim, Claims
<1>4. \A q \in Procs : KnowsPool(q)'
  BY ConstantsAssumption DEF IInv, TypeOK, PoolTyped, KubeTyped, LocalsTyped,
      Locking, Locked, KnowsClaim, KnowsPool, Unclaimed, Claimed, DeleteSteps,
      Write, kube, locals, NoClaim, Claims
<1>5. Unclaimed' /\ Claimed'
  BY ConstantsAssumption DEF IInv, TypeOK, PoolTyped, KubeTyped, LocalsTyped,
      Locking, Locked, KnowsClaim, KnowsPool, Unclaimed, Claimed, DeleteSteps,
      PurgeSteps, Write, kube, locals, NoClaim, Claims
<1> QED
  BY <1>1, <1>2, <1>3, <1>4, <1>5 DEF IInv

LEMMA ProvisionInv ==
    ASSUME IInv, NEW v \in Vols, Provision(v)
    PROVE  IInv'
<1>1. TypeOK'
  <2>1. PoolTyped'
    BY ConstantsAssumption DEF IInv, TypeOK, PoolTyped, KubeTyped,
      LocalsTyped, KnowsClaim, Provision, pool, locals, Claims
  <2>2. KubeTyped'
    BY ConstantsAssumption DEF IInv, TypeOK, PoolTyped, KubeTyped,
      LocalsTyped, KnowsClaim, Provision, pool, locals, Claims, Records
  <2>3. LocalsTyped'
    BY ConstantsAssumption DEF IInv, TypeOK, PoolTyped, KubeTyped,
      LocalsTyped, KnowsClaim, Provision, pool, locals, Steps, Seens
  <2> QED
    BY <2>1, <2>2, <2>3 DEF TypeOK
<1>2. Locking'
  BY ConstantsAssumption DEF IInv, TypeOK, PoolTyped, KubeTyped, LocalsTyped,
      Locking, Locked, Provision, pool, locals
<1>3. \A q \in Procs : KnowsClaim(q)'
  BY ConstantsAssumption DEF IInv, TypeOK, PoolTyped, KubeTyped, LocalsTyped,
      Locking, Locked, KnowsClaim, PurgeSteps, Provision, pool, locals, Mine,
      Claim, NoClaim, Claims
<1>4. \A q \in Procs : KnowsPool(q)'
  BY ConstantsAssumption DEF IInv, TypeOK, PoolTyped, KubeTyped, LocalsTyped,
      Locking, Locked, KnowsClaim, KnowsPool, Unclaimed, Claimed, DeleteSteps,
      Provision, pool, locals, NoClaim, Claims
<1>5. Unclaimed' /\ Claimed'
  BY ConstantsAssumption DEF IInv, TypeOK, PoolTyped, KubeTyped, LocalsTyped,
      Locking, Locked, KnowsClaim, KnowsPool, Unclaimed, Claimed, DeleteSteps,
      PurgeSteps, Provision, pool, locals, NoClaim, Claims
<1> QED
  BY <1>1, <1>2, <1>3, <1>4, <1>5 DEF IInv

LEMMA LoseRecordInv ==
    ASSUME IInv, LoseRecord
    PROVE  IInv'
<1>1. TypeOK'
  <2>1. PoolTyped'
    BY ConstantsAssumption DEF IInv, TypeOK, PoolTyped, KubeTyped,
      LocalsTyped, KnowsClaim, LoseRecord, NoRecord, pool, locals, Claims
  <2>2. KubeTyped'
    BY ConstantsAssumption DEF IInv, TypeOK, PoolTyped, KubeTyped,
      LocalsTyped, KnowsClaim, LoseRecord, NoRecord, pool, locals, Claims,
      Records
  <2>3. LocalsTyped'
    BY ConstantsAssumption DEF IInv, TypeOK, PoolTyped, KubeTyped,
      LocalsTyped, KnowsClaim, LoseRecord, NoRecord, pool, locals, Steps,
      Seens
  <2> QED
    BY <2>1, <2>2, <2>3 DEF TypeOK
<1>2. Locking'
  BY ConstantsAssumption DEF IInv, TypeOK, PoolTyped, KubeTyped, LocalsTyped,
      Locking, Locked, LoseRecord, NoRecord, pool, locals
<1>3. \A q \in Procs : KnowsClaim(q)'
  BY ConstantsAssumption DEF IInv, TypeOK, PoolTyped, KubeTyped, LocalsTyped,
      Locking, Locked, KnowsClaim, PurgeSteps, LoseRecord, NoRecord, pool,
      locals, Mine, Claim, NoClaim, Claims
<1>4. \A q \in Procs : KnowsPool(q)'
  BY ConstantsAssumption DEF IInv, TypeOK, PoolTyped, KubeTyped, LocalsTyped,
      Locking, Locked, KnowsClaim, KnowsPool, Unclaimed, Claimed, DeleteSteps,
      LoseRecord, NoRecord, pool, locals, NoClaim, Claims
<1>5. Unclaimed' /\ Claimed'
  BY ConstantsAssumption DEF IInv, TypeOK, PoolTyped, KubeTyped, LocalsTyped,
      Locking, Locked, KnowsClaim, KnowsPool, Unclaimed, Claimed, DeleteSteps,
      PurgeSteps, LoseRecord, NoRecord, pool, locals, NoClaim, Claims
<1> QED
  BY <1>1, <1>2, <1>3, <1>4, <1>5 DEF IInv

LEMMA ListOwnersInv ==
    ASSUME IInv, ListOwners
    PROVE  IInv'
<1>1. TypeOK'
  <2>1. PoolTyped'
    BY ConstantsAssumption DEF IInv, TypeOK, PoolTyped, KubeTyped,
      LocalsTyped, KnowsClaim, ListOwners, pool, locals, Claims
  <2>2. KubeTyped'
    BY ConstantsAssumption DEF IInv, TypeOK, PoolTyped, KubeTyped,
      LocalsTyped, KnowsClaim, ListOwners, pool, locals, Claims, Records
  <2>3. LocalsTyped'
    BY ConstantsAssumption DEF IInv, TypeOK, PoolTyped, KubeTyped,
      LocalsTyped, KnowsClaim, ListOwners, pool, locals, Steps, Seens
  <2> QED
    BY <2>1, <2>2, <2>3 DEF TypeOK
<1>2. Locking'
  BY ConstantsAssumption DEF IInv, TypeOK, PoolTyped, KubeTyped, LocalsTyped,
      Locking, Locked, ListOwners, pool, locals
<1>3. \A q \in Procs : KnowsClaim(q)'
  BY ConstantsAssumption DEF IInv, TypeOK, PoolTyped, KubeTyped, LocalsTyped,
      Locking, Locked, KnowsClaim, PurgeSteps, ListOwners, pool, locals, Mine,
      Claim, NoClaim, Claims
<1>4. \A q \in Procs : KnowsPool(q)'
  BY ConstantsAssumption DEF IInv, TypeOK, PoolTyped, KubeTyped, LocalsTyped,
      Locking, Locked, KnowsClaim, KnowsPool, Unclaimed, Claimed, DeleteSteps,
      ListOwners, pool, locals, NoClaim, Claims
<1>5. Unclaimed' /\ Claimed'
  BY ConstantsAssumption DEF IInv, TypeOK, PoolTyped, KubeTyped, LocalsTyped,
      Locking, Locked, KnowsClaim, KnowsPool, Unclaimed, Claimed, DeleteSteps,
      PurgeSteps, ListOwners, pool, locals, NoClaim, Claims
<1> QED
  BY <1>1, <1>2, <1>3, <1>4, <1>5 DEF IInv

LEMMA RecoverRecordInv ==
    ASSUME IInv, RecoverRecord
    PROVE  IInv'
<1>1. TypeOK'
  <2>1. PoolTyped'
    BY ConstantsAssumption DEF IInv, TypeOK, PoolTyped, KubeTyped,
      LocalsTyped, KnowsClaim, RecoverRecord, NotListed, pool, locals,
      OnlyOwner, Several, Claims
  <2>2. KubeTyped'
    BY ConstantsAssumption DEF IInv, TypeOK, PoolTyped, KubeTyped,
      LocalsTyped, KnowsClaim, RecoverRecord, NotListed, pool, locals,
      OnlyOwner, Several, Claims, Records
  <2>3. LocalsTyped'
    BY ConstantsAssumption DEF IInv, TypeOK, PoolTyped, KubeTyped,
      LocalsTyped, KnowsClaim, RecoverRecord, NotListed, pool, locals,
      OnlyOwner, Several, Steps, Seens
  <2> QED
    BY <2>1, <2>2, <2>3 DEF TypeOK
<1>2. Locking'
  BY ConstantsAssumption DEF IInv, TypeOK, PoolTyped, KubeTyped, LocalsTyped,
      Locking, Locked, RecoverRecord, NotListed, pool, locals, OnlyOwner,
      Several
<1>3. \A q \in Procs : KnowsClaim(q)'
  BY ConstantsAssumption DEF IInv, TypeOK, PoolTyped, KubeTyped, LocalsTyped,
      Locking, Locked, KnowsClaim, PurgeSteps, RecoverRecord, NotListed, pool,
      locals, OnlyOwner, Several, Mine, Claim, NoClaim, Claims
<1>4. \A q \in Procs : KnowsPool(q)'
  BY ConstantsAssumption DEF IInv, TypeOK, PoolTyped, KubeTyped, LocalsTyped,
      Locking, Locked, KnowsClaim, KnowsPool, Unclaimed, Claimed, DeleteSteps,
      RecoverRecord, NotListed, pool, locals, OnlyOwner, Several, NoClaim,
      Claims
<1>5. Unclaimed' /\ Claimed'
  <2>1. UNCHANGED <<claim, mounts, pvs, acked, doomed>> /\ ~listed'.is
    BY DEF RecoverRecord, pool, NotListed
  <2>2. Claimed'
    BY <2>1 DEF IInv, Claimed, NoClaim
  <2>3. CASE Several(listed.pvs)
    BY <2>1, <2>2, <2>3 DEF IInv, Unclaimed, NoClaim, RecoverRecord
  <2>4. CASE ~Several(listed.pvs) /\ listed.pvs = {}
    <3>1. rec'.legacy = None
      BY <2>4 DEF RecoverRecord
    <3> QED
      BY <2>1, <2>2, <2>4, <3>1 DEF IInv, Unclaimed, NoClaim, RecoverRecord
  <2>5. CASE ~Several(listed.pvs) /\ listed.pvs # {}
    <3>1. ~rec'.ver /\ rec'.legacy = OnlyOwner(listed.pvs)
      BY <2>5 DEF RecoverRecord
    <3>2. OnlyOwner(listed.pvs) \in listed.pvs
      BY <2>5 DEF OnlyOwner
    <3>3. listed.pvs \subseteq {OnlyOwner(listed.pvs)}
      BY <2>5, <3>2 DEF Several
    <3> QED
      BY <2>1, <2>2, <3>1, <3>2, <3>3
         DEF IInv, Unclaimed, NoClaim, RecoverRecord
  <2> QED
    BY <2>2, <2>3, <2>4, <2>5
<1> QED
  BY <1>1, <1>2, <1>3, <1>4, <1>5 DEF IInv

LEMMA MigrateRecordInv ==
    ASSUME IInv, MigrateRecord
    PROVE  IInv'
<1>1. TypeOK'
  <2>1. PoolTyped'
    BY ConstantsAssumption DEF IInv, TypeOK, PoolTyped, KubeTyped,
      LocalsTyped, KnowsClaim, MigrateRecord, pool, locals, OnlyOwner,
      Several, Claims
  <2>2. KubeTyped'
    BY ConstantsAssumption DEF IInv, TypeOK, PoolTyped, KubeTyped,
      LocalsTyped, KnowsClaim, MigrateRecord, pool, locals, OnlyOwner,
      Several, Claims, Records
  <2>3. LocalsTyped'
    BY ConstantsAssumption DEF IInv, TypeOK, PoolTyped, KubeTyped,
      LocalsTyped, KnowsClaim, MigrateRecord, pool, locals, OnlyOwner,
      Several, Steps, Seens
  <2> QED
    BY <2>1, <2>2, <2>3 DEF TypeOK
<1>2. Locking'
  BY ConstantsAssumption DEF IInv, TypeOK, PoolTyped, KubeTyped, LocalsTyped,
      Locking, Locked, MigrateRecord, pool, locals, OnlyOwner, Several
<1>3. \A q \in Procs : KnowsClaim(q)'
  BY ConstantsAssumption DEF IInv, TypeOK, PoolTyped, KubeTyped, LocalsTyped,
      Locking, Locked, KnowsClaim, PurgeSteps, MigrateRecord, pool, locals,
      OnlyOwner, Several, Mine, Claim, NoClaim, Claims
<1>4. \A q \in Procs : KnowsPool(q)'
  BY ConstantsAssumption DEF IInv, TypeOK, PoolTyped, KubeTyped, LocalsTyped,
      Locking, Locked, KnowsClaim, KnowsPool, Unclaimed, Claimed, DeleteSteps,
      MigrateRecord, pool, locals, OnlyOwner, Several, NoClaim, Claims
<1>5. Unclaimed' /\ Claimed'
  BY ConstantsAssumption DEF IInv, TypeOK, PoolTyped, KubeTyped, LocalsTyped,
      Locking, Locked, KnowsClaim, KnowsPool, Unclaimed, Claimed, DeleteSteps,
      PurgeSteps, MigrateRecord, pool, locals, OnlyOwner, Several, NoClaim,
      Claims
<1> QED
  BY <1>1, <1>2, <1>3, <1>4, <1>5 DEF IInv

-----------------------------------------------------------------------------
LEMMA StepInv == IInv /\ [Next]_vars => IInv'
<1> SUFFICES ASSUME IInv, [Next]_vars PROVE IInv'
  OBVIOUS
<1>1. CASE UNCHANGED vars
  BY <1>1 DEF IInv, TypeOK, PoolTyped, KubeTyped, LocalsTyped, Locking, KnowsClaim,
              KnowsPool, Unclaimed, Claimed, Mine, vars, pool, kube, locals
<1>2. ASSUME NEW p \in Procs, Start(p) PROVE IInv'
  BY <1>2, StartCreateInv, StartDeleteInv, StartPublishInv DEF Start
<1>3. ASSUME NEW p \in Procs, CreateStep(p) PROVE IInv'
  BY <1>3, CreateLookInv, CreateSelectInv, CreateLockInv, CreateScanInv,
     CreateSetInv DEF CreateStep
<1>4. ASSUME NEW p \in Procs, DeleteStep(p) PROVE IInv'
  BY <1>4, DeleteLookInv, DeleteLockInv, DeletePolicyInv, DeleteClaimInv,
     DeleteAdoptInv, DeleteBeginInv, PurgeEntryInv, PurgeEndInv, DeleteCheckInv,
     DeleteRetireInv DEF DeleteStep
<1>5. ASSUME NEW p \in Procs, PublishStep(p) PROVE IInv'
  BY <1>5, PublishRecordInv, PublishEnsureInv, PublishAdoptInv, PublishLockInv,
     PublishMountInv DEF PublishStep
<1>6. ASSUME NEW p \in Procs, Abandon(p) PROVE IInv'
  BY <1>6, AbandonInv
<1>7. ASSUME NEW v \in Vols, Unpublish(v) \/ Write(v) \/ Provision(v) PROVE IInv'
  BY <1>7, UnpublishInv, WriteInv, ProvisionInv
<1>8. CASE LoseRecord \/ ListOwners \/ RecoverRecord \/ MigrateRecord
  BY <1>8, LoseRecordInv, ListOwnersInv, RecoverRecordInv, MigrateRecordInv
<1> QED
  BY <1>1, <1>2, <1>3, <1>4, <1>5, <1>6, <1>7, <1>8 DEF Next, Step

\* The invariant the other theorems rest on: what names an owner of an
\* unclaimed pool names its only PersistentVolume, and the claim is changed
\* only by the holder of the flock (single_pv_operation_lock).
THEOREM Invariant == Spec => []IInv
<1>1. IInv /\ [Next]_vars => IInv'
  BY StepInv
<1> QED
  BY InitInv, <1>1, PTL DEF Spec

\* Every variable of the dedicated pool keeps its type.
THEOREM TypeCorrect == Spec => []TypeOK
<1>1. IInv => TypeOK
  BY DEF IInv
<1> QED
  BY Invariant, <1>1, PTL

\* An acknowledged owner that nobody asked to delete has the pool, and nobody
\* else does (claim_single_pv_volume, legacy adoption).
THEOREM OwnerIsUndisturbed == Spec => []OwnerUndisturbed
<1>1. IInv => OwnerUndisturbed
  <2> SUFFICES ASSUME IInv, claim # NoClaim, NEW v \in (acked \cup pvs) \ doomed
               PROVE  Mine(v)
    BY DEF OwnerUndisturbed
  <2>1. claim.vol = v /\ claim.state = "active"
    BY DEF IInv, Claimed
  <2>2. claim \in [vol : Vols, state : {"active", "deleting", "retired"}]
    BY DEF IInv, TypeOK, PoolTyped, Claims
  <2> QED
    BY <2>1, <2>2 DEF Mine, Claim
<1> QED
  BY Invariant, <1>1, PTL

-----------------------------------------------------------------------------
(***************************************************************************)
(* Action properties.                                                      *)
(***************************************************************************)
LEMMA KeepsContent ==
    ASSUME NEW p \in Procs,
           \/ Start(p) \/ CreateStep(p) \/ PublishStep(p) \/ Abandon(p)
           \/ DeleteStep(p) /\ ~PurgeEntry(p)
    PROVE  content' = content
<1>1. CASE Start(p)
  BY <1>1 DEF Start, StartCreate, StartDelete, StartPublish, Begin, pool
<1>2. CASE CreateStep(p)
  BY <1>2 DEF CreateStep, CreateLook, CreateSelect, CreateLock, CreateScan, CreateSet,
              Created, Failed, pool
<1>3. CASE PublishStep(p)
  BY <1>3 DEF PublishStep, PublishRecord, PublishEnsure, PublishAdopt, PublishLock,
              PublishMount, Failed, pool
<1>4. CASE Abandon(p)
  BY <1>4 DEF Abandon
<1>5. CASE DeleteStep(p) /\ ~PurgeEntry(p)
  BY <1>5 DEF DeleteStep, DeleteLook, DeleteLock, DeletePolicy, DeleteClaim,
              DeleteAdopt, DeleteBegin, PurgeEnd, DeleteCheck, DeleteRetire,
              Deleted, Failed, pool
<1> QED
  BY <1>1, <1>2, <1>3, <1>4, <1>5

\* Data goes only under the claim of a volume that somebody asked to delete
\* (begin_single_pv_delete before purge_single_pv_pool).
THEOREM PurgeIsAuthorised == Spec => PurgeAuthorised
<1>1. IInv /\ [Next]_vars => [LossAuthorised]_vars
  <2> SUFFICES ASSUME IInv, Next PROVE LossAuthorised
    OBVIOUS
  <2>1. ASSUME NEW p \in Procs, PurgeEntry(p) PROVE LossAuthorised
    <3>1. claim.vol = vol[p] /\ claim.state \in {"deleting", "retired"}
      BY <2>1 DEF IInv, KnowsClaim, PurgeEntry, At, PurgeSteps
    <3>2. claim.vol \in doomed
      BY <2>1, <3>1 DEF IInv, KnowsPool, PurgeEntry, At, DeleteSteps
    <3>3. pvs \subseteq {claim.vol}
      BY <3>1 DEF IInv, Claimed, NoClaim
    <3> QED
      BY <3>1, <3>2, <3>3 DEF LossAuthorised
  <2>2. ASSUME content \subseteq content' PROVE LossAuthorised
    BY <2>2 DEF LossAuthorised
  <2>3. ASSUME NEW v \in Vols, Unpublish(v) \/ Write(v) \/ Provision(v)
        PROVE  content \subseteq content'
    BY <2>3 DEF Unpublish, Write, Provision, pool
  <2>4. ASSUME LoseRecord \/ ListOwners \/ RecoverRecord \/ MigrateRecord
        PROVE  content \subseteq content'
    BY <2>4 DEF LoseRecord, ListOwners, RecoverRecord, MigrateRecord, pool
  <2> QED
    BY <2>1, <2>2, <2>3, <2>4, KeepsContent DEF Next, Step
<1> QED
  BY Invariant, <1>1, PTL DEF Spec, PurgeAuthorised

-----------------------------------------------------------------------------
(***************************************************************************)
(* Refinement.  Few steps are steps of the abstract pool.                  *)
(***************************************************************************)
LEMMA InitMaps == Init => Ownership!Init
  BY DEF Init, Ownership!Init, Fresh, FromLegacy, NoClaim

LEMMA Stutters ==
    ASSUME UNCHANGED <<claim, mounts>>
    PROVE  UNCHANGED Ownership!ownership
  BY DEF Ownership!ownership

\* The first claim: nobody else can have the pool mounted.
LEMMA ClaimMaps ==
    ASSUME IInv, NEW v \in Vols, claim = NoClaim, pvs \subseteq {v},
           claim' = Claim(v, "active"), mounts' = mounts
    PROVE  Ownership!Assign(v)
<1>1. mounts \subseteq {v}
  BY DEF IInv, Unclaimed
<1>2. claim' # NoClaim /\ claim'.vol = v /\ claim'.state = "active"
  BY DEF Claim, NoClaim
<1> QED
  BY <1>1, <1>2 DEF Ownership!Assign

LEMMA CreateMaps ==
    ASSUME IInv, NEW p \in Procs, CreateStep(p)
    PROVE  [Ownership!Next]_(Ownership!ownership)
<1>1. CASE CreateSet(p)
  <2>1. vol[p] \in Vols /\ claim = NoClaim
    BY <1>1 DEF IInv, KnowsClaim, CreateSet, At
  <2>2. pvs \subseteq {vol[p]}
    BY <1>1, <2>1 DEF IInv, KnowsPool, CreateSet, At
  <2>3. claim' = Claim(vol[p], "active") /\ mounts' = mounts
    BY <1>1, <2>1 DEF CreateSet, ClaimPool
  <2> QED
    BY <2>1, <2>2, <2>3, ClaimMaps DEF Ownership!Next
<1>2. CASE ~CreateSet(p)
  <2>1. UNCHANGED <<claim, mounts>>
    BY <1>2 DEF CreateStep, CreateLook, CreateSelect, CreateLock, CreateScan,
                Created, Failed, pool
  <2> QED
    BY <2>1, Stutters
<1> QED
  BY <1>1, <1>2

LEMMA PublishMaps ==
    ASSUME IInv, NEW p \in Procs, PublishStep(p)
    PROVE  [Ownership!Next]_(Ownership!ownership)
<1>1. CASE PublishAdopt(p)
  <2>1. vol[p] \in Vols /\ claim = NoClaim /\ snap[p] = vol[p]
    BY <1>1 DEF IInv, KnowsClaim, PublishAdopt, At
  <2>2. pvs \subseteq {vol[p]}
    BY <2>1, ConstantsAssumption DEF IInv, KnowsPool
  <2>3. claim' = Claim(vol[p], "active") /\ mounts' = mounts
    BY <1>1, <2>1 DEF PublishAdopt, ClaimPool
  <2> QED
    BY <2>1, <2>2, <2>3, ClaimMaps DEF Ownership!Next
<1>2. CASE PublishMount(p)
  <2>1. vol[p] \in Vols /\ Mine(vol[p])
    BY <1>2 DEF IInv, KnowsClaim, PublishMount, At
  <2>2. claim # NoClaim /\ claim.vol = vol[p] /\ claim.state = "active"
    BY <2>1 DEF Mine, Claim, NoClaim
  <2>3. claim' = claim /\ mounts' = mounts \cup {vol[p]}
    BY <1>2, <2>1 DEF PublishMount
  <2> QED
    BY <2>1, <2>2, <2>3 DEF Ownership!Next, Ownership!Grant
<1>3. CASE ~PublishAdopt(p) /\ ~PublishMount(p)
  <2>1. UNCHANGED <<claim, mounts>>
    BY <1>3 DEF PublishStep, PublishRecord, PublishEnsure, PublishLock, Failed, pool
  <2> QED
    BY <2>1, Stutters
<1> QED
  BY <1>1, <1>2, <1>3

LEMMA DeleteMaps ==
    ASSUME IInv, NEW p \in Procs, DeleteStep(p)
    PROVE  [Ownership!Next]_(Ownership!ownership)
<1>1. CASE DeleteAdopt(p)
  <2>1. vol[p] \in Vols /\ claim = NoClaim /\ snap[p] = vol[p]
    BY <1>1 DEF IInv, KnowsClaim, DeleteAdopt, At
  <2>2. pvs \subseteq {vol[p]}
    BY <2>1, ConstantsAssumption DEF IInv, KnowsPool
  <2>3. claim' = Claim(vol[p], "active") /\ mounts' = mounts
    BY <1>1, <2>1 DEF DeleteAdopt, ClaimPool
  <2> QED
    BY <2>1, <2>2, <2>3, ClaimMaps DEF Ownership!Next
<1>2. CASE DeleteBegin(p)
  <2>1. claim # NoClaim /\ claim.vol = vol[p]
    BY <1>2 DEF IInv, KnowsClaim, DeleteBegin, At
  <2>2. mounts' = mounts
    BY <1>2 DEF DeleteBegin
  <2>3. CASE claim.state = "active"
    <3>1. claim' = Claim(vol[p], "deleting")
      BY <1>2, <2>3 DEF DeleteBegin
    <3>2. claim' # NoClaim /\ claim'.vol = claim.vol /\ claim'.state = "deleting"
      BY <2>1, <3>1 DEF Claim, NoClaim
    <3> QED
      BY <2>1, <2>2, <2>3, <3>2 DEF Ownership!Next, Ownership!Close
  <2>4. CASE claim.state # "active"
    BY <1>2, <2>2, <2>4, Stutters DEF DeleteBegin
  <2> QED
    BY <2>3, <2>4
<1>3. CASE DeleteRetire(p)
  <2>1. claim.state \in {"deleting", "retired"} /\ claim \in Claims
    BY <1>3 DEF IInv, TypeOK, PoolTyped, KnowsClaim, PurgeSteps, DeleteRetire, At
  <2>2. claim \in [vol : Vols, state : {"active", "deleting", "retired"}]
    BY <2>1 DEF Claims, NoClaim
  <2>3. claim' = [claim EXCEPT !.state = "retired"] /\ mounts' = mounts
    BY <1>3 DEF DeleteRetire
  <2>4. claim'.vol = claim.vol /\ claim'.state = "retired"
    BY <2>2, <2>3
  <2>5. claim # NoClaim /\ claim' # NoClaim
    BY <2>1, <2>4 DEF NoClaim
  <2>6. CASE claim.state = "deleting"
    BY <2>3, <2>4, <2>5, <2>6 DEF Ownership!Next, Ownership!Retire
  <2>7. CASE claim.state = "retired"
    BY <2>3, <2>4, <2>5, <2>7 DEF Ownership!ownership
  <2> QED
    BY <2>1, <2>6, <2>7
<1>4. CASE ~DeleteAdopt(p) /\ ~DeleteBegin(p) /\ ~DeleteRetire(p)
  <2>1. UNCHANGED <<claim, mounts>>
    BY <1>4 DEF DeleteStep, DeleteLook, DeleteLock, DeletePolicy, DeleteClaim,
                PurgeEntry, PurgeEnd, DeleteCheck, Deleted, Failed, pool
  <2> QED
    BY <2>1, Stutters
<1> QED
  BY <1>1, <1>2, <1>3, <1>4

\* Every step of the dedicated pool is a step of WholePoolOwnership or leaves
\* owner, phase and users as they are.
THEOREM Refinement == Spec => OwnershipKept
<1>1. IInv /\ [Next]_vars => [Ownership!Next]_(Ownership!ownership)
  <2> SUFFICES ASSUME IInv, [Next]_vars PROVE [Ownership!Next]_(Ownership!ownership)
    OBVIOUS
  <2>1. CASE UNCHANGED vars
    BY <2>1, Stutters DEF vars, pool
  <2>2. ASSUME NEW p \in Procs, Start(p) \/ Abandon(p)
        PROVE  [Ownership!Next]_(Ownership!ownership)
    <3>1. UNCHANGED <<claim, mounts>>
      BY <2>2 DEF Start, StartCreate, StartDelete, StartPublish, Begin, Abandon, pool
    <3> QED
      BY <3>1, Stutters
  <2>3. ASSUME NEW v \in Vols, Unpublish(v)
        PROVE  [Ownership!Next]_(Ownership!ownership)
    BY <2>3 DEF Unpublish, Ownership!Next, Ownership!Leave
  <2>4. ASSUME \/ \E v \in Vols : Write(v) \/ Provision(v)
               \/ LoseRecord \/ ListOwners \/ RecoverRecord \/ MigrateRecord
        PROVE  [Ownership!Next]_(Ownership!ownership)
    <3>1. UNCHANGED <<claim, mounts>>
      BY <2>4 DEF Write, Provision, LoseRecord, ListOwners, RecoverRecord,
                  MigrateRecord, pool
    <3> QED
      BY <3>1, Stutters
  <2> QED
    BY <2>1, <2>2, <2>3, <2>4, CreateMaps, PublishMaps, DeleteMaps DEF Next, Step
<1> QED
  BY InitMaps, Invariant, <1>1, PTL DEF Spec, OwnershipKept, Ownership!Spec
=============================================================================
