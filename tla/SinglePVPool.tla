----------------------------- MODULE SinglePVPool -----------------------------
(***************************************************************************)
(* A dedicated pool: one volume owns the whole gluster volume.  Ownership  *)
(* is the extended attribute trusted.kadalu.single-pv-claim on the root of *)
(* the pool, changed under a flock on that root by every controller and    *)
(* node plugin.  The operator keeps a record of the pool in a ConfigMap,   *)
(* which may be lost and is rebuilt from the PersistentVolumes; pools of   *)
(* releases without claims carry data and mounts but no claim, and are     *)
(* adopted for the one volume the record names.                            *)
(***************************************************************************)
CONSTANTS
    Procs,      \* controller and node plugin calls in progress
    Vols,       \* CSI volume IDs that ask for the pool
    Policies,   \* reclaim policies the custom resource may carry
    Legacy,     \* TRUE: the pool may come from a release without claims
    None

ASSUME ConstantsAssumption ==
    /\ None \notin Vols \cup Procs
    /\ Policies \subseteq {"delete", "archive", "retain"}
    /\ Legacy \in BOOLEAN

VARIABLES
    claim,      \* the claim on the pool's root: vol and state
    content,    \* volumes whose data lies in the pool
    lock,       \* holder of the flock on the pool's root
    mounts,     \* volumes through which a workload has the pool mounted
    rec,        \* the pool's record: present, ver (claim version), legacy
    policy,     \* pvReclaimPolicy of the pool's record; it stays
    pvs,        \* volumes with a PersistentVolume
    acked,      \* volumes whose creation was answered OK, no PV yet
    doomed,     \* history: volumes somebody asked to delete
    listed,     \* PVs the operator has listed and not acted upon, or "none"
    pc, vol,    \* the processes: step, volume
    seen,       \* evidence taken before the wait for the lock
    snap        \* legacy owner a publish took from the pool's record

pool   == <<claim, content, lock, mounts>>
kube   == <<rec, policy, pvs, acked, doomed, listed>>
locals == <<vol, seen, snap>>
vars   == <<pool, kube, pc, locals>>

NoClaim  == [vol |-> None, state |-> "none"]
Claim(v, s) == [vol |-> v, state |-> s]
NoRecord == [present |-> FALSE, ver |-> FALSE, legacy |-> None]
NotSeen  == [state |-> "none", ver |-> FALSE]
NotListed == [is |-> FALSE, pvs |-> {}]

Claims  == {NoClaim} \cup [vol : Vols, state : {"active", "deleting", "retired"}]
Records == [present : BOOLEAN, ver : BOOLEAN, legacy : Vols \cup {None}]
Seens   == [state : {"none", "active", "deleting", "retired"}, ver : BOOLEAN]
Steps   == {"idle", "c_look", "c_select", "c_lock", "c_scan", "c_set",
            "d_look", "d_lock", "d_policy", "d_claim", "d_adopt", "d_begin",
            "d_purge", "d_check", "d_retire",
            "u_record", "u_ensure", "u_adopt", "u_lock", "u_mount"}
\* Steps taken with the flock on the pool's root held.
Locked  == {"c_scan", "c_set", "d_policy", "d_claim", "d_adopt", "d_begin",
            "d_purge", "d_check", "d_retire", "u_adopt", "u_mount"}

PoolTyped   == /\ claim \in Claims
               /\ content \subseteq Vols /\ mounts \subseteq Vols
               /\ lock \in Procs \cup {None}
KubeTyped   == /\ rec \in Records /\ policy \in Policies
               /\ pvs \subseteq Vols /\ acked \subseteq Vols /\ doomed \subseteq Vols
               /\ listed \in [is : BOOLEAN, pvs : SUBSET Vols]
LocalsTyped == /\ pc \in [Procs -> Steps]
               /\ vol \in [Procs -> Vols \cup {None}]
               /\ seen \in [Procs -> Seens]
               /\ snap \in [Procs -> Vols \cup {None}]
TypeOK      == PoolTyped /\ KubeTyped /\ LocalsTyped

(***************************************************************************)
(* What search_volume reports of the pool: the claim's volume, or the      *)
(* legacy owner as if it had an active claim.                              *)
(***************************************************************************)
Found(v) == /\ rec.present
            /\ IF claim = NoClaim THEN rec.legacy = v ELSE claim.vol = v
ClaimState  == IF claim = NoClaim THEN "active" ELSE claim.state
Evidence(v) == IF Found(v) THEN [state |-> ClaimState, ver |-> rec.ver]
                           ELSE NotSeen

(***************************************************************************)
(* Helpers of the actions.  Done ends a call: the flock goes with it.      *)
(***************************************************************************)
At(p, step) == pc[p] = step
Go(p, step) == pc' = [pc EXCEPT ![p] = step]
Take(p)     == lock = None /\ lock' = p
Done(p)     == /\ Go(p, "idle")
               /\ vol' = [vol EXCEPT ![p] = None]
               /\ seen' = [seen EXCEPT ![p] = NotSeen]
               /\ snap' = [snap EXCEPT ![p] = None]
               /\ lock' = IF lock = p THEN None ELSE lock

Begin(p, step, v) == /\ At(p, "idle")
                     /\ Go(p, step)
                     /\ vol' = [vol EXCEPT ![p] = v]
                     /\ UNCHANGED <<seen, snap, pool>>

\* A process dies, runs into its deadline or gets an I/O error.
Abandon(p) == /\ ~At(p, "idle")
              /\ Done(p)
              /\ UNCHANGED <<claim, content, mounts, kube>>

\* The answer OK, and an answer with an error.
Created(p) == /\ acked' = IF vol[p] \in pvs THEN acked ELSE acked \cup {vol[p]}
              /\ Done(p)
              /\ UNCHANGED <<claim, content, mounts, rec, policy, pvs, doomed, listed>>
Deleted(p) == /\ pvs' = pvs \ {vol[p]}
              /\ acked' = acked \ {vol[p]}
              /\ Done(p)
              /\ UNCHANGED <<claim, content, mounts, rec, policy, doomed, listed>>
Failed(p)  == Done(p) /\ UNCHANGED <<claim, content, mounts, kube>>

-----------------------------------------------------------------------------
(***************************************************************************)
(* CreateVolume for the pool.                                              *)
(***************************************************************************)
StartCreate(p, v) == /\ Begin(p, "c_look", v)
                     /\ UNCHANGED kube

CreateLook(p) ==
    /\ At(p, "c_look")
    /\ IF Found(vol[p])
         THEN IF ClaimState = "active" THEN Created(p) ELSE Failed(p)
         ELSE Go(p, "c_select") /\ UNCHANGED <<pool, kube, locals>>

\* Only a pool of the operator's present generation is offered to a new volume.
CreateSelect(p) ==
    /\ At(p, "c_select")
    /\ IF rec.present /\ rec.ver
         THEN Go(p, "c_lock") /\ UNCHANGED <<pool, kube, locals>>
         ELSE Failed(p)

\* Faulty: the volume ID of the claim is not compared.
Mine_AnyVolume(v) == claim.state = "active"

\* What a claim means to somebody who wants the pool for v.
Mine(v)       == claim = Claim(v, "active")

CreateLock(p) ==
    /\ At(p, "c_lock")
    /\ Take(p)
    /\ Go(p, "c_scan")
    /\ UNCHANGED <<claim, content, mounts, kube, locals>>

CreateScan(p) ==
    /\ At(p, "c_scan")
    /\ IF claim # NoClaim
         THEN IF Mine(vol[p]) THEN Created(p) ELSE Failed(p)
         ELSE IF content # {}
                THEN Failed(p)
                ELSE Go(p, "c_set") /\ UNCHANGED <<pool, kube, locals>>

\* setxattr with XATTR_CREATE: a claim that appeared meanwhile wins.
ClaimPool(v) == claim' = IF claim = NoClaim THEN Claim(v, "active") ELSE claim

CreateSet(p) ==
    /\ At(p, "c_set")
    /\ ClaimPool(vol[p])
    /\ acked' = IF claim \in {NoClaim, Claim(vol[p], "active")} /\ vol[p] \notin pvs
                THEN acked \cup {vol[p]} ELSE acked
    /\ Done(p)
    /\ UNCHANGED <<content, mounts, rec, policy, pvs, doomed, listed>>

-----------------------------------------------------------------------------
(***************************************************************************)
(* DeleteVolume of the pool.  All of it after the first lookup is done     *)
(* under the flock.  The provisioner may delete a volume that a lost node   *)
(* still has mounted, but not one of an unclaimed pool of an old release.  *)
(***************************************************************************)
StartDelete(p, v) ==
    /\ v \in pvs \cup acked
    /\ claim # NoClaim \/ v \notin mounts
    /\ Begin(p, "d_look", v)
    /\ doomed' = doomed \cup {v}
    /\ UNCHANGED <<rec, policy, pvs, acked, listed>>

DeleteLook(p) ==
    /\ At(p, "d_look")
    /\ IF ~Found(vol[p])
         THEN Deleted(p)
         ELSE /\ seen' = [seen EXCEPT ![p] = Evidence(vol[p])]
              /\ Go(p, "d_lock")
              /\ UNCHANGED <<pool, kube, vol, snap>>

DeleteLock(p) ==
    /\ At(p, "d_lock")
    /\ lock = None
    /\ IF ~Found(vol[p])
         THEN Deleted(p)
         ELSE IF Evidence(vol[p]) # seen[p]
                THEN Failed(p)
                ELSE /\ Take(p)
                     /\ Go(p, "d_policy")
                     /\ UNCHANGED <<claim, content, mounts, kube, locals>>

DeletePolicy(p) ==
    /\ At(p, "d_policy")
    /\ IF rec.present /\ policy = "retain"
         THEN Deleted(p)
         ELSE IF ~rec.present \/ policy = "archive"
                THEN Failed(p)
                ELSE /\ snap' = [snap EXCEPT ![p] = rec.legacy]
                     /\ Go(p, "d_claim")
                     /\ UNCHANGED <<pool, kube, vol, seen>>

DeleteClaim(p) ==
    /\ At(p, "d_claim")
    /\ IF claim = NoClaim
         THEN IF snap[p] = vol[p]
                THEN Go(p, "d_adopt") /\ UNCHANGED <<pool, kube, locals>>
                ELSE Failed(p)
         ELSE IF claim.vol = vol[p]
                THEN Go(p, "d_begin") /\ UNCHANGED <<pool, kube, locals>>
                ELSE Failed(p)

DeleteAdopt(p) ==
    /\ At(p, "d_adopt")
    /\ ClaimPool(vol[p])
    /\ Go(p, "d_begin")
    /\ UNCHANGED <<content, lock, mounts, kube, locals>>

\* Faulty: a delete that died under way is not resumed.
DeleteBegin_Once(p) ==
    /\ At(p, "d_begin")
    /\ IF claim.state = "active"
         THEN /\ claim' = Claim(vol[p], "deleting")
              /\ Go(p, "d_purge")
              /\ UNCHANGED <<content, lock, mounts, kube, locals>>
         ELSE Failed(p)

\* Faulty: the data is purged while the claim is still active.
DeleteBegin_Later(p) ==
    /\ At(p, "d_begin")
    /\ Go(p, "d_purge")
    /\ UNCHANGED <<pool, kube, locals>>

\* No publish succeeds from here on; a retired pool stays retired.
DeleteBegin(p) ==
    /\ At(p, "d_begin")
    /\ claim' = IF claim.state = "active" THEN Claim(vol[p], "deleting")
                                         ELSE claim
    /\ Go(p, "d_purge")
    /\ UNCHANGED <<content, lock, mounts, kube, locals>>

\* One entry of the root goes.
PurgeEntry(p) ==
    /\ At(p, "d_purge")
    /\ \E v \in content : content' = content \ {v}
    /\ UNCHANGED <<claim, lock, mounts, kube, pc, locals>>

\* The scan ends; it may have missed what a workload wrote behind it.
PurgeEnd(p) ==
    /\ At(p, "d_purge")
    /\ content \subseteq mounts
    /\ Go(p, "d_check")
    /\ UNCHANGED <<pool, kube, locals>>

DeleteCheck(p) ==
    /\ At(p, "d_check")
    /\ IF content = {}
         THEN Go(p, "d_retire") /\ UNCHANGED <<pool, kube, locals>>
         ELSE Failed(p)

\* Faulty: the tombstone does not name its volume.
DeleteRetire_Anonymous(p) ==
    /\ At(p, "d_retire")
    /\ claim' = Claim(None, "retired")
    /\ pvs' = pvs \ {vol[p]}
    /\ acked' = acked \ {vol[p]}
    /\ Done(p)
    /\ UNCHANGED <<content, mounts, rec, policy, doomed, listed>>

DeleteRetire(p) ==
    /\ At(p, "d_retire")
    /\ claim' = [claim EXCEPT !.state = "retired"]
    /\ pvs' = pvs \ {vol[p]}
    /\ acked' = acked \ {vol[p]}
    /\ Done(p)
    /\ UNCHANGED <<content, mounts, rec, policy, doomed, listed>>

-----------------------------------------------------------------------------
(***************************************************************************)
(* NodePublishVolume and NodeUnpublishVolume of the pool, and a workload.  *)
(***************************************************************************)
StartPublish(p, v) ==
    /\ v \in pvs
    /\ Begin(p, "u_record", v)
    /\ UNCHANGED kube

PublishRecord(p) ==
    /\ At(p, "u_record")
    /\ IF rec.present
         THEN /\ snap' = [snap EXCEPT ![p] = rec.legacy]
              /\ Go(p, "u_ensure")
              /\ UNCHANGED <<pool, kube, vol, seen>>
         ELSE Failed(p)

PublishEnsure(p) ==
    /\ At(p, "u_ensure")
    /\ lock = None
    /\ IF claim = NoClaim /\ snap[p] = vol[p]
         THEN /\ Take(p)
              /\ Go(p, "u_adopt")
              /\ UNCHANGED <<claim, content, mounts, kube, locals>>
         ELSE IF Mine(vol[p])
                THEN Go(p, "u_lock") /\ UNCHANGED <<pool, kube, locals>>
                ELSE Failed(p)

PublishAdopt(p) ==
    /\ At(p, "u_adopt")
    /\ ClaimPool(vol[p])
    /\ lock' = None
    /\ Go(p, "u_lock")
    /\ UNCHANGED <<content, mounts, kube, locals>>

\* The claim is read again under the flock that the mount is made under.
PublishLock(p) ==
    /\ At(p, "u_lock")
    /\ lock = None
    /\ IF Mine(vol[p])
         THEN /\ Take(p)
              /\ Go(p, "u_mount")
              /\ UNCHANGED <<claim, content, mounts, kube, locals>>
         ELSE Failed(p)

PublishMount(p) ==
    /\ At(p, "u_mount")
    /\ mounts' = IF Mine(vol[p]) THEN mounts \cup {vol[p]} ELSE mounts
    /\ Done(p)
    /\ UNCHANGED <<claim, content, kube>>

Unpublish(v) == /\ v \in mounts
                /\ mounts' = mounts \ {v}
                /\ UNCHANGED <<claim, content, lock, kube, pc, locals>>

\* A workload writes through its mount, whatever the claim says by now.
Write(v) == /\ v \in mounts \ content
            /\ content' = content \cup {v}
            /\ UNCHANGED <<claim, lock, mounts, kube, pc, locals>>

-----------------------------------------------------------------------------
(***************************************************************************)
(* The provisioner, the administrator and the operator.                    *)
(***************************************************************************)
Provision(v) == /\ v \in acked \ doomed
                /\ pvs' = pvs \cup {v}
                /\ acked' = acked \ {v}
                /\ UNCHANGED <<pool, rec, policy, doomed, listed, pc, locals>>

LoseRecord == /\ rec.present
              /\ rec' = NoRecord
              /\ UNCHANGED <<pool, policy, pvs, acked, doomed, listed, pc, locals>>

\* recovered_single_pv_owner lists; the record is written some time later.
ListOwners == /\ ~rec.present
              /\ listed' = [is |-> TRUE, pvs |-> pvs]
              /\ UNCHANGED <<pool, rec, policy, pvs, acked, doomed, pc, locals>>

OnlyOwner(owners) == CHOOSE v \in owners : TRUE
Several(owners)   == \E v, w \in owners : v # w

RecoverRecord ==
    /\ listed.is
    /\ rec' = IF Several(listed.pvs) THEN rec
              ELSE [present |-> TRUE,
                    ver     |-> listed.pvs = {},
                    legacy  |-> IF listed.pvs = {} THEN None
                                                   ELSE OnlyOwner(listed.pvs)]
    /\ listed' = NotListed
    /\ UNCHANGED <<pool, policy, pvs, acked, doomed, pc, locals>>

Fenced == \A p \in Procs : ~(pc[p] \in {"c_look", "c_select", "c_lock", "d_look", "d_lock"}
                             \/ pc[p] \in Locked \ {"u_adopt", "u_mount"})

\* Faulty: one of several owners is taken.
MigrateRecord_Ambiguous ==
    /\ Fenced
    /\ rec.present /\ ~rec.ver /\ rec.legacy = None
    /\ pvs # {}
    /\ rec' = [rec EXCEPT !.legacy = OnlyOwner(pvs)]
    /\ UNCHANGED <<pool, policy, pvs, acked, doomed, listed, pc, locals>>

\* migrate_legacy_single_pv_claims, while no controller runs.
MigrateRecord ==
    /\ Fenced
    /\ rec.present /\ ~rec.ver /\ rec.legacy = None
    /\ pvs # {} /\ ~Several(pvs)
    /\ rec' = [rec EXCEPT !.legacy = OnlyOwner(pvs)]
    /\ UNCHANGED <<pool, policy, pvs, acked, doomed, listed, pc, locals>>

-----------------------------------------------------------------------------
Fresh == /\ content = {} /\ mounts = {} /\ pvs = {}
         /\ rec \in {NoRecord, [NoRecord EXCEPT !.present = TRUE, !.ver = TRUE]}

\* A pool of a release without claims: what is mounted holds data.
FromLegacy == /\ Legacy
              /\ pvs \in SUBSET Vols /\ mounts \in SUBSET pvs
              /\ content \in SUBSET Vols /\ mounts \subseteq content
              /\ \A v, w \in mounts : v = w
              /\ rec \in {NoRecord, [NoRecord EXCEPT !.present = TRUE]}

Init == /\ claim = NoClaim /\ lock = None
        /\ policy \in Policies
        /\ Fresh \/ FromLegacy
        /\ acked = {} /\ doomed = {} /\ listed = NotListed
        /\ pc = [p \in Procs |-> "idle"]
        /\ vol = [p \in Procs |-> None]
        /\ seen = [p \in Procs |-> NotSeen]
        /\ snap = [p \in Procs |-> None]

CreateStep(p)  == \/ CreateLook(p) \/ CreateSelect(p) \/ CreateLock(p)
                  \/ CreateScan(p) \/ CreateSet(p)
DeleteStep(p)  == \/ DeleteLook(p) \/ DeleteLock(p) \/ DeletePolicy(p)
                  \/ DeleteClaim(p) \/ DeleteAdopt(p) \/ DeleteBegin(p)
                  \/ PurgeEntry(p) \/ PurgeEnd(p) \/ DeleteCheck(p)
                  \/ DeleteRetire(p)
PublishStep(p) == \/ PublishRecord(p) \/ PublishEnsure(p) \/ PublishAdopt(p)
                  \/ PublishLock(p) \/ PublishMount(p)
Step(p)        == CreateStep(p) \/ DeleteStep(p) \/ PublishStep(p)

Start(p) == \E v \in Vols : \/ StartCreate(p, v)
                            \/ StartDelete(p, v)
                            \/ StartPublish(p, v)

Next == \/ \E p \in Procs : Start(p) \/ Step(p) \/ Abandon(p)
        \/ \E v \in Vols : Unpublish(v) \/ Write(v) \/ Provision(v)
        \/ LoseRecord \/ ListOwners \/ RecoverRecord \/ MigrateRecord

Spec == Init /\ [][Next]_vars

-----------------------------------------------------------------------------
(***************************************************************************)
(* The pool is what WholePoolOwnership promises, whatever records are lost *)
(* and whichever process dies: claimed once, used by its owner only, closed*)
(* before it is emptied, never given away again.                           *)
(***************************************************************************)
Ownership == INSTANCE WholePoolOwnership
             WITH owner <- claim.vol,
                  phase <- IF claim = NoClaim THEN "free" ELSE claim.state,
                  users <- mounts
OwnershipKept == Ownership!Spec

\* Data goes only after a delete was asked for the pool's owner, and no data
\* of another volume that still has a PersistentVolume goes with it
\* (begin_single_pv_delete before purge_single_pv_pool).
LossAuthorised ==
    LET gone == content \ content' IN
    gone # {} => /\ claim.vol \in doomed
                 /\ claim.state # "active"
                 /\ gone \cap pvs \subseteq {claim.vol}
PurgeAuthorised == [][LossAuthorised]_vars

\* An owner that was acknowledged and that nobody asked to delete has the
\* pool, and nobody else does (claim_single_pv_volume, legacy adoption).
OwnerUndisturbed ==
    claim # NoClaim => \A v \in (acked \cup pvs) \ doomed : Mine(v)
=============================================================================
