---------------------------- MODULE SinglePVRetry ----------------------------
(***************************************************************************)
(* SinglePVPool under a caller that repeats DeleteVolume for the owner of  *)
(* the pool until it is answered OK.  Up to some moment anything may       *)
(* happen; from then on (calm) no process dies, the operator keeps the     *)
(* record it has, the policy is "delete", and workloads end: kubelet       *)
(* repeats NodeUnpublishVolume until it succeeds.                          *)
(***************************************************************************)
EXTENDS SinglePVPool

VARIABLE calm

RetryInit == Init /\ calm = FALSE

Repeat(p) == /\ Begin(p, "d_look", claim.vol)
             /\ doomed' = doomed \cup {claim.vol}
             /\ UNCHANGED <<rec, policy, pvs, acked, listed>>

Calm(p) == calm /\ (Step(p) \/ Repeat(p)) /\ UNCHANGED calm

Unmount(v) == calm /\ Unpublish(v) /\ UNCHANGED calm

\* BOUND: the calm begins in a claimed pool in which only its owner is at work.
Settled == /\ claim # NoClaim
           /\ \A p \in Procs : vol[p] \in {None, claim.vol}
           /\ pvs \cup acked \cup doomed \cup content \cup mounts \subseteq {claim.vol}
           /\ rec.present /\ policy = "delete"

RetryNext == \/ ~calm /\ Next /\ UNCHANGED calm
             \/ ~calm /\ Settled /\ calm' = TRUE /\ UNCHANGED vars
             \/ \E p \in Procs : Calm(p)
             \/ \E v \in Vols : Unmount(v) \/ (calm /\ Write(v) /\ UNCHANGED calm)

RetrySpec == /\ RetryInit
             /\ [][RetryNext]_<<vars, calm>>
             /\ \A p \in Procs : WF_<<vars, calm>>(Calm(p))
             /\ \A v \in Vols : WF_<<vars, calm>>(Unmount(v))

\* A claimed pool whose owner is deleted again and again ends up empty and
\* retired, whatever died on the way (_delete_single_pv_volume_locked).
PoolRetires == calm ~> [](claim.state = "retired" /\ content = {})
=============================================================================
