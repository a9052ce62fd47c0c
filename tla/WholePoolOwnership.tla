-------------------------- MODULE WholePoolOwnership --------------------------
(***************************************************************************)
(* What a dedicated (single-PV) pool promises its tenants, with nothing    *)
(* said of locks, records or crashes: the pool is given to one volume, is  *)
(* used by that volume alone, is closed to new users before its data goes  *)
(* and is never given to anybody again.                                    *)
(***************************************************************************)
CONSTANTS Vols, None

VARIABLES
    owner,     \* the volume that owns the pool, None before the first claim
    phase,     \* "free", "active", "deleting" or "retired"
    users      \* volumes through which workloads have the pool mounted

ownership == <<owner, phase, users>>

\* A pool taken over from a release without claims may be in use already.
Init == /\ owner = None
        /\ phase = "free"
        /\ users \subseteq Vols
        /\ \A v, w \in users : v = w

\* A pool that another volume uses is not given away.
Assign(v) == /\ phase = "free"
             /\ users \subseteq {v}
             /\ owner' = v
             /\ phase' = "active"
             /\ UNCHANGED users

Grant(v) == /\ phase = "active"
            /\ owner = v
            /\ users' = users \cup {v}
            /\ UNCHANGED <<owner, phase>>

Leave(v) == /\ users' = users \ {v}
            /\ UNCHANGED <<owner, phase>>

Close == /\ phase = "active"
         /\ phase' = "deleting"
         /\ UNCHANGED <<owner, users>>

Retire == /\ phase = "deleting"
          /\ phase' = "retired"
          /\ UNCHANGED <<owner, users>>

Next == \/ \E v \in Vols : Assign(v) \/ Grant(v) \/ Leave(v)
        \/ Close
        \/ Retire

Spec == Init /\ [][Next]_ownership
=============================================================================
