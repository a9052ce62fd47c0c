---- MODULE PoolReconcilerProofs ----
(***************************************************************************)
(* The operator and a pool, for any number of volumes, resources of the    *)
(* pool's name, and troubles: what it removes or moves has no volumes, it  *)
(* is never ready with the provisioner scaled down, and whose pool it is   *)
(* decides what becomes of it.                                             *)
(*                                                                         *)
(* What carries the argument is the fence.  Between the wait for the       *)
(* provisioner's end and its return nobody creates a PersistentVolume, so  *)
(* a count of zero is still true when the servers go.                      *)
(***************************************************************************)
EXTENDS PoolReconciler, TLAPS

Deleting == {"seal", "reread", "retire", "count", "dismantle", "erase"}
Placing  == {"retain", "write", "delete", "class", "renew", "align", "serve"}
Written  == {"delete", "class", "renew", "align", "serve"}
Outside  == {"fence", "quiesce", "resume", "rollout"}

\* Readiness falls before the provisioner does.
Serving == /\ ReadyMeansServing
           /\ (pc \in {"down", "fence"} => ~ready)
           /\ (pc = "rollout" => replicas = 1)

\* Work with a goal is done while the provisioner is away, and so is every step
\* of a deletion.
Fenced ==
    /\ pc \in {"fence", "quiesce"} => goal # "none"
    /\ pc = "quiesce" => replicas = 0
    /\ goal # "none" /\ pc \notin Outside => replicas = 0 /\ ~up
    /\ pc \in Deleting => goal # "none"
    /\ pc = "dismantle" => ~HasPVs

\* The servers, the record and the operator agree on the identity of the pool.
Identified ==
    /\ servers # 0 /\ record # NoRecord => record.id = servers
    /\ servers # 0 /\ pc \in Placing => work.id = servers
    /\ record # NoRecord /\ pc \in Written => record.id = work.id

\* A class has a policy.
Proper == {NoClass} \cup [policy : {"Delete", "Retain"}, uid : Uids \cup {NoUid}, id : Ids \cup {0}]

\* A deletion starts with the record of what is to be deleted.
Targeted ==
    /\ pc = "drain" => plan.record # NoRecord
    /\ pc = "seal" \/ (pc \in {"fence", "quiesce"} /\ goal = "drain") => work.base # NoRecord

IInv == TypeOK /\ Serving /\ Fenced /\ Identified /\ Targeted /\ class \in Proper

----------------------------------------------------------------------------
USE ReconcilerAssumption

LEMMA Typical ==
    /\ NoCR \in CRs /\ NoRecord \in Records /\ NoClass \in Classes
    /\ NoPlan \in [kind : {"none", "add", "drain"}, cr : CRs, record : Records,
                    seal : {"no", "claim", "quarantine"}, stuck : BOOLEAN]
    /\ NoWork \in [cr : CRs, id : Ids \cup {0}, base : Records]
<1>1. NoCR \in CRs /\ NoRecord \in Records /\ NoClass \in Classes
  BY DEF NoCR, CRs, NoRecord, Records, NoClass, Classes, NoUid, Policies
<1> QED  BY <1>1 DEF NoPlan, NoWork

LEMMA ProperTyped == NoClass \in Proper /\ Proper \subseteq Classes
BY Typical DEF Proper, Classes

LEMMA CurrentTyped ==
    ASSUME TypeOK
    PROVE  Current \in [kind : {"none", "add", "drain"}, cr : CRs, record : Records,
                        seal : {"no", "claim", "quarantine"}, stuck : BOOLEAN]
<1>1. Kind \in {"none", "add", "drain"} /\ Seal \in {"no", "claim", "quarantine"}
  BY DEF Kind, Seal
<1>2. cr \in CRs /\ record \in Records
  BY DEF TypeOK
<1>3. (record.state = "cleanup" /\ ~OwnsClass(record.uid, record.id)) \in BOOLEAN
  OBVIOUS
<1> QED  BY <1>1, <1>2, <1>3, Typical DEF Current

\* The ways a step of the operator ends: it gives up, returns the fence, takes
\* the next step of what it is at, or takes the fence.
Gone    == pc' = "down" /\ goal' = "none" /\ ready' = FALSE
Lifted  == pc' = "resume" /\ UNCHANGED ready
Onwards == /\ pc \notin Outside \/ (pc = "quiesce" /\ ~up)
           /\ pc' \notin {"down", "fence", "quiesce", "rollout"} /\ UNCHANGED <<goal, ready>>
           /\ pc' \in Deleting => goal # "none"
           /\ pc' = "dismantle" => ~HasPVs'
Fencing == pc' = "fence" /\ goal' # "none" /\ ready' = FALSE

LEMMA Exits ==
    ASSUME Exit  PROVE OperatorTyped' /\ Gone
BY Typical DEF Exit, Goto, OperatorTyped, NoUid, Gone

LEMMA Adopts ==
    ASSUME TypeOK, Adopt(Current), UNCHANGED goal, event' \in Uids \cup {NoUid}
    PROVE  OperatorTyped' /\ Targeted' /\ pc' \in {"planned", "add", "drain"}
<1>1. plan' = Current /\ pc' \in {"planned", "add", "drain"}
  BY CurrentTyped DEF Adopt, Goto
<1>2. work' \in [cr : CRs, id : Ids \cup {0}, base : Records]
  BY CurrentTyped, Typical DEF Adopt
<1>3. Current.kind = "drain" => Current.record # NoRecord
  BY DEF Current, Kind
<1>4. Targeted'
  BY <1>1, <1>3 DEF Adopt, Goto, Targeted
<1> QED  BY <1>1, <1>2, <1>4, CurrentTyped DEF OperatorTyped, TypeOK

LEMMA Raises ==
    ASSUME TypeOK, Raise  PROVE OperatorTyped' /\ (Gone \/ Lifted)
<1>1. CASE Exit
  BY <1>1, Exits
<1>2. CASE /\ goal' = "leave" /\ Goto("resume") /\ plan' = NoPlan /\ work' = NoWork
           /\ UNCHANGED <<event, ready>>
  BY <1>2, Typical DEF Goto, OperatorTyped, TypeOK, Lifted
<1> QED  BY <1>1, <1>2 DEF Raise

LEMMA Handles ==
    ASSUME TypeOK, Handled  PROVE OperatorTyped' /\ (Onwards \/ pc \in Outside)
BY Typical DEF Handled, Goto, OperatorTyped, TypeOK, Onwards, Deleting, Outside

LEMMA Proceeds ==
    ASSUME TypeOK, NEW next \in {"seal", "reread", "count", "dismantle", "erase"}, Proceed(next)
    PROVE  OperatorTyped' /\ pc' = next /\ UNCHANGED <<goal, ready, plan, work>>
BY DEF Proceed, Goto, OperatorTyped, TypeOK

LEMMA Idle ==
    ASSUME TypeOK, UNCHANGED opVars  PROVE OperatorTyped'
BY DEF opVars, OperatorTyped, TypeOK

LEMMA Moves ==
    ASSUME IInv, UNCHANGED csiVars, Gone \/ Lifted \/ Onwards \/ Fencing
    PROVE  Serving' /\ Fenced'
<1>1. CASE Gone
  BY <1>1 DEF Gone, Serving, ReadyMeansServing, Fenced, Deleting
<1>2. CASE Lifted
  BY <1>2 DEF Lifted, Serving, ReadyMeansServing, Fenced, Deleting, Outside, IInv, csiVars
<1>3. CASE Onwards
  BY <1>3 DEF Onwards, Serving, ReadyMeansServing, Fenced, Outside, IInv, csiVars
<1>4. CASE Fencing
  BY <1>4 DEF Fencing, Serving, ReadyMeansServing, Fenced, Deleting, Outside
<1> QED  BY <1>1, <1>2, <1>3, <1>4

\* A step that changes nothing around the operator but the class.
LEMMA QuietKeeps ==
    ASSUME IInv, OperatorTyped', class' \in Proper, unseen' \in {unseen, {}},
           UNCHANGED <<record, servers, volVars, csiVars, cr, born, trouble, lost>>,
           nodes' \in {nodes, "behind"},
           Gone \/ Lifted \/ Onwards \/ Fencing, Targeted',
           pc' \in Placing /\ servers # 0 => work'.id = servers,
           pc' \in Written /\ record # NoRecord => record.id = work'.id
    PROVE  IInv'
<1>1. Serving' /\ Fenced'
  BY Moves
<1>2. ready' \in BOOLEAN
  BY DEF Gone, Lifted, Onwards, Fencing, IInv, TypeOK
<1>3. TypeOK'
  BY <1>2, ProperTyped DEF IInv, TypeOK, volVars, csiVars
<1>4. Identified'
  BY DEF IInv, Identified
<1> QED  BY <1>1, <1>3, <1>4 DEF IInv

LEMMA ExitKeeps ==
    ASSUME IInv, Exit, class' \in Proper, unseen' \in {unseen, {}},
           UNCHANGED <<record, servers, volVars, csiVars, cr, born, nodes, trouble, lost>>
    PROVE  IInv'
BY Exits, QuietKeeps DEF Gone, Placing, Written, Targeted

----------------------------------------------------------------------------
(* Start, restart and watch. *)

\* A new plan never leads into the middle of a placement or a deletion.
LEMMA ListKeeps ==
    ASSUME IInv, unseen' = {},
           UNCHANGED <<poolVars, volVars, csiVars, cr, born, nodes, trouble, lost>>,
           pc \notin Outside \/ (pc = "quiesce" /\ ~up),
           \/ Exit
           \/ Adopt(Current) /\ UNCHANGED <<goal, ready>> /\ event' \in Uids \cup {NoUid}
    PROVE  IInv'
<1>1. CASE Exit
  BY <1>1, ExitKeeps DEF poolVars, IInv, TypeOK
<1>2. CASE Adopt(Current) /\ UNCHANGED <<goal, ready>> /\ event' \in Uids \cup {NoUid}
  <2>1. OperatorTyped' /\ Targeted' /\ pc' \in {"planned", "add", "drain"}
    BY <1>2, Adopts DEF IInv
  <2>2. Onwards
    BY <1>2, <2>1 DEF Onwards, Deleting
  <2> QED
    BY <2>1, <2>2, QuietKeeps DEF poolVars, Placing, Written, IInv, TypeOK
<1> QED  BY <1>1, <1>2

LEMMA WatchKeeps ==
    ASSUME IInv, FencedList \/ GateTimeout \/ Stable \/ Unwatched \/ Relist \/ Place \/ Tombstone,
           UNCHANGED <<nodes, trouble, lost>>
    PROVE  IInv'
<1>1. event \in Uids \cup {NoUid} /\ TypeOK /\ class \in Proper
  BY DEF IInv, TypeOK, OperatorTyped
<1>2. CASE FencedList
  BY <1>1, <1>2, ListKeeps DEF FencedList, ListOnly, List, Outside
<1>3. CASE Stable
  <2>1. CASE Refuses \/ Current # plan \/ Outdated
    BY <1>1, <1>3, <2>1, ListKeeps DEF Stable, Outside
  <2>2. CASE ~Refuses /\ Current = plan /\ ~Outdated
    <3>1. /\ pc = "planned" /\ pc' \in {"watch", "resume"} /\ UNCHANGED <<goal, plan, work, event, ready>>
          /\ unseen' = {} /\ UNCHANGED <<cr, born, poolVars, volVars, csiVars>>
      BY <1>3, <2>2 DEF Stable, Goto
    <3> QED
      BY <1>1, <3>1, QuietKeeps
         DEF Onwards, Outside, Deleting, Placing, Written, Targeted, poolVars, TypeOK, OperatorTyped
  <2> QED  BY <2>1, <2>2
<1>4. CASE Unwatched
  <2>1. /\ pc = "planned" /\ pc' = "watch" /\ UNCHANGED <<goal, plan, work, event, ready>>
        /\ UNCHANGED <<poolVars, volVars, csiVars, crVars>>
    BY <1>4 DEF Unwatched, Goto
  <2> QED
    BY <1>1, <2>1, QuietKeeps
       DEF Onwards, Outside, Deleting, Placing, Written, Targeted, poolVars, crVars, TypeOK, OperatorTyped
<1>5. CASE Relist
  <2>1. unseen \subseteq Uids \cup {0}
    BY <1>1 DEF TypeOK
  <2>2. Exit \/ (Adopt(Current) /\ UNCHANGED <<goal, ready>> /\ event' \in Uids \cup {NoUid})
    BY <1>5, <2>1 DEF Relist
  <2> QED
    BY <1>5, <2>2, ListKeeps DEF Relist, Outside
<1>6. CASE Place
  <2>1. OperatorTyped' /\ Fencing /\ Targeted'
    BY <1>1, <1>6 DEF Place, Fence, Goto, Fencing, Targeted, TypeOK, OperatorTyped
  <2>2. UNCHANGED <<poolVars, volVars, csiVars, crVars>>
    BY <1>6 DEF Place
  <2> QED
    BY <1>1, <2>1, <2>2, QuietKeeps DEF Fencing, Placing, Written, poolVars, crVars, TypeOK
<1>7. CASE Tombstone
  <2>1. class' \in Proper /\ UNCHANGED <<record, servers, volVars, csiVars, crVars>>
    BY <1>1, <1>7, ProperTyped DEF Tombstone, IInv
  <2>2. CASE Exit
    BY <2>1, <2>2, ExitKeeps DEF crVars
  <2>3. CASE pc = "watch" /\ event' = NoUid /\ UNCHANGED <<ready, pc, goal, plan, work>>
    <3>1. OperatorTyped'
      BY <1>1, <2>3 DEF TypeOK, OperatorTyped
    <3> QED
      BY <2>1, <2>3, <3>1, QuietKeeps DEF Onwards, Outside, Deleting, Placing, Written, Targeted, crVars
  <2> QED  BY <1>7, <2>2, <2>3 DEF Tombstone
<1>8. CASE GateTimeout
  BY <1>1, <1>8, ExitKeeps DEF GateTimeout, poolVars, crVars
<1> QED  BY <1>2, <1>3, <1>4, <1>5, <1>6, <1>7, <1>8

\* The wait for the node plugins keeps the fence.
LEMMA GateKeeps ==
    ASSUME IInv, GateNodes, UNCHANGED <<trouble, lost>>
    PROVE  IInv'
<1>1. /\ TypeOK /\ class \in Proper /\ UNCHANGED <<poolVars, volVars, csiVars, crVars>>
      /\ pc \in {"nodes", "planned"} \/ (pc = "quiesce" /\ ~up)
  BY DEF GateNodes, IInv
<1>2. CASE Exit /\ UNCHANGED nodes
  BY <1>1, <1>2, ExitKeeps DEF poolVars, crVars
<1>3. CASE /\ pc' = "nodes" /\ nodes' \in {nodes, "behind"}
           /\ UNCHANGED <<goal, plan, work, event, ready>>
  <2>1. OperatorTyped' /\ Onwards /\ Targeted'
    BY <1>1, <1>3 DEF TypeOK, OperatorTyped, Onwards, Outside, Deleting, Targeted
  <2> QED
    BY <1>1, <1>3, <2>1, QuietKeeps DEF Placing, Written, poolVars, crVars
<1> QED  BY <1>2, <1>3 DEF GateNodes, Goto, Published

LEMMA FenceKeeps ==
    ASSUME IInv, Boot \/ ScaleDown \/ Resume \/ RolledOut, UNCHANGED <<nodes, trouble, lost>>
    PROVE  IInv'
<1>1. UNCHANGED <<poolVars, volVars, crVars, up>> /\ replicas' \in {0, 1}
  BY DEF Boot, ScaleDown, Resume, RolledOut, csiVars, IInv, TypeOK
<1>2. /\ OperatorTyped' /\ ready' \in BOOLEAN
      /\ \/ Boot /\ pc' = "quiesce" /\ goal' = "boot" /\ replicas' = 0 /\ ready' = FALSE
         \/ ScaleDown /\ pc' = "quiesce" /\ UNCHANGED goal /\ replicas' = 0 /\ ready' = FALSE
         \/ Resume /\ pc' = "rollout" /\ UNCHANGED <<goal, ready>> /\ replicas' = 1
         \/ RolledOut /\ Gone /\ UNCHANGED replicas
         \/ RolledOut /\ goal' = "none" /\ pc' \in {"watch", "planned"} /\ UNCHANGED replicas
  <2>1. CASE Boot
    BY <2>1 DEF Boot, Goto, IInv, TypeOK, OperatorTyped, Serving
  <2>2. CASE ScaleDown
    BY <2>2 DEF ScaleDown, Goto, IInv, TypeOK, OperatorTyped, Serving
  <2>3. CASE Resume
    BY <2>3 DEF Resume, Goto, IInv, TypeOK, OperatorTyped
  <2>4. CASE RolledOut
    <3>1. CASE Exit
      BY <2>4, <3>1, Exits DEF Gone, RolledOut, csiVars
    <3>2. CASE ~Exit
      BY <2>4, <3>2 DEF RolledOut, Goto, IInv, TypeOK, OperatorTyped, csiVars
    <3> QED  BY <3>1, <3>2
  <2> QED  BY <2>1, <2>2, <2>3, <2>4
<1>3. TypeOK'
  BY <1>1, <1>2 DEF IInv, TypeOK, poolVars, volVars, crVars
<1>4. Serving' /\ Fenced'
  BY <1>1, <1>2 DEF Boot, ScaleDown, Resume, RolledOut, IInv, Serving, ReadyMeansServing,
     Fenced, Outside, Deleting, Gone
<1>5. Identified'
  BY <1>1, <1>2 DEF IInv, Identified, Placing, Written, Gone, poolVars
<1>6. Targeted'
  BY <1>1, <1>2 DEF Boot, ScaleDown, IInv, Targeted, Gone
<1> QED  BY <1>1, <1>3, <1>4, <1>5, <1>6 DEF IInv, poolVars

----------------------------------------------------------------------------
(* handle_added and handle_modified. *)

LEMMA RecordTyped ==
    ASSUME TypeOK
    PROVE  /\ [state |-> "open", uid |-> work.cr.uid, policy |-> work.cr.policy,
               id |-> work.id] \in Records
           /\ ClassOf(work) \in Proper
<1>1. work.cr \in CRs /\ work.id \in Ids \cup {0}
  BY DEF TypeOK, OperatorTyped
<1> QED  BY <1>1 DEF CRs, Records, Proper, ClassOf, Reclaim

LEMMA IdentityTyped ==
    ASSUME TypeOK
    PROVE  Identity \in Ids /\ (servers # 0 => Identity = servers)
<1>1. servers \in Ids \cup {0} /\ 1 \in Ids /\ 2 \in Ids /\ 0 \notin Ids
  BY DEF TypeOK, Ids
<1>2. \E i \in Ids : i # servers
  BY <1>1
<1>3. (CHOOSE i \in Ids : i # servers) \in Ids
  BY <1>2
<1> QED  BY <1>1, <1>3 DEF Identity

LEMMA AddedKeeps ==
    ASSUME IInv, HandleAdded, UNCHANGED <<nodes, trouble, lost>>  PROVE IInv'
<1>1. /\ pc = "add" /\ UNCHANGED <<poolVars, volVars, csiVars, crVars>> /\ TypeOK
      /\ class \in Proper
  BY DEF HandleAdded, IInv, TypeOK
<1>2. CASE Exit
  BY <1>1, <1>2, ExitKeeps DEF poolVars, crVars
<1>3. CASE Fence("switch") /\ UNCHANGED <<plan, work, event>>
  BY <1>1, <1>3, QuietKeeps
     DEF Fence, Goto, Fencing, Placing, Written, Targeted, poolVars, crVars, TypeOK, OperatorTyped
<1>4. CASE /\ work' = [work EXCEPT !.base = record,
                              !.id = IF record = NoRecord THEN Identity ELSE record.id]
           /\ Goto(FirstStep(work.cr))
           /\ UNCHANGED <<goal, plan, event, ready>>
  <2>1. record \in Records /\ Identity \in Ids
    BY <1>1, IdentityTyped DEF TypeOK
  <2>2. /\ work' \in [cr : CRs, id : Ids \cup {0}, base : Records]
        /\ work'.id = IF record = NoRecord THEN Identity ELSE record.id
    BY <1>1, <1>4, <2>1 DEF Records, TypeOK, OperatorTyped
  <2>3. pc' \in {"retain", "write"}
    BY <1>4 DEF Goto, FirstStep
  <2>4. OperatorTyped'
    BY <1>1, <1>4, <2>2, <2>3 DEF TypeOK, OperatorTyped
  <2>5. servers # 0 => work'.id = servers
    BY <1>1, <2>2, IdentityTyped DEF IInv, Identified
  <2>6. Onwards
    BY <1>1, <1>4, <2>3 DEF Onwards, Outside, Deleting
  <2> QED
    BY <1>1, <2>3, <2>4, <2>5, <2>6, QuietKeeps DEF Written, Targeted, poolVars, crVars
<1> QED  BY <1>2, <1>3, <1>4 DEF HandleAdded

LEMMA AlignTyped ==
    ASSUME IInv, NEW S, Align(S)
    PROVE  /\ vol' \in [Volumes -> {"none", "intent", "made", "Delete", "Retain", "gone"}]
           /\ HasPVs' => HasPVs
<1>1. \A v \in Volumes : vol'[v] = (IF v \in S /\ IsPV(v) THEN Reclaim(work.cr.policy) ELSE vol[v])
  BY DEF Align
<1>2. Reclaim(work.cr.policy) \in {"Delete", "Retain"}
  BY DEF Reclaim
<1> QED  BY <1>1, <1>2 DEF Align, HasPVs, IsPV, IInv, TypeOK

LEMMA AlignedKeeps ==
    ASSUME IInv, RetainFirst \/ DeleteAfter \/ AlignPolicy, UNCHANGED <<nodes, trouble, lost>>
    PROVE  IInv'
<1> PICK next \in {"write", "class", "serve"} :
         /\ pc \in {"retain", "delete", "align"} /\ Aligned(next)
         /\ pc = "retain" => next = "write"
  BY DEF RetainFirst, DeleteAfter, AlignPolicy
<1>1. /\ pc' = next /\ UNCHANGED <<goal, plan, work, event, ready, custom, asked>>
      /\ UNCHANGED <<csiVars, crVars, poolVars>>
      /\ vol' \in [Volumes -> {"none", "intent", "made", "Delete", "Retain", "gone"}]
  BY AlignTyped DEF Aligned, Goto
<1>2. Onwards
  BY <1>1 DEF Onwards, Outside, Deleting
<1>3. Serving' /\ Fenced'
  BY <1>1, <1>2, Moves
<1>4. OperatorTyped' /\ TypeOK'
  BY <1>1 DEF IInv, TypeOK, OperatorTyped, csiVars, crVars, poolVars
<1>5. Identified'
  BY <1>1 DEF IInv, Identified, Placing, Written, poolVars
<1>6. Targeted'
  BY <1>1 DEF Targeted
<1> QED  BY <1>1, <1>3, <1>4, <1>5, <1>6 DEF IInv, poolVars

LEMMA WriteKeeps ==
    ASSUME IInv, WriteRecord, UNCHANGED <<nodes, trouble, lost>>  PROVE IInv'
<1>1. pc = "write" /\ UNCHANGED <<class, servers, volVars, csiVars, crVars>> /\ TypeOK
      /\ class \in Proper
  BY DEF WriteRecord, IInv, TypeOK
<1>2. CASE Exit /\ UNCHANGED record
  BY <1>1, <1>2, ExitKeeps DEF crVars
<1>3. CASE record = work.base
  <2> DEFINE new == [state |-> "open", uid |-> work.cr.uid, policy |-> work.cr.policy,
                     id |-> work.id]
  <2>1. record' = new /\ UNCHANGED <<goal, plan, work, event, ready>> /\ pc' \in {"delete", "class"}
    BY <1>3 DEF WriteRecord, Goto
  <2>2. Onwards
    BY <1>1, <2>1 DEF Onwards, Outside, Deleting
  <2>3. Serving' /\ Fenced'
    BY <1>1, <2>2, Moves
  <2>4. TypeOK'
    BY <1>1, <2>1, RecordTyped DEF TypeOK, OperatorTyped, volVars, csiVars, crVars
  <2>5. Identified'
    BY <1>1, <2>1 DEF IInv, Identified, Placing, Written
  <2>6. Targeted'
    BY <2>1 DEF Targeted
  <2> QED  BY <1>1, <2>3, <2>4, <2>5, <2>6 DEF IInv
<1> QED  BY <1>2, <1>3 DEF WriteRecord

LEMMA ClassKeeps ==
    ASSUME IInv, DeployClass \/ RenewClass, UNCHANGED <<nodes, trouble, lost>>  PROVE IInv'
<1>1. /\ pc \in {"class", "renew"} /\ pc' \in {"align", "renew"}
      /\ UNCHANGED <<record, servers, work, goal, plan, event, ready, volVars, csiVars, crVars>>
  BY DEF DeployClass, RenewClass, Step, Goto, Holding
<1>2. class' \in Proper
  BY RecordTyped, ProperTyped DEF DeployClass, RenewClass, IInv, TypeOK
<1>3. OperatorTyped'
  BY <1>1 DEF IInv, TypeOK, OperatorTyped
<1>4. Onwards
  BY <1>1 DEF Onwards, Outside, Deleting
<1>5. /\ servers # 0 => work'.id = servers
      /\ record # NoRecord => record.id = work'.id
  BY <1>1 DEF IInv, Identified, Placing, Written
<1> QED  BY <1>1, <1>2, <1>3, <1>4, <1>5, QuietKeeps DEF Targeted, crVars

LEMMA ServersKeep ==
    ASSUME IInv, DeployServers, UNCHANGED <<nodes, trouble, lost>>
    PROVE  IInv' /\ (servers # 0 => UNCHANGED servers)
<1>1. /\ pc = "serve" /\ pc' \in {"verify", "planned"} /\ servers' = work.id
      /\ UNCHANGED <<record, class, goal, plan, event, ready, volVars, csiVars, crVars>>
  BY DEF DeployServers, Goto, Holding
<1>2. /\ work.id \in Ids \cup {0}
      /\ work' \in [cr : CRs, id : Ids \cup {0}, base : Records]
  BY Typical DEF DeployServers, IInv, TypeOK, OperatorTyped, NoWork
<1>3. /\ servers # 0 => work.id = servers
      /\ record # NoRecord => record.id = work.id
  BY <1>1 DEF IInv, Identified, Placing, Written
<1>4. Onwards
  BY <1>1 DEF Onwards, Outside, Deleting
<1>5. Serving' /\ Fenced'
  BY <1>1, <1>4, Moves
<1>6. TypeOK'
  BY <1>1, <1>2 DEF IInv, TypeOK, OperatorTyped, volVars, csiVars, crVars
<1>7. Identified' /\ Targeted'
  BY <1>1, <1>2, <1>3 DEF IInv, TypeOK, Records, Identified, Placing, Written, Targeted
<1> QED  BY <1>1, <1>3, <1>5, <1>6, <1>7 DEF IInv

LEMMA SwitchKeeps ==
    ASSUME IInv, SwitchRead \/ Verify, UNCHANGED <<nodes, trouble, lost>>  PROVE IInv'
<1>1. /\ TypeOK /\ class \in Proper /\ cr \in CRs
      /\ UNCHANGED <<poolVars, volVars, csiVars, crVars>>
  BY DEF SwitchRead, Verify, IInv, TypeOK
<1>2. CASE Exit
  BY <1>1, <1>2, ExitKeeps DEF poolVars, crVars
<1>3. CASE ~Exit
  <2>1. /\ (pc = "quiesce" /\ ~up) \/ pc = "verify"
        /\ pc' \in {"add", "resume"} /\ UNCHANGED <<goal, plan, event, ready>>
        /\ work' \in {[work EXCEPT !.cr = cr], NoWork, [NoWork EXCEPT !.cr = cr]}
    BY <1>3 DEF SwitchRead, Verify, Goto
  <2>2. work' \in [cr : CRs, id : Ids \cup {0}, base : Records]
    BY <1>1, <2>1, Typical DEF TypeOK, OperatorTyped
  <2>3. OperatorTyped'
    BY <1>1, <2>1, <2>2 DEF TypeOK, OperatorTyped
  <2>4. Onwards
    BY <2>1 DEF Onwards, Outside, Deleting
  <2> QED
    BY <1>1, <2>1, <2>3, <2>4, QuietKeeps DEF Placing, Written, Targeted, poolVars, crVars
<1> QED  BY <1>2, <1>3

----------------------------------------------------------------------------
(* handle_deleted. *)

\* How a step of a deletion ends.
LEMMA Ends ==
    ASSUME IInv, pc \in Deleting, Raise \/ Handled
    PROVE  /\ OperatorTyped' /\ (Gone \/ Lifted \/ Onwards)
           /\ pc' \in {"down", "resume", "planned"}
<1>1. CASE Raise
  BY <1>1, Raises DEF IInv, Gone, Lifted
<1>2. CASE Handled
  BY <1>2, Handles DEF IInv, Deleting, Outside, Handled, Goto
<1> QED  BY <1>1, <1>2

LEMMA DeletedKeeps ==
    ASSUME IInv, HandleDeleted \/ DrainFenced, UNCHANGED <<nodes, trouble, lost>>  PROVE IInv'
<1>1. /\ TypeOK /\ class \in Proper /\ Behind \in {"seal", "reread"}
      /\ UNCHANGED <<plan, event, poolVars, volVars, csiVars, crVars>>
  BY DEF HandleDeleted, DrainFenced, Proceed, IInv, TypeOK, Behind
<1>2. work' \in [cr : CRs, id : Ids \cup {0}, base : Records]
  BY <1>1, Typical DEF HandleDeleted, DrainFenced, Proceed, TypeOK, OperatorTyped
<1>4. pc' \in {"seal", "fence"} => work'.base # NoRecord
  BY <1>1, Typical DEF HandleDeleted, DrainFenced, Proceed, Goto, IInv, Targeted
<1>3. /\ Onwards \/ Fencing
      /\ Targeted' /\ pc' \notin Placing /\ OperatorTyped'
  <2>1. CASE HandleDeleted
    <3>1. CASE Fence("drain")
      BY <1>1, <1>2, <1>4, <3>1 DEF Fence, Goto, Fencing, Placing, Written, Targeted, TypeOK, OperatorTyped
    <3>2. CASE /\ pc' = "planned" \/ (goal # "none" /\ pc' = Behind)
               /\ UNCHANGED <<goal, ready>>
      BY <1>1, <1>2, <1>4, <2>1, <3>2
         DEF HandleDeleted, Onwards, Outside, Deleting, Placing, Written, Targeted, TypeOK, OperatorTyped
    <3> QED
      BY <2>1, <3>1, <3>2 DEF HandleDeleted, Goto
  <2>2. CASE DrainFenced
    BY <1>1, <1>2, <1>4, <2>2
       DEF DrainFenced, Proceed, Goto, Onwards, Deleting, Placing, Written, Targeted, TypeOK,
           OperatorTyped
  <2> QED  BY <2>1, <2>2
<1> QED  BY <1>1, <1>3, QuietKeeps DEF Placing, Written, poolVars, crVars

\* The record changes, the identity in it does not.
LEMMA SealKeeps ==
    ASSUME IInv, pc \in Deleting, OperatorTyped', Gone \/ Lifted \/ Onwards,
           pc' \notin Placing \cup {"seal", "drain"}, record' \in Records, record' = NoRecord \/ record'.id = record.id,
           record # NoRecord \/ record' = NoRecord,
           UNCHANGED <<class, servers, volVars, csiVars, crVars, nodes, trouble, lost>>
    PROVE  IInv'
<1>1. Serving' /\ Fenced'
  BY Moves
<1>2. ready' \in BOOLEAN
  BY DEF Gone, Lifted, Onwards, IInv, TypeOK
<1>3. TypeOK'
  BY <1>2 DEF IInv, TypeOK, volVars, csiVars, crVars
<1>4. Identified'
  BY DEF IInv, Identified, Placing, Written, Gone, Lifted, Onwards
<1>5. Targeted'
  BY DEF Targeted, Gone, Lifted, Onwards
<1> QED  BY <1>1, <1>3, <1>4, <1>5 DEF IInv

LEMMA LegacyKeeps ==
    ASSUME IInv, SealLegacy, UNCHANGED <<nodes, trouble, lost>>  PROVE IInv'
<1>1. /\ TypeOK /\ pc \in Deleting /\ record \in Records /\ pc = "seal"
      /\ UNCHANGED <<class, servers, volVars, csiVars, crVars>>
  BY DEF SealLegacy, IInv, TypeOK, Deleting
<1>2. CASE Raise /\ UNCHANGED record
  <2>1. OperatorTyped' /\ (Gone \/ Lifted) /\ pc' \notin Placing \cup {"seal", "drain"}
    BY <1>1, <1>2, Raises DEF Placing, Written, Gone, Lifted
  <2> QED  BY <1>1, <1>2, <2>1, SealKeeps
<1>3. CASE Sealable /\ record' = Sealed
  <2>1. record = work.base /\ record # NoRecord
    BY <1>1, <1>3 DEF Sealable, IInv, Targeted
  <2>2. /\ Sealed \in Records /\ Sealed.id = record.id
    <3>1. ObjUid \in Uids \cup {NoUid}
      BY <1>1 DEF ObjUid, TypeOK, OperatorTyped, CRs
    <3> QED  BY <1>1, <3>1 DEF Sealed, Records
  <2>3. /\ work' \in [cr : CRs, id : Ids \cup {0}, base : Records]
        /\ pc' \in {"reread", "resume", "planned"} /\ UNCHANGED <<goal, plan, event, ready>>
    BY <1>1, <1>3, <2>2, Typical DEF SealLegacy, Goto, TypeOK, OperatorTyped
  <2>4. OperatorTyped'
    BY <1>1, <2>3 DEF TypeOK, OperatorTyped
  <2>5. Onwards
    BY <1>1, <2>3 DEF Onwards, Outside, Deleting, IInv, Fenced
  <2> QED
    BY <1>1, <1>3, <2>1, <2>2, <2>3, <2>4, <2>5, SealKeeps DEF Placing, Written
<1> QED  BY <1>2, <1>3 DEF SealLegacy

LEMMA RetireKeeps ==
    ASSUME IInv, DropClass \/ RetireClass \/ CountVolumes, UNCHANGED <<nodes, trouble, lost>>
    PROVE  IInv'
<1>1. /\ TypeOK /\ pc \in Deleting /\ class' \in Proper
      /\ UNCHANGED <<record, servers, volVars, csiVars, crVars>>
  BY ProperTyped DEF DropClass, RetireClass, CountVolumes, poolVars, IInv, TypeOK, Deleting
<1>2. CASE Raise \/ Handled
  <2>1. OperatorTyped' /\ (Gone \/ Lifted \/ Onwards) /\ pc' \in {"down", "resume", "planned"}
    BY <1>1, <1>2, Ends
  <2> QED
    BY <1>1, <2>1, QuietKeeps DEF Placing, Written, Targeted, Gone, crVars
<1>3. CASE RetireClass /\ Proceed("count")
  BY <1>1, <1>3, Proceeds, QuietKeeps
     DEF Onwards, Outside, Deleting, Placing, Written, Targeted, crVars, IInv, Fenced
<1>4. CASE CountVolumes /\ ~HasPVs /\ Proceed("dismantle")
  <2>1. ~HasPVs'
    BY <1>1, <1>4 DEF HasPVs, IsPV, volVars
  <2> QED
    BY <1>1, <1>4, <2>1, Proceeds, QuietKeeps
       DEF Onwards, Outside, Deleting, Placing, Written, Targeted, crVars, IInv, Fenced
<1> QED  BY <1>2, <1>3, <1>4 DEF DropClass, RetireClass, CountVolumes

LEMMA DisableKeeps ==
    ASSUME IInv, DisableProvisioning \/ EraseRecord, UNCHANGED <<nodes, trouble, lost>>
    PROVE  IInv'
<1>1. /\ TypeOK /\ pc \in Deleting /\ record \in Records
      /\ UNCHANGED <<class, servers, volVars, csiVars, crVars>>
  BY DEF DisableProvisioning, EraseRecord, IInv, TypeOK, Deleting
<1>2. CASE (Raise \/ Handled) /\ record' \in {record, NoRecord}
  <2>1. OperatorTyped' /\ (Gone \/ Lifted \/ Onwards) /\ pc' \in {"down", "resume", "planned"}
    BY <1>1, <1>2, Ends
  <2> QED
    BY <1>1, <1>2, <2>1, Typical, SealKeeps DEF Placing, Written
<1>3. CASE /\ record # NoRecord /\ record' = [record EXCEPT !.state = "cleanup"]
           /\ work' = [work EXCEPT !.base = record']
           /\ Goto("retire") /\ UNCHANGED <<goal, plan, event, ready>>
  <2>1. record' \in Records /\ record'.id = record.id
    BY <1>1, <1>3 DEF Records
  <2>2. OperatorTyped'
    BY <1>1, <1>3, <2>1 DEF Goto, TypeOK, OperatorTyped
  <2>3. Onwards
    BY <1>1, <1>3 DEF Goto, Onwards, Outside, Deleting, IInv, Fenced
  <2> QED
    BY <1>1, <1>3, <2>1, <2>2, <2>3, SealKeeps DEF Goto, Placing, Written
<1> QED  BY <1>2, <1>3 DEF DisableProvisioning, EraseRecord

\* The servers go while the provisioner is away and nothing is left of it.
LEMMA DismantleKeeps ==
    ASSUME IInv, Dismantle, UNCHANGED <<nodes, trouble, lost>>
    PROVE  IInv' /\ ~HasPVs /\ ~up
<1>1. /\ TypeOK /\ pc = "dismantle" /\ servers' = 0
      /\ UNCHANGED <<record, class, custom, asked, csiVars, crVars>>
      /\ vol' = [v \in Volumes |-> IF vol[v] \in {"intent", "made"} THEN "none" ELSE vol[v]]
  BY DEF Dismantle, IInv
<1>2. OperatorTyped' /\ pc' = "erase" /\ UNCHANGED <<goal, ready>>
  BY <1>1, Proceeds DEF Dismantle
<1>3. Onwards
  BY <1>1, <1>2 DEF Onwards, Outside, Deleting, IInv, Fenced
<1>4. Serving' /\ Fenced'
  BY <1>1, <1>3, Moves
<1>5. TypeOK'
  BY <1>1, <1>2 DEF TypeOK, csiVars, crVars
<1>6. Identified' /\ Targeted'
  BY <1>1, <1>2 DEF Identified, Targeted, Placing, Written
<1>7. ~HasPVs /\ ~up
  BY <1>1 DEF IInv, Fenced, Deleting, Outside
<1> QED  BY <1>1, <1>4, <1>5, <1>6, <1>7 DEF IInv

----------------------------------------------------------------------------
(* The operator dies or fails; the others act. *)

LEMMA TroubleTyped ==
    ASSUME TypeOK, Trouble  PROVE trouble' \in 0..MaxTrouble
BY DEF Trouble, TypeOK

LEMMA FaultKeeps ==
    ASSUME IInv, Fault  PROVE IInv'
<1>1. /\ TypeOK /\ UNCHANGED <<crVars, poolVars, nodes, lost>> /\ trouble' \in 0..MaxTrouble
  BY TroubleTyped DEF Fault, IInv
<1>2. CASE Crash
  <2>1. OperatorTyped' /\ Gone /\ UNCHANGED <<custom, asked, csiVars>>
    BY <1>2, Exits DEF Crash
  <2>2. vol' \in [Volumes -> {"none", "intent", "made", "Delete", "Retain", "gone"}]
    BY <1>1, <1>2, AlignTyped DEF Crash, HalfAligned, TypeOK
  <2>3. TypeOK'
    BY <1>1, <2>1, <2>2 DEF TypeOK, Gone, csiVars, crVars, poolVars
  <2>4. Serving' /\ Fenced'
    BY <2>1, Moves
  <2>5. Identified' /\ Targeted'
    BY <1>1, <2>1 DEF IInv, Identified, Targeted, Gone, Placing, Written, poolVars
  <2> QED  BY <1>1, <2>3, <2>4, <2>5 DEF IInv, poolVars
<1>3. CASE Fail
  <2>1. /\ OperatorTyped' /\ (Gone \/ Lifted) /\ UNCHANGED <<up, volVars>>
        /\ replicas' \in {0, 1} /\ (Gone \/ UNCHANGED replicas)
    <3>1. CASE pc \in {"resume", "rollout"}
      BY <1>1, <1>3, <3>1, Exits DEF Fail, TypeOK
    <3>2. CASE pc \notin {"resume", "rollout"}
      BY <1>1, <1>3, <3>2, Raises DEF Fail, TypeOK
    <3> QED  BY <3>1, <3>2
  <2>2. TypeOK'
    BY <1>1, <2>1 DEF TypeOK, Gone, Lifted, volVars, crVars, poolVars
  <2>3. Serving' /\ Fenced'
    <3>1. CASE Gone
      BY <3>1 DEF Gone, Serving, ReadyMeansServing, Fenced, Deleting
    <3>2. CASE UNCHANGED replicas
      BY <2>1, <3>2, Moves DEF csiVars
    <3> QED  BY <2>1, <3>1, <3>2
  <2>4. Identified' /\ Targeted'
    BY <1>1, <2>1 DEF IInv, Identified, Targeted, Gone, Lifted, Placing, Written, poolVars
  <2> QED  BY <1>1, <2>2, <2>3, <2>4 DEF IInv, poolVars
<1> QED  BY <1>2, <1>3 DEF Fault

\* While the operator stands still, only the provisioner's return, or a volume
\* that it makes, can disturb it.
LEMMA OthersKeep ==
    ASSUME IInv, Operators, TypeOK', UNCHANGED <<servers, class, replicas>>,
           record' \in {record, NoRecord}, up' = up \/ replicas = 1 \/ ~up',
           up \/ (HasPVs' => HasPVs)
    PROVE  IInv'
<1>1. UNCHANGED <<ready, pc, goal, plan, work, event>>
  BY DEF Operators, opVars
<1>2. Serving' /\ Identified' /\ Targeted'
  BY <1>1 DEF IInv, Serving, ReadyMeansServing, Identified, Targeted
<1>3. Fenced'
  BY <1>1 DEF IInv, Fenced, Outside, Deleting
<1> QED  BY <1>2, <1>3 DEF IInv

LEMMA AdministratorKeeps ==
    ASSUME IInv, Administrator  PROVE IInv'
<1>1. /\ TypeOK /\ UNCHANGED <<class, servers, volVars, csiVars, nodes>> /\ Operators
      /\ lost' \in BOOLEAN /\ record' \in {record, NoRecord}
  BY DEF Administrator, CreateCR, EditCR, MarkCR, DeleteCR, LoseRecord, Edit, poolVars, IInv, TypeOK
<1>2. trouble' \in 0..MaxTrouble
  BY <1>1, TroubleTyped
     DEF Administrator, CreateCR, EditCR, MarkCR, DeleteCR, LoseRecord, TypeOK
<1>3. cr' \in CRs /\ unseen' \subseteq Uids \cup {0} /\ born' \in 0..Incarnations
  <2>1. CASE CreateCR
    <3>1. born + 1 \in Uids /\ born' \in 0..Incarnations
      BY <1>1, <2>1 DEF CreateCR, TypeOK, Uids
    <3> QED
      BY <1>1, <2>1, <3>1 DEF CreateCR, Edit, CRs, TypeOK
  <2>2. CASE EditCR \/ MarkCR
    BY <1>1, <2>2 DEF EditCR, MarkCR, Edit, CRs, TypeOK
  <2>3. CASE DeleteCR
    <3>1. cr.uid \in Uids \cup {0}
      BY <1>1 DEF TypeOK, CRs, NoUid
    <3> QED
      BY <1>1, <2>3, <3>1, Typical DEF DeleteCR, Edit, TypeOK
  <2>4. CASE LoseRecord
    BY <1>1, <2>4 DEF LoseRecord, crVars, TypeOK
  <2> QED  BY <2>1, <2>2, <2>3, <2>4 DEF Administrator
<1>4. TypeOK'
  <2>1. OperatorTyped'
    BY <1>1, Idle DEF Operators
  <2> QED
    BY <1>1, <1>2, <1>3, <2>1, Typical DEF TypeOK, Operators, volVars, csiVars
<1>5. HasPVs' => HasPVs
  BY <1>1 DEF HasPVs, IsPV, volVars
<1> QED  BY <1>1, <1>4, <1>5, OthersKeep DEF csiVars

LEMMA ProvisionerKeeps ==
    ASSUME IInv, Provisioner  PROVE IInv'
<1> PICK v \in Volumes : Ask(v) \/ Intend(v) \/ Make(v) \/ Provide(v) \/ Reclaimed(v)
  BY DEF Provisioner
<1>1. TypeOK /\ Provisioning
  BY DEF Ask, Intend, Make, Provide, Reclaimed, IInv
<1>2. asked' \in [Volumes -> {"idle", "Delete", "Retain"}]
  <2>1. class = NoClass \/ class.policy \in {"Delete", "Retain"}
    BY DEF IInv, Proper
  <2> QED
    BY <1>1, <2>1 DEF Ask, Intend, Make, Provide, Reclaimed, TypeOK
<1>3. vol' \in [Volumes -> {"none", "intent", "made", "Delete", "Retain", "gone"}]
  BY <1>1 DEF Ask, Intend, Make, Provide, Reclaimed, TypeOK
<1>4. TypeOK'
  <2>1. OperatorTyped'
    BY <1>1, Idle DEF Provisioning, Operators
  <2> QED
    BY <1>1, <1>2, <1>3, <2>1 DEF TypeOK, Provisioning, Operators, crVars, poolVars, csiVars
<1>5. up \/ (HasPVs' => HasPVs)
  BY <1>1 DEF Ask, Intend, Make, Provide, Reclaimed, HasPVs, IsPV, TypeOK
<1> QED
  BY <1>1, <1>4, <1>5, OthersKeep DEF Provisioning, poolVars, csiVars

LEMMA KubeletKeeps ==
    ASSUME IInv, CsiStop \/ CsiStart  PROVE IInv'
<1>1. /\ TypeOK /\ Operators /\ UNCHANGED <<crVars, poolVars, vol, custom, replicas, nodes, trouble, lost>>
      /\ asked' \in [Volumes -> {"idle", "Delete", "Retain"}]
      /\ up' \in BOOLEAN /\ (~up' \/ replicas = 1)
  BY DEF CsiStop, CsiStart, volVars, IInv, TypeOK
<1>2. TypeOK'
  <2>1. OperatorTyped'
    BY <1>1, Idle DEF Operators
  <2> QED
    BY <1>1, <2>1 DEF TypeOK, Operators, crVars, poolVars
<1>3. HasPVs' => HasPVs
  BY <1>1 DEF HasPVs, IsPV
<1> QED  BY <1>1, <1>2, <1>3, OthersKeep DEF poolVars

----------------------------------------------------------------------------
LEMMA NodesKeep ==
    ASSUME IInv, Displace \/ Rotate  PROVE IInv'
<1>1. /\ TypeOK /\ Operators /\ UNCHANGED <<cr, born, poolVars, volVars, csiVars, lost>>
      /\ unseen' \in {unseen, unseen \cup {0}} /\ nodes' \in {"current", "behind", "old"}
  BY DEF Displace, Rotate, crVars, IInv
<1>2. trouble' \in 0..MaxTrouble
  BY <1>1, TroubleTyped DEF Displace, Rotate, TypeOK
<1>3. OperatorTyped'
  BY <1>1, Idle DEF Operators
<1>4. TypeOK'
  BY <1>1, <1>2, <1>3 DEF TypeOK, Operators, poolVars, volVars, csiVars
<1>5. HasPVs' => HasPVs
  BY <1>1 DEF HasPVs, IsPV, volVars
<1> QED  BY <1>1, <1>4, <1>5, OthersKeep DEF poolVars, csiVars

LEMMA OperatorKeeps ==
    ASSUME IInv, Operator  PROVE IInv'
BY GateKeeps, WatchKeeps, FenceKeeps, AddedKeeps, AlignedKeeps, WriteKeeps, ClassKeeps, ServersKeep,
   SwitchKeeps, DeletedKeeps, LegacyKeeps, RetireKeeps, DisableKeeps, DismantleKeeps
   DEF Operator

LEMMA NextKeeps ==
    ASSUME IInv, [Next]_vars  PROVE IInv'
<1>2. CASE UNCHANGED vars
  <2>1. /\ UNCHANGED <<crVars, poolVars, volVars, csiVars, nodes, ready, opVars, trouble, lost>>
    BY <1>2 DEF vars
  <2>2. UNCHANGED <<ready, pc, goal, plan, work, event>>
    BY <2>1 DEF opVars
  <2>3. TypeOK'
    BY <2>1, Idle DEF IInv, TypeOK, crVars, poolVars, volVars, csiVars
  <2> QED
    BY <2>1, <2>3, OthersKeep DEF Operators, poolVars, volVars, csiVars, HasPVs, IsPV
<1> QED
  BY <1>2, OperatorKeeps, FaultKeeps, AdministratorKeeps, ProvisionerKeeps, KubeletKeeps, NodesKeep
     DEF Next

LEMMA InitIInv == Init => IInv
<1> SUFFICES ASSUME Init PROVE IInv
  OBVIOUS
<1>1. /\ ready = FALSE /\ pc = "down" /\ goal = "none" /\ plan = NoPlan /\ work = NoWork
      /\ event = NoUid /\ unseen = {} /\ trouble = 0 /\ lost = FALSE /\ nodes = "old"
      /\ custom \subseteq Volumes /\ asked = [v \in Volumes |-> "idle"]
  BY DEF Init
<1>2. OperatorTyped
  BY <1>1, Typical DEF OperatorTyped
<1>3. /\ cr \in CRs /\ record \in Records /\ class \in Proper /\ servers \in Ids \cup {0}
      /\ born \in 0..Incarnations
      /\ servers # 0 => record.id = servers
  <2>1. CASE Fresh
    BY <2>1, Typical, ProperTyped DEF Fresh
  <2>2. CASE Legacy
    <3>1. Original \in Uids /\ born \in 0..Incarnations
      BY <2>2 DEF Legacy, Original, Uids
    <3>2. cr \in CRs
      BY <2>2, <3>1, Typical DEF Legacy, CRs, Policies
    <3>3. record \in Records /\ record.id = 1 /\ servers = 1
      BY <2>2 DEF Legacy, Records, Ids, Policies
    <3>4. class \in Proper
      BY <2>2, ProperTyped DEF Legacy, Proper
    <3> QED  BY <3>1, <3>2, <3>3, <3>4 DEF Ids, Uids
  <2> QED  BY <2>1, <2>2 DEF Init
<1>4. /\ vol \in [Volumes -> {"none", "intent", "made", "Delete", "Retain", "gone"}]
      /\ replicas \in {0, 1} /\ up \in BOOLEAN
  BY DEF Init, Fresh, Legacy
<1>5. TypeOK
  <2>1. unseen \subseteq Uids \cup {0} /\ trouble \in 0..MaxTrouble
    BY <1>1
  <2>2. asked \in [Volumes -> {"idle", "Delete", "Retain"}]
    BY <1>1
  <2>3. ready \in BOOLEAN /\ lost \in BOOLEAN
    BY <1>1
  <2> QED
    BY <1>1, <1>2, <1>3, <1>4, <2>1, <2>2, <2>3, ProperTyped DEF TypeOK
<1>6. Serving /\ Fenced /\ Identified /\ Targeted
  BY <1>1, <1>3 DEF Serving, ReadyMeansServing, Fenced, Identified, Targeted, Deleting,
     Placing, Written
<1> QED  BY <1>3, <1>5, <1>6 DEF IInv

(***************************************************************************)
(* The invariant of the operator and the pool (main.py: the fence around   *)
(* handle_deleted and reconcile_pool_pv_reclaim_policy).                   *)
(***************************************************************************)
LEMMA Inductive == Spec => []IInv
BY InitIInv, NextKeeps, PTL DEF Spec

(***************************************************************************)
(* Every variable keeps its type.                                          *)
(***************************************************************************)
THEOREM TypeCorrect == Spec => []TypeOK
<1>1. IInv => TypeOK
  BY DEF IInv
<1> QED  BY <1>1, Inductive, PTL

(***************************************************************************)
(* The operator is never ready with the provisioner scaled down, whatever  *)
(* it was doing when it died or failed (the order of the readiness marker  *)
(* and the scaling of the provisioner).                                    *)
(***************************************************************************)
THEOREM ReadyIsServing == Spec => []ReadyMeansServing
<1>1. IInv => ReadyMeansServing
  BY DEF IInv, Serving
<1> QED  BY <1>1, Inductive, PTL

LEMMA OnlyTwoChangeServers ==
    ASSUME Next
    PROVE  \/ (DeployServers \/ Dismantle) /\ UNCHANGED <<nodes, trouble, lost>>
           \/ UNCHANGED servers
<1>1. CASE Operator
  BY <1>1 DEF Operator, GateNodes, Boot, ScaleDown, FencedList, ListOnly, GateTimeout, Stable, Unwatched,
     Resume, RolledOut, Relist, Place, Tombstone, HandleAdded, RetainFirst, WriteRecord, DeleteAfter, DeployClass, RenewClass,
     AlignPolicy, Aligned, SwitchRead, Verify, HandleDeleted, DrainFenced, SealLegacy, DropClass,
     DisableProvisioning, RetireClass, CountVolumes, EraseRecord, poolVars
<1>2. CASE Fault \/ Displace \/ Rotate
  BY <1>2 DEF Fault, Displace, Rotate, poolVars
<1>3. CASE Administrator
  BY <1>3 DEF Administrator, CreateCR, EditCR, MarkCR, DeleteCR, LoseRecord, Edit, poolVars
<1>4. CASE Provisioner \/ CsiStop \/ CsiStart
  BY <1>4 DEF Provisioner, Ask, Intend, Make, Provide, Reclaimed, Provisioning, CsiStop, CsiStart,
     poolVars
<1> QED  BY <1>1, <1>2, <1>3, <1>4 DEF Next

(***************************************************************************)
(* The servers of a pool go, or change their identity, only when no        *)
(* PersistentVolume is left and no create can still become one             *)
(* (handle_deleted, recover_missing_pool_identity).                        *)
(***************************************************************************)
THEOREM ServersOutliveVolumes == Spec => PoolOutlivesVolumes
<1> DEFINE Kept == servers # 0 /\ servers' # servers
                     => \A v \in Volumes : ~IsPV(v) /\ ~(up /\ asked[v] # "idle" /\ vol[v] # "none")
<1>1. IInv /\ [Next]_vars => [Kept]_vars
  <2> SUFFICES ASSUME IInv, Next PROVE Kept
    OBVIOUS
  <2>1. CASE DeployServers /\ UNCHANGED <<nodes, trouble, lost>>
    BY <2>1, ServersKeep
  <2>2. CASE Dismantle /\ UNCHANGED <<nodes, trouble, lost>>
    BY <2>2, DismantleKeeps DEF HasPVs
  <2> QED  BY <2>1, <2>2, OnlyTwoChangeServers
<1> QED  BY <1>1, Inductive, PTL DEF Spec, PoolOutlivesVolumes

-----------------------------------------------------------------------------
(***************************************************************************)
(* Whose pool it is: the operator takes down nothing that belongs to a     *)
(* live resource, a pool whose record says so keeps its data, and what the *)
(* operator waits on is what the resource asks for.                        *)
(*                                                                         *)
(* Resources of one name follow each other, so once one is known to be     *)
(* gone, or its name in use by a later one, it and all before it stay      *)
(* gone.  Whatever leads to a removal (a plan, a deletion in progress, an  *)
(* event still queued) was made from an owner in that past.                *)
(***************************************************************************)

\* The last resource something can belong to.
Heir(uid) == IF uid \in {NoUid, Cleanup} THEN Original ELSE uid
Past(uid) == Heir(uid) <= born /\ (Live => Heir(uid) < born)

ResourceLine == cr = NoCR \/ (cr.phase # "none" /\ cr.uid = born /\ born # 0)

RecordLine == record # NoRecord => /\ Heir(record.uid) <= born
                                   /\ Blocked(record) => Past(record.uid)

PlanLine == /\ plan.record # NoRecord =>
                 Past(plan.record.uid) /\ (plan.seal = "no" => plan.record.uid # NoUid)
            /\ plan.cr.phase = "deleting" => Past(plan.cr.uid)

DrainFence == pc \in {"fence", "quiesce"} /\ goal = "drain"
WorkLine ==
    /\ pc \in {"add"} \cup Placing => Heir(work.cr.uid) <= born
    /\ pc = "seal" \/ DrainFence => work.base = plan.record
    /\ pc \in Deleting \ {"seal"} => Past(work.base.uid) /\ work.base.uid # NoUid
    /\ pc = "dismantle" => record \in {work.base, NoRecord}

EventLine == /\ \A u \in unseen \ {0} : Past(u)
             /\ event # NoUid => Past(event)

Lineage == ResourceLine /\ RecordLine /\ PlanLine /\ WorkLine /\ EventLine
OInv    == IInv /\ Lineage

----------------------------------------------------------------------------
(* The past. *)

LEMMA Typed ==
    ASSUME IInv
    PROVE  /\ cr \in CRs /\ record \in Records /\ plan.cr \in CRs /\ plan.record \in Records
           /\ work.cr \in CRs /\ work.base \in Records /\ born \in Nat /\ event \in Nat
           /\ unseen \subseteq Nat
           /\ plan.seal \in {"no", "claim", "quarantine"}
<1>1. TypeOK  BY DEF IInv
<1> QED  BY <1>1 DEF TypeOK, OperatorTyped, Uids, NoUid

LEMMA Uid ==
    /\ \A c \in CRs : c.uid \in Nat
    /\ \A r \in Records : r.uid \in Int /\ r.uid >= -1
BY DEF CRs, Records, Uids, NoUid, Cleanup

LEMMA PastUnmoved ==
    ASSUME UNCHANGED <<cr, born>>  PROVE \A u : Past(u)' <=> Past(u)
BY DEF Past, Live

LEMMA PastStays ==
    ASSUME born \in Nat, born' \in Nat, born' >= born, Live' => Live \/ born' > born,
           NEW u \in Int, Past(u)
    PROVE  Past(u)'
BY DEF Past, Heir, Original

\* What is not later than the past is nobody's.
LEMMA PastIsNobodys ==
    ASSUME IInv, ResourceLine, NEW u \in Int, Past(u), NEW w \in Int, w >= -1, Heir(w) <= Heir(u)
    PROVE  ~Mine(w)
<1>1. Live => cr.uid = born  BY DEF Live, ResourceLine, NoCR
<1>2. Owner(w) <= Heir(w) /\ Owner(w) \in Int /\ Heir(w) \in Int /\ Heir(u) \in Int
  BY DEF Owner, Heir, NoUid, Cleanup, Original
<1>3. born \in Nat  BY Typed
<1> QED  BY <1>1, <1>2, <1>3 DEF Mine, Past

\* The owner of a record without a live resource is past.
LEMMA Bereft ==
    ASSUME IInv, ResourceLine, ~Live, NEW u, Heir(u) <= born  PROVE Past(u)
BY DEF Past

----------------------------------------------------------------------------
(* The steps of the operator. *)

LEMMA ExitLine ==
    ASSUME OInv, Exit  PROVE PlanLine' /\ WorkLine' /\ event' = NoUid
BY DEF Exit, Goto, PlanLine, WorkLine, DrainFence, Placing, Written, Deleting, NoPlan, NoCR,
   NoRecord

LEMMA AdoptLine ==
    ASSUME OInv, Adopt(Current), UNCHANGED <<cr, born>>
    PROVE  PlanLine' /\ WorkLine'
<1>1. \A u : Past(u)' <=> Past(u)  BY PastUnmoved
<1>2. plan' = Current /\ pc' \in {"planned", "add", "drain"}
  BY CurrentTyped DEF Adopt, Goto, OInv, IInv
<1>3. ASSUME Current.record # NoRecord
      PROVE  /\ Past(Current.record.uid)
             /\ Current.seal = "no" => Current.record.uid # NoUid
  <2>1. Kind = "drain" /\ Current.record = record /\ Current.seal = Seal /\ record # NoRecord
    BY <1>3 DEF Current
  <2>2. Past(record.uid)
    <3>1. CASE Blocked(record)
      BY <2>1, <3>1 DEF OInv, Lineage, RecordLine
    <3>2. CASE ~Blocked(record)
      <4>1. ~Live  BY <2>1, <3>2 DEF Kind, Observed, Live
      <4> QED  BY <2>1, <4>1, Bereft DEF OInv, Lineage, RecordLine
    <3> QED  BY <3>1, <3>2
  <2>3. Seal = "no" => record.uid # NoUid
    BY <2>1 DEF Seal
  <2> QED  BY <2>1, <2>2, <2>3
<1>4. ASSUME Current.cr.phase = "deleting" PROVE Past(Current.cr.uid)
  <2>1. cr.phase = "deleting" /\ Current.cr = cr  BY <1>4 DEF Current
  <2>2. cr.uid = born /\ born # 0 /\ born \in Nat /\ ~Live
    BY <2>1, Typed DEF OInv, Lineage, ResourceLine, NoCR, Live
  <2>3. Heir(cr.uid) <= born  BY <2>2 DEF Heir, NoUid, Cleanup, Original
  <2> QED  BY <2>1, <2>2, <2>3 DEF Past
<1>5. PlanLine'  BY <1>1, <1>2, <1>3, <1>4 DEF PlanLine
<1>6. ASSUME pc' = "add" PROVE Heir(work'.cr.uid) <= born'
  <2>1. Current.kind = "add" /\ Current.cr = cr  BY <1>6 DEF Adopt, Goto, Current, Kind
  <2>2. work'.cr = cr /\ Live  BY <2>1 DEF Adopt, NoWork, Current, Kind, Observed, NoCR, Live
  <2>3. cr.uid = born /\ born # 0 /\ born \in Nat
    BY <2>2, Typed DEF OInv, Lineage, ResourceLine, NoCR, Live
  <2> QED  BY <2>2, <2>3 DEF Heir, NoUid, Cleanup, Original
<1>7. WorkLine'
  BY <1>2, <1>6 DEF WorkLine, DrainFence, Placing, Written, Deleting
<1> QED  BY <1>5, <1>7

LEMMA RaiseLine ==
    ASSUME OInv, Raise  PROVE PlanLine' /\ WorkLine' /\ event' \in {event, NoUid}
<1>1. CASE Exit  BY <1>1, ExitLine
<1>2. CASE /\ goal' = "leave" /\ Goto("resume") /\ plan' = NoPlan /\ work' = NoWork
           /\ UNCHANGED <<event, ready>>
  BY <1>2 DEF Goto, PlanLine, WorkLine, DrainFence, Placing, Written, Deleting, NoPlan, NoCR,
     NoRecord
<1> QED  BY <1>1, <1>2 DEF Raise

LEMMA HandledLine ==
    ASSUME OInv, Handled, UNCHANGED <<cr, born>>
    PROVE  PlanLine' /\ WorkLine' /\ event' = event
<1>1. \A u : Past(u)' <=> Past(u)  BY PastUnmoved
<1> QED
  BY <1>1 DEF Handled, Goto, PlanLine, WorkLine, DrainFence, Placing, Written, Deleting, OInv,
     Lineage

\* A step of the operator that has put its plan and its work in order.
LEMMA LineSuffices ==
    ASSUME OInv, UNCHANGED <<cr, born>>, RecordLine', PlanLine', WorkLine',
           unseen' \in {unseen, {}}, event' \in {event, NoUid} \/ event' \in unseen \ {0}
    PROVE  Lineage'
<1>1. \A u : Past(u)' <=> Past(u)  BY PastUnmoved
<1>2. ResourceLine'  BY DEF OInv, Lineage, ResourceLine
<1>3. EventLine'  BY <1>1 DEF OInv, Lineage, EventLine
<1> QED  BY <1>2, <1>3 DEF Lineage

\* A step that leaves the plan and the record, and where it is allowed to lead.
LEMMA StepLine ==
    ASSUME OInv, UNCHANGED <<cr, born, unseen, event, plan, record>>, WorkLine'
    PROVE  Lineage'
<1>1. \A u : Past(u)' <=> Past(u)  BY PastUnmoved
<1>2. RecordLine' /\ PlanLine'  BY <1>1 DEF OInv, Lineage, RecordLine, PlanLine
<1> QED  BY <1>2, LineSuffices

LEMMA RecordUnmoved ==
    ASSUME OInv, UNCHANGED <<cr, born>>, record' \in {record, NoRecord}  PROVE RecordLine'
<1>1. \A u : Past(u)' <=> Past(u)  BY PastUnmoved
<1> QED  BY <1>1 DEF OInv, Lineage, RecordLine

LEMMA ListLine ==
    ASSUME OInv, unseen' = {}, UNCHANGED <<cr, born, record>>,
           Exit \/ Adopt(Current), event' \in {event, NoUid} \/ event' \in unseen \ {0}
    PROVE  Lineage'
BY ExitLine, AdoptLine, RecordUnmoved, LineSuffices

LEMMA WatchLine ==
    ASSUME OInv, \/ GateNodes \/ FencedList \/ GateTimeout \/ Stable \/ Unwatched \/ Relist \/ Place
                 \/ Tombstone
    PROVE  Lineage'
<1>1. UNCHANGED <<cr, born, record>>
  BY DEF GateNodes, FencedList, ListOnly, List, GateTimeout, Stable, Unwatched, Relist, Place, Tombstone, poolVars, crVars
<1>2. CASE FencedList
  BY <1>1, <1>2, ListLine, ExitLine DEF FencedList, ListOnly, List
<1>3. CASE Stable
  <2>1. CASE Exit \/ Adopt(Current)
    BY <1>1, <1>3, <2>1, ListLine, ExitLine DEF Stable
  <2>2. CASE pc' \in {"watch", "resume"} /\ UNCHANGED <<goal, plan, work, event, ready>>
    <3>1. WorkLine'  BY <2>2 DEF WorkLine, DrainFence, Placing, Written, Deleting
    <3>2. PlanLine'  BY <1>1, <2>2, PastUnmoved DEF PlanLine, OInv, Lineage
    <3>3. unseen' = {} /\ event' = event  BY <1>3, <2>2 DEF Stable
    <3> QED  BY <1>1, <3>1, <3>2, <3>3, RecordUnmoved, LineSuffices
  <2> QED  BY <1>3, <2>1, <2>2 DEF Stable, Goto
<1>4. CASE Unwatched
  BY <1>1, <1>4, StepLine
     DEF Unwatched, Goto, WorkLine, DrainFence, Placing, Written, Deleting, crVars
<1>5. CASE Relist
  <2>1. CASE Exit  BY <1>1, <1>5, <2>1, ListLine, ExitLine DEF Relist
  <2>2. CASE Adopt(Current) /\ event' \in {NoUid} \cup (unseen \ {0})
    BY <1>1, <1>5, <2>2, ListLine DEF Relist
  <2> QED  BY <1>5, <2>1, <2>2 DEF Relist
<1>6. CASE Place
  BY <1>1, <1>6, StepLine
     DEF Place, Fence, Goto, WorkLine, DrainFence, Placing, Written, Deleting, crVars
<1>7. CASE Tombstone
  <2>1. CASE Exit
    BY <1>1, <1>7, <2>1, ExitLine, RecordUnmoved, LineSuffices DEF Tombstone, crVars
  <2>2. CASE pc = "watch" /\ event' = NoUid /\ UNCHANGED <<ready, pc, goal, plan, work>>
    <3>1. WorkLine'  BY <2>2 DEF WorkLine, DrainFence, Placing, Written, Deleting
    <3>2. PlanLine'  BY <1>1, <2>2, PastUnmoved DEF PlanLine, OInv, Lineage
    <3> QED
      BY <1>1, <1>7, <2>2, <3>1, <3>2, RecordUnmoved, LineSuffices DEF Tombstone, crVars
  <2> QED  BY <1>7, <2>1, <2>2 DEF Tombstone
<1>8. CASE GateNodes \/ GateTimeout
  <2>1. unseen' = unseen  BY <1>8 DEF GateNodes, GateTimeout, crVars
  <2>2. CASE Exit
    BY <1>1, <2>1, <2>2, ExitLine, RecordUnmoved, LineSuffices
  <2>3. CASE GateNodes /\ pc' = "nodes" /\ UNCHANGED <<goal, plan, work, event, ready>>
    <3>1. WorkLine'  BY <2>3 DEF WorkLine, DrainFence, Placing, Written, Deleting
    <3> QED  BY <1>1, <2>1, <2>3, <3>1, StepLine
  <2> QED  BY <1>8, <2>2, <2>3 DEF GateNodes, GateTimeout, Goto
<1> QED  BY <1>2, <1>3, <1>4, <1>5, <1>6, <1>7, <1>8

LEMMA FenceLine ==
    ASSUME OInv, Boot \/ ScaleDown \/ Resume \/ RolledOut  PROVE Lineage'
<1>1. UNCHANGED <<cr, born, unseen, record>>
  BY DEF Boot, ScaleDown, Resume, RolledOut, crVars, poolVars
<1>2. CASE Exit
  BY <1>1, <1>2, ExitLine, RecordUnmoved, LineSuffices
<1>3. CASE Boot \/ ScaleDown \/ Resume
  BY <1>1, <1>3, StepLine
     DEF Boot, ScaleDown, Resume, Goto, WorkLine, DrainFence, Placing, Written, Deleting, OInv,
         Lineage
<1>4. CASE RolledOut /\ ~Exit
  BY <1>1, <1>4, StepLine
     DEF RolledOut, Goto, WorkLine, DrainFence, Placing, Written, Deleting
<1> QED  BY <1>2, <1>3, <1>4

LEMMA AddedLine ==
    ASSUME OInv, HandleAdded \/ SwitchRead \/ Verify  PROVE Lineage'
<1>1. UNCHANGED <<cr, born, unseen, record>>
  BY DEF HandleAdded, SwitchRead, Verify, crVars, poolVars
<1>2. CASE Exit
  BY <1>1, <1>2, ExitLine, RecordUnmoved, LineSuffices
<1>3. ASSUME Same(work.cr), work'.cr = cr PROVE Heir(work'.cr.uid) <= born'
  <2>1. cr.uid = born /\ born # 0 /\ born \in Nat
    BY <1>3, Typed DEF Same, OInv, Lineage, ResourceLine, NoCR
  <2> QED  BY <1>1, <1>3, <2>1 DEF Heir, NoUid, Cleanup, Original
<1>4. CASE HandleAdded /\ ~Exit
  <2>1. UNCHANGED <<plan, event>> /\ pc' \in {"fence", "retain", "write"} /\ work'.cr = work.cr
        /\ (pc' = "fence" => goal' = "switch") /\ pc = "add"
    BY <1>4, Typed DEF HandleAdded, Fence, Goto, FirstStep, OInv, IInv, TypeOK, OperatorTyped
  <2>2. WorkLine'
    BY <1>1, <2>1 DEF WorkLine, DrainFence, Placing, Written, Deleting, OInv, Lineage
  <2> QED  BY <1>1, <2>1, <2>2, StepLine
<1>5. CASE SwitchRead /\ ~Exit
  <2>1. UNCHANGED <<plan, event>> /\ pc' = "add" /\ Same(work.cr) /\ work'.cr = cr
    BY <1>5 DEF SwitchRead, Goto, OInv, IInv, TypeOK, OperatorTyped
  <2>2. WorkLine'
    BY <1>1, <1>3, <2>1 DEF WorkLine, DrainFence, Placing, Written, Deleting
  <2> QED  BY <1>1, <2>1, <2>2, StepLine
<1>6. CASE Verify /\ ~Exit
  <2>1. /\ UNCHANGED <<plan, event>> /\ Same(work.cr)
        /\ pc' \in {"add", "resume"} /\ (pc' = "add" => work'.cr = cr)
    BY <1>6 DEF Verify, Goto, NoWork
  <2>2. WorkLine'
    BY <1>1, <1>3, <2>1 DEF WorkLine, DrainFence, Placing, Written, Deleting
  <2> QED  BY <1>1, <2>1, <2>2, StepLine
<1> QED  BY <1>2, <1>4, <1>5, <1>6

LEMMA PlacingLine ==
    ASSUME OInv, RetainFirst \/ DeleteAfter \/ AlignPolicy \/ DeployClass \/ RenewClass
                 \/ DeployServers
    PROVE  Lineage'
<1>1. /\ UNCHANGED <<cr, born, unseen, event, plan, record>>
      /\ pc \in Placing /\ pc' \in Placing \cup {"verify", "planned"}
      /\ pc' \in Placing => work' = work
  BY DEF RetainFirst, DeleteAfter, AlignPolicy, Aligned, DeployClass, RenewClass, DeployServers,
         Step, Goto, Holding, poolVars, crVars, Placing
<1>2. WorkLine'
  BY <1>1 DEF WorkLine, DrainFence, Placing, Deleting, OInv, Lineage
<1> QED  BY <1>1, <1>2, StepLine

LEMMA WriteLine ==
    ASSUME OInv, WriteRecord  PROVE Lineage'
<1>1. UNCHANGED <<cr, born, unseen>> /\ pc = "write"  BY DEF WriteRecord, crVars
<1>2. CASE Exit /\ UNCHANGED record
  BY <1>1, <1>2, ExitLine, RecordUnmoved, LineSuffices
<1>3. CASE record = work.base
  <2>1. /\ record'.uid = work.cr.uid /\ record'.state = "open"
        /\ UNCHANGED <<plan, work, event>> /\ pc' \in {"delete", "class"}
    BY <1>3 DEF WriteRecord, Goto
  <2>2. \A u : Past(u)' <=> Past(u)  BY <1>1, PastUnmoved
  <2>3. RecordLine'
    BY <1>1, <2>1 DEF RecordLine, Blocked, Placing, OInv, Lineage, WorkLine
  <2>4. PlanLine' /\ WorkLine'
    BY <1>1, <2>1, <2>2 DEF PlanLine, WorkLine, DrainFence, Placing, Deleting, OInv, Lineage
  <2> QED  BY <1>1, <2>1, <2>3, <2>4, LineSuffices
<1> QED  BY <1>2, <1>3 DEF WriteRecord

----------------------------------------------------------------------------
(* Deletions. *)

LEMMA DeletedLine ==
    ASSUME OInv, HandleDeleted \/ DrainFenced  PROVE Lineage'
<1>1. /\ UNCHANGED <<cr, born, unseen, event, plan, record>>
      /\ PlanLine /\ WorkLine /\ IInv
  BY DEF HandleDeleted, DrainFenced, Proceed, Goto, Behind, Fence, crVars, poolVars, OInv, Lineage
<1>2. \A u : Past(u)' <=> Past(u)  BY <1>1, PastUnmoved
<1>3. CASE HandleDeleted
  <2>1. /\ pc = "drain" /\ plan.record # NoRecord
        /\ pc' \in {"planned", "fence", "seal", "reread"}
        /\ pc' # "planned" => work'.base = plan.record
        /\ pc' = "reread" => plan.seal = "no"
    BY <1>3 DEF HandleDeleted, Fence, Goto, Behind, NoWork, OInv, IInv, Targeted
  <2>2. WorkLine'
    BY <1>1, <1>2, <2>1 DEF WorkLine, DrainFence, Placing, Written, Deleting, PlanLine, OInv, Lineage
  <2> QED  BY <1>1, <2>2, StepLine
<1>4. CASE DrainFenced
  <2>1. /\ pc' \in {"seal", "reread"} /\ work' = work /\ work.base = plan.record
        /\ plan.record # NoRecord
        /\ pc' = "reread" => plan.seal = "no"
    BY <1>1, <1>4
       DEF DrainFenced, Proceed, Goto, Behind, IInv, Targeted, WorkLine, DrainFence
  <2>2. WorkLine'
    BY <1>1, <1>2, <1>4, <2>1
       DEF WorkLine, DrainFence, Placing, Written, Deleting, PlanLine, OInv, Lineage,
           DrainFenced, Proceed, Goto, Behind
  <2> QED  BY <1>1, <2>2, StepLine
<1> QED  BY <1>3, <1>4

\* Who a deletion is for is past.
LEMMA Deleted ==
    ASSUME OInv, pc \in Deleting
    PROVE  /\ pc = "seal" => work.base # NoRecord
           /\ pc # "seal" \/ work.base # NoRecord => Past(work.base.uid)
           /\ ObjUid # NoUid => Past(ObjUid)
           /\ work.base.uid \in Int /\ work.base.uid >= -1 /\ ObjUid \in Nat
<1>1. pc = "seal" => work.base # NoRecord /\ work.base = plan.record
  BY DEF OInv, IInv, Targeted, Lineage, WorkLine
<1>2. work.base.uid \in Int /\ work.base.uid >= -1
  BY Typed, Uid DEF OInv
<1>3. ObjUid \in Nat /\ (ObjUid # NoUid => Past(ObjUid))
  BY Typed, Uid DEF OInv, ObjUid, NoUid, Lineage, PlanLine
<1> QED  BY <1>1, <1>2, <1>3 DEF OInv, Lineage, WorkLine, PlanLine, Deleting

LEMMA SealLine ==
    ASSUME OInv, SealLegacy  PROVE Lineage'
<1>1. pc = "seal" /\ pc \in Deleting /\ UNCHANGED <<cr, born, unseen>>
  BY DEF SealLegacy, Deleting, crVars
<1>2. \A u : Past(u)' <=> Past(u)  BY <1>1, PastUnmoved
<1>3. CASE Raise /\ UNCHANGED record
  BY <1>1, <1>3, RaiseLine, RecordUnmoved, LineSuffices
<1>4. CASE Sealable /\ record' = Sealed /\ UNCHANGED <<plan, event>>
  <2>1. record = work.base /\ record # NoRecord /\ Past(record.uid) /\ record \in Records
    BY <1>1, <1>4, Deleted, Typed DEF Sealable, OInv
  <2>2. Past(Cleanup)
    <3>1. Heir(Cleanup) <= Heir(record.uid) /\ Heir(record.uid) \in Int /\ Heir(Cleanup) \in Int
      BY <2>1, Uid DEF Heir, NoUid, Cleanup, Original
    <3>2. born \in Nat  BY Typed DEF OInv
    <3> QED  BY <2>1, <3>1, <3>2 DEF Past
  <2>3. Sealed # NoRecord /\ Past(Sealed.uid) /\ (Claimed => Sealed.uid # NoUid)
    <3>1. CASE ~Claimed
      <4>1. Sealed.state = "quarantined" /\ Sealed.uid = record.uid
        BY <2>1, <3>1 DEF Sealed, Records
      <4> QED  BY <2>1, <3>1, <4>1 DEF NoRecord
    <3>2. CASE Claimed
      <4>1. Sealed.state = "cleanup" /\ Sealed.uid = IF ObjUid = NoUid THEN Cleanup ELSE ObjUid
        BY <2>1, <3>2 DEF Sealed, Records
      <4>2. Sealed.uid # NoUid  BY <4>1 DEF NoUid, Cleanup
      <4>3. Past(Sealed.uid)  BY <1>1, <2>2, <4>1, Deleted
      <4> QED  BY <4>1, <4>2, <4>3 DEF NoRecord
    <3> QED  BY <3>1, <3>2
  <2>4. RecordLine'
    BY <1>1, <1>2, <1>4, <2>3 DEF RecordLine, Past
  <2>5. /\ pc' \in {"reread", "resume", "planned"}
        /\ pc' = "reread" => Claimed /\ work'.base = Sealed
    BY <1>4, Typed DEF SealLegacy, Goto, Sealable, Raise, Exit, OInv, IInv, TypeOK, OperatorTyped
  <2>6. PlanLine' /\ WorkLine'
    BY <1>1, <1>2, <1>4, <2>3, <2>5
       DEF PlanLine, WorkLine, DrainFence, Placing, Written, Deleting, OInv, Lineage
  <2> QED  BY <1>1, <1>4, <2>4, <2>6, LineSuffices
<1> QED  BY <1>3, <1>4 DEF SealLegacy

LEMMA RetireLine ==
    ASSUME OInv, DropClass \/ RetireClass \/ CountVolumes \/ Dismantle  PROVE Lineage'
<1>1. pc \in Deleting \ {"seal"} /\ UNCHANGED <<cr, born, unseen, record>>
  BY DEF DropClass, RetireClass, CountVolumes, Dismantle, Deleting, crVars, poolVars
<1>2. \A u : Past(u)' <=> Past(u)  BY <1>1, PastUnmoved
<1>3. CASE Raise
  BY <1>1, <1>3, RaiseLine, RecordUnmoved, LineSuffices
<1>4. CASE Handled
  BY <1>1, <1>4, HandledLine, RecordUnmoved, LineSuffices
<1>5. ASSUME NEW next \in {"count", "dismantle", "erase"}, Proceed(next),
             next = "dismantle" => record = work.base
      PROVE  Lineage'
  <2>1. WorkLine'
    BY <1>1, <1>2, <1>5
       DEF Proceed, Goto, WorkLine, DrainFence, Placing, Written, Deleting, OInv, Lineage
  <2> QED  BY <1>1, <1>5, <2>1, StepLine DEF Proceed
<1> QED  BY <1>3, <1>4, <1>5 DEF DropClass, RetireClass, CountVolumes, Dismantle

LEMMA DisableLine ==
    ASSUME OInv, DisableProvisioning \/ EraseRecord  PROVE Lineage'
<1>1. pc \in Deleting \ {"seal"} /\ UNCHANGED <<cr, born, unseen>>
  BY DEF DisableProvisioning, EraseRecord, Deleting, crVars
<1>2. \A u : Past(u)' <=> Past(u)  BY <1>1, PastUnmoved
<1>3. CASE Raise /\ UNCHANGED record
  BY <1>1, <1>3, RaiseLine, RecordUnmoved, LineSuffices
<1>4. CASE Handled /\ record' \in {record, NoRecord}
  BY <1>1, <1>4, HandledLine, RecordUnmoved, LineSuffices
<1>5. CASE /\ record = work.base /\ record' = [record EXCEPT !.state = "cleanup"]
           /\ work' = [work EXCEPT !.base = record'] /\ pc' = "retire"
           /\ UNCHANGED <<plan, event>>
  <2>1. record'.uid = record.uid /\ Past(record.uid) /\ record.uid # NoUid
    BY <1>1, <1>5, Deleted, Typed DEF Records, OInv, Lineage, WorkLine
  <2>2. work'.base = record'
    BY <1>5 DEF OInv, IInv, TypeOK, OperatorTyped
  <2>3. RecordLine' /\ PlanLine' /\ WorkLine'
    BY <1>1, <1>2, <1>5, <2>1, <2>2
       DEF RecordLine, Past, PlanLine, WorkLine, DrainFence, Placing, Written, Deleting, OInv, Lineage
  <2> QED  BY <1>1, <1>5, <2>3, LineSuffices
<1> QED  BY <1>3, <1>4, <1>5 DEF DisableProvisioning, EraseRecord, Goto

----------------------------------------------------------------------------
(* The operator dies or fails; the others act. *)

LEMMA FaultLine ==
    ASSUME OInv, Fault  PROVE Lineage'
<1>1. UNCHANGED <<cr, born, unseen, record>>  BY DEF Fault, crVars, poolVars
<1>2. Exit \/ Raise  BY DEF Fault, Crash, Fail
<1> QED  BY <1>1, <1>2, ExitLine, RaiseLine, RecordUnmoved, LineSuffices

\* While the operator stands still, the past only grows.
LEMMA OthersLine ==
    ASSUME OInv, UNCHANGED opVars, record' \in {record, NoRecord}, ResourceLine', born' \in Nat,
           born' >= born, Live' => Live \/ born' > born,
           \A u \in unseen' \ {0} : u \in unseen \/ (u \in Nat /\ Past(u)')
    PROVE  Lineage'
<1>1. UNCHANGED <<pc, goal, plan, work, event>>  BY DEF opVars
<1>2. ASSUME NEW u \in Int, Past(u) PROVE Past(u)'
  BY <1>2, PastStays, Typed DEF OInv
<1>3. /\ record.uid \in Int /\ plan.record.uid \in Int /\ plan.cr.uid \in Int
      /\ work.base.uid \in Int /\ event \in Int /\ unseen \subseteq Nat
  BY Typed, Uid DEF OInv
<1>4. ASSUME NEW u \in Int, Heir(u) <= born PROVE Heir(u) <= born'
  <2>1. Heir(u) \in Int /\ born \in Nat  BY Typed DEF Heir, Original, OInv
  <2> QED  BY <1>4, <2>1
<1>5. RecordLine'
  BY <1>2, <1>3, <1>4 DEF RecordLine, Blocked, NoRecord, OInv, Lineage
<1>6. PlanLine'
  BY <1>1, <1>2, <1>3 DEF PlanLine, OInv, Lineage
<1>7. WorkLine'
  <2>1. work.cr.uid \in Int  BY Typed, Uid DEF OInv
  <2> QED  BY <1>1, <1>2, <1>3, <1>4, <2>1 DEF WorkLine, DrainFence, OInv, Lineage
<1>8. EventLine'
  <2>1. EventLine  BY DEF OInv, Lineage
  <2>2. ASSUME NEW u \in unseen' \ {0} PROVE Past(u)'
    <3>1. CASE u \in unseen
      <4>1. u \in Int /\ Past(u)  BY <1>3, <2>1, <2>2, <3>1 DEF EventLine
      <4> QED  BY <1>2, <4>1
    <3> QED  BY <2>2, <3>1
  <2>3. PICK e \in Int : e = event  BY <1>3
  <2>4. e # NoUid => Past(e)'  BY <1>2, <2>1, <2>3 DEF EventLine
  <2> QED  BY <1>1, <2>2, <2>3, <2>4 DEF EventLine
<1> QED  BY <1>5, <1>6, <1>7, <1>8 DEF Lineage

LEMMA AdministratorLine ==
    ASSUME OInv, Administrator  PROVE Lineage'
<1>1. /\ UNCHANGED opVars /\ record' \in {record, NoRecord}
      /\ born \in Nat /\ unseen \subseteq Nat /\ cr \in CRs
      /\ cr = NoCR \/ (cr.phase # "none" /\ cr.uid = born /\ born # 0)
  BY Typed DEF Administrator, CreateCR, EditCR, MarkCR, DeleteCR, LoseRecord, Edit, Operators,
     poolVars, OInv, Lineage, ResourceLine
<1>2. CASE CreateCR
  <2>1. /\ born' = born + 1 /\ unseen' = unseen \cup {0}
        /\ cr'.phase = "live" /\ cr'.uid = born + 1
    BY <1>2 DEF CreateCR, Edit
  <2>2. ResourceLine'  BY <1>1, <2>1 DEF ResourceLine
  <2> QED  BY <1>1, <2>1, <2>2, OthersLine
<1>3. CASE EditCR \/ MarkCR
  <2>1. /\ born' = born /\ unseen' = unseen \cup {0} /\ Live
        /\ cr'.phase \in {"live", "deleting"} /\ cr'.uid = cr.uid
    BY <1>1, <1>3 DEF EditCR, MarkCR, Edit, Live, CRs
  <2>2. ResourceLine'  BY <1>1, <2>1 DEF ResourceLine, Live, NoCR
  <2> QED  BY <1>1, <2>1, <2>2, OthersLine
<1>4. CASE DeleteCR
  <2>1. born' = born /\ unseen' = unseen \cup {cr.uid} /\ cr' = NoCR /\ cr.uid = born /\ born # 0
    BY <1>1, <1>4 DEF DeleteCR, Edit
  <2>2. ResourceLine'  BY <2>1 DEF ResourceLine
  <2>3. ~Live' /\ Past(born)'
    BY <1>1, <2>1 DEF Live, NoCR, Past, Heir, NoUid, Cleanup, Original
  <2> QED  BY <1>1, <2>1, <2>2, <2>3, OthersLine
<1>5. CASE LoseRecord
  <2>1. UNCHANGED <<cr, born, unseen>>  BY <1>5 DEF LoseRecord, crVars
  <2>2. ResourceLine'  BY <1>1, <2>1 DEF ResourceLine
  <2> QED  BY <1>1, <2>1, <2>2, OthersLine DEF Live
<1> QED  BY <1>2, <1>3, <1>4, <1>5 DEF Administrator

LEMMA NodesLine ==
    ASSUME OInv, Displace \/ Rotate  PROVE Lineage'
<1>1. /\ UNCHANGED <<cr, born, record, opVars>> /\ unseen' \in {unseen, unseen \cup {0}}
      /\ born \in Nat
  BY Typed DEF Displace, Rotate, Operators, crVars, poolVars, OInv
<1>2. ResourceLine'  BY <1>1 DEF OInv, Lineage, ResourceLine
<1> QED  BY <1>1, <1>2, OthersLine DEF Live

LEMMA StillLine ==
    ASSUME OInv, UNCHANGED <<crVars, record, opVars>>  PROVE Lineage'
<1>1. UNCHANGED <<cr, born, unseen>> /\ born \in Nat  BY Typed DEF crVars, OInv
<1>2. ResourceLine'  BY <1>1 DEF OInv, Lineage, ResourceLine
<1> QED  BY <1>1, <1>2, OthersLine DEF Live

LEMMA NextLine ==
    ASSUME OInv, [Next]_vars  PROVE Lineage'
<1>1. CASE Operator
  BY <1>1, WatchLine, FenceLine, AddedLine, PlacingLine, WriteLine, DeletedLine, SealLine,
     RetireLine, DisableLine DEF Operator
<1>2. CASE Provisioner \/ CsiStop \/ CsiStart
  BY <1>2, StillLine
     DEF Provisioner, Ask, Intend, Make, Provide, Reclaimed, Provisioning, CsiStop, CsiStart,
         Operators, poolVars
<1>3. CASE UNCHANGED vars
  BY <1>3, StillLine DEF vars, poolVars
<1> QED
  BY <1>1, <1>2, <1>3, FaultLine, AdministratorLine, NodesLine DEF Next

LEMMA InitLine == Init => Lineage
<1> SUFFICES ASSUME Init PROVE Lineage
  OBVIOUS
<1>1. plan = NoPlan /\ work = NoWork /\ event = NoUid /\ unseen = {} /\ pc = "down"
  BY DEF Init
<1>2. PlanLine /\ WorkLine /\ EventLine
  BY <1>1 DEF PlanLine, WorkLine, EventLine, DrainFence, Placing, Written, Deleting, NoPlan, NoCR,
     NoRecord
<1>3. ResourceLine /\ RecordLine
  <2>1. CASE Fresh  BY <2>1 DEF Fresh, ResourceLine, RecordLine
  <2>2. CASE Legacy
    <3>1. cr = NoCR \/ (cr.phase # "none" /\ cr.uid = 1)
      BY <2>2 DEF Legacy, Original
    <3>2. record.state = "open" /\ record.uid = NoUid /\ born = 1
      BY <2>2 DEF Legacy
    <3> QED  BY <3>1, <3>2 DEF ResourceLine, RecordLine, Heir, Original, Blocked
  <2> QED  BY <2>1, <2>2 DEF Init
<1> QED  BY <1>2, <1>3 DEF Lineage

LEMMA LineageHolds == Spec => []OInv
<1>1. Init => OInv  BY InitIInv, InitLine DEF OInv
<1>2. OInv /\ [Next]_vars => OInv'  BY NextKeeps, NextLine DEF OInv
<1> QED  BY <1>1, <1>2, PTL DEF Spec

----------------------------------------------------------------------------
(* What the operator takes down. *)

Undisturbed ==
    /\ record.state = "open" /\ record'.state # "open" /\ lost' = lost => ~Mine(record.uid)
    /\ class # NoClass /\ class' = NoClass /\ pc # "class" => ~Mine(class.uid)
    /\ servers # 0 /\ servers' = 0 => ~Mine(record.uid)

LEMMA Nobodys ==
    ASSUME OInv, NEW u \in Int, u >= -1, Past(u)
    PROVE  ~Mine(u) /\ ~Mine(NoUid)
<1>1. Heir(NoUid) <= Heir(u)  BY DEF Heir, NoUid, Cleanup, Original
<1>2. Heir(u) <= Heir(u)  BY DEF Heir, Original
<1>3. NoUid \in Int /\ NoUid >= -1  BY DEF NoUid
<1> QED  BY <1>1, <1>2, <1>3, PastIsNobodys DEF OInv, Lineage

LEMMA RemovalUndisturbed ==
    ASSUME OInv, SealLegacy \/ DropClass \/ DisableProvisioning \/ RetireClass \/ EraseRecord
                 \/ Dismantle
    PROVE  Undisturbed
<1>1. pc \in Deleting
  BY DEF SealLegacy, DropClass, DisableProvisioning, RetireClass, EraseRecord, Dismantle, Deleting
<1>2. /\ work.base.uid \in Int /\ work.base.uid >= -1 /\ ObjUid \in Int /\ ObjUid >= -1
      /\ pc # "seal" \/ work.base # NoRecord => Past(work.base.uid)
      /\ ObjUid # NoUid => Past(ObjUid)
  BY <1>1, Deleted
<1>3. pc # "seal" \/ work.base # NoRecord => ~Mine(work.base.uid) /\ ~Mine(NoUid)
  BY <1>2, Nobodys
<1>4. ObjUid # NoUid => ~Mine(ObjUid)
  BY <1>2, Nobodys
<1>5. CASE SealLegacy \/ DisableProvisioning \/ EraseRecord
  <2>1. UNCHANGED <<class, servers>>
    BY <1>5 DEF SealLegacy, DisableProvisioning, EraseRecord
  <2>2. record' = record \/ record = work.base
    BY <1>5 DEF SealLegacy, Sealable, DisableProvisioning, EraseRecord
  <2> QED  BY <1>3, <2>1, <2>2 DEF Undisturbed, NoRecord
<1>6. CASE DropClass
  <2>1. /\ UNCHANGED <<record, servers>> /\ pc = "reread"
        /\ class # NoClass /\ class' = NoClass => class.uid \in {ObjUid, work.base.uid} /\ class.uid # NoUid
    BY <1>6 DEF DropClass, Leftover
  <2>2. class # NoClass /\ class' = NoClass => ~Mine(class.uid)
    <3>1. CASE ObjUid # NoUid  BY <1>4, <1>6, <3>1, <2>1 DEF DropClass, Leftover
    <3>2. CASE ObjUid = NoUid  BY <1>3, <1>6, <3>2, <2>1 DEF DropClass, Leftover
    <3> QED  BY <3>1, <3>2
  <2> QED  BY <2>1, <2>2 DEF Undisturbed
<1>7. CASE RetireClass
  <2>1. /\ UNCHANGED <<record, servers>> /\ pc = "retire"
        /\ class' # class => class.uid = NoUid \/ class.uid = work.base.uid \/ work.base.uid = NoUid
    BY <1>7 DEF RetireClass, OwnsClass
  <2>2. work.base.uid # NoUid
    BY <2>1 DEF Deleting, OInv, Lineage, WorkLine
  <2> QED  BY <1>3, <2>1, <2>2 DEF Undisturbed
<1>8. CASE Dismantle
  <2>1. UNCHANGED <<record, class>> /\ pc = "dismantle" /\ record \in {work.base, NoRecord}
    BY <1>8 DEF Dismantle, OInv, Lineage, WorkLine
  <2> QED  BY <1>3, <2>1 DEF Undisturbed, NoRecord
<1> QED  BY <1>5, <1>6, <1>7, <1>8

\* The other steps take nothing down, but for a class that is renewed.
LEMMA OtherwiseUndisturbed ==
    ASSUME OInv, [Next]_vars
    PROVE  \/ SealLegacy \/ DropClass \/ DisableProvisioning \/ RetireClass \/ EraseRecord
           \/ Dismantle
           \/ Tombstone
           \/ Undisturbed
<1>1. CASE UNCHANGED poolVars  BY <1>1 DEF poolVars, Undisturbed
<1>2. CASE \/ GateNodes \/ Boot \/ ScaleDown \/ FencedList \/ GateTimeout \/ Stable \/ Unwatched \/ Resume \/ RolledOut
           \/ Relist \/ HandleAdded \/ RetainFirst \/ DeleteAfter \/ AlignPolicy \/ SwitchRead
           \/ Verify \/ HandleDeleted \/ DrainFenced \/ CountVolumes \/ Place \/ Fault
           \/ Displace \/ Rotate
  BY <1>1, <1>2 DEF GateNodes, Boot, ScaleDown, FencedList, ListOnly, GateTimeout, Stable, Unwatched, Resume, RolledOut,
     Relist, HandleAdded, RetainFirst, DeleteAfter, AlignPolicy, Aligned, SwitchRead, Verify,
     HandleDeleted, DrainFenced, CountVolumes, Place, Fault, Displace, Rotate
<1>3. CASE WriteRecord
  BY <1>3 DEF WriteRecord, Undisturbed
<1>4. CASE DeployClass
  BY <1>4 DEF DeployClass, Undisturbed
<1>5. CASE RenewClass
  <2>1. ClassOf(work).policy # "none"  BY DEF ClassOf, Reclaim
  <2> QED  BY <1>5, <2>1 DEF RenewClass, Undisturbed, NoClass
<1>6. CASE DeployServers
  <2>1. UNCHANGED <<record, class>> /\ (servers # 0 => servers' = servers)
    BY <1>6 DEF DeployServers, OInv, IInv, Identified, Placing
  <2> QED  BY <2>1 DEF Undisturbed
<1>7. CASE Administrator
  BY <1>1, <1>7
     DEF Administrator, CreateCR, EditCR, MarkCR, DeleteCR, LoseRecord, Edit, Undisturbed
<1>8. CASE Provisioner \/ CsiStop \/ CsiStart
  BY <1>1, <1>8
     DEF Provisioner, Ask, Intend, Make, Provide, Reclaimed, Provisioning, CsiStop, CsiStart
<1>9. CASE UNCHANGED vars  BY <1>1, <1>9 DEF vars, poolVars
<1> QED
  BY <1>2, <1>3, <1>4, <1>5, <1>6, <1>7, <1>8, <1>9 DEF Next, Operator

(***************************************************************************)
(* Record, class and servers of a live resource are never taken down, by   *)
(* whatever plan, deletion or event of an earlier resource of that name    *)
(* the operator still holds (handle_deleted, the DELETED event of the      *)
(* watch stream).                                                          *)
(***************************************************************************)
THEOREM LiveIsUndisturbed == Spec => LiveUndisturbed
<1>1. ASSUME OInv, Tombstone PROVE Undisturbed
  <2>1. /\ UNCHANGED <<record, servers>>
        /\ class # NoClass /\ class' = NoClass => class.uid = event /\ event # NoUid
    BY <1>1 DEF Tombstone
  <2>2. event # NoUid => ~Mine(event)
    <3>1. event \in Int /\ event >= -1  BY <1>1, Typed DEF OInv
    <3>2. event # NoUid => Past(event)  BY <1>1 DEF OInv, Lineage, EventLine
    <3> QED  BY <1>1, <3>1, <3>2, Nobodys
  <2> QED  BY <2>1, <2>2 DEF Undisturbed
<1>2. OInv /\ [Next]_vars => [Undisturbed]_vars
  BY <1>1, RemovalUndisturbed, OtherwiseUndisturbed
<1> QED  BY <1>2, LineageHolds, PTL DEF Spec, LiveUndisturbed, Undisturbed

----------------------------------------------------------------------------
(***************************************************************************)
(* The record, the class and the volumes, while nobody loses the record.   *)
(***************************************************************************)
\* What each goal is pursued through.
Course ==
    /\ goal = "drain" => pc \in Outside \cup Deleting
    /\ goal = "leave" => pc \in {"resume", "rollout"}
    /\ goal = "switch" => pc \in Outside \cup {"add", "verify"} \cup Placing
    /\ pc \in {"down", "watch"} => goal = "none"
    /\ pc = "nodes" => goal \in {"boot", "place"}

Unmade  == \A v \in Volumes : vol[v] \in {"none", "gone"}
Spared  == \A v \in Volumes \ custom : vol[v] # "Delete"
Nowhere == class = NoClass /\ servers = 0 /\ \A v \in Volumes \ custom : asked[v] = "idle"

\* The record says whose pool it is and what becomes of its data.
Recorded ==
    /\ record.state = "none" => record = NoRecord
    /\ record = NoRecord => Nowhere
    /\ record # NoRecord => /\ record.id # 0 /\ OwnsClass(record.uid, record.id)
                            /\ record.uid = NoUid => class.uid = NoUid /\ servers # 0
    /\ record.uid = NoUid \/ record.state = "quarantined" => record.policy = "delete"
    /\ record.state = "quarantined" => servers # 0
    /\ record.policy = "retain" => Spared /\ \A v \in Volumes \ custom : asked[v] # "Delete"
    /\ servers = 0 => Unmade
    /\ ~up => \A v \in Volumes : asked[v] = "idle"

\* Where a record may say Retain and the class still Delete: behind a fence.
Lagging == record.policy = "retain" /\ class.policy = "Delete"
Catching == \/ pc = "down"
            \/ /\ goal \in {"boot", "place", "switch"}
               /\ pc \in {"quiesce", "nodes", "add", "retain", "write", "class", "drain", "reread", "retire"}
Lag == Lagging => ~up /\ replicas = 0 /\ Catching

Done      == [state |-> "open", uid |-> work.cr.uid, policy |-> work.cr.policy, id |-> work.id]
Placed(c) == /\ record = [state |-> "open", uid |-> c.uid, policy |-> c.policy, id |-> servers]
             /\ class = [policy |-> Reclaim(c.policy), uid |-> c.uid, id |-> servers]
             /\ servers # 0

\* How far a placement has come.
Placement ==
    /\ pc \in {"add"} \cup Placing => work.cr.uid # NoUid
    /\ pc = "retain" => work.cr.policy = "retain"
    /\ pc = "delete" => work.cr.policy = "delete"
    /\ pc \in {"retain", "write"} =>
         /\ work.id # 0
         /\ work.base # NoRecord =>
              /\ work.base.uid \in {NoUid, work.cr.uid} /\ work.id = work.base.id
              /\ goal = "none" => work.base.policy = work.cr.policy
    /\ pc = "write" /\ work.cr.policy = "retain" /\ goal # "none" => Spared
    /\ pc \in Written => record = Done
    /\ pc \in {"align", "serve"} => class = ClassOf(work)
    /\ pc = "verify" => Placed(work.cr)

\* How far a deletion has come.
Removal ==
    /\ ~plan.stuck
    /\ plan.record # NoRecord /\ plan.seal # "no" =>
         plan.record.uid = NoUid \/ plan.record.state = "quarantined"
    /\ pc \in {"drain", "seal"} \/ DrainFence => record = plan.record
    /\ pc = "seal" => plan.seal # "no"
    /\ pc \in {"retire", "count", "dismantle", "erase"} =>
         record = work.base /\ record.state = "cleanup"
    /\ pc \in {"count", "dismantle", "erase"} => class = NoClass
    /\ pc = "erase" => servers = 0

Agreed == Course /\ Recorded /\ Lag /\ Placement /\ Removal
AInv   == OInv /\ Agreed

LEMMA RecordedSame ==
    ASSUME AInv, UNCHANGED <<poolVars, vol, custom, asked, up>>  PROVE Recorded'
BY DEF AInv, Agreed, Recorded, Nowhere, Unmade, Spared, OwnsClass, poolVars

LEMMA LagSame ==
    ASSUME AInv, UNCHANGED <<record, class, up>>, replicas' \in {replicas, 0},
           Lagging => Catching'
    PROVE  Lag'
BY DEF AInv, Agreed, Lag, Lagging

\* What ends in one of these has no placement and no deletion in progress.
AtRest == pc' \in {"down", "fence", "quiesce", "nodes", "resume", "rollout", "planned", "watch"}

LEMMA RestAgrees ==
    ASSUME AInv, AtRest, plan' \in {plan, NoPlan},
           pc' \in {"fence", "quiesce"} => goal' # "drain"
    PROVE  Placement' /\ Removal'
<1>1. Placement'
  BY DEF AtRest, Placement, Placing, Written
<1>2. /\ ~plan.stuck
      /\ plan.record # NoRecord /\ plan.seal # "no" =>
           plan.record.uid = NoUid \/ plan.record.state = "quarantined"
  BY DEF AInv, Agreed, Removal
<1>3. Removal'
  BY <1>2 DEF AtRest, Removal, DrainFence, NoPlan
<1> QED  BY <1>1, <1>3

LEMMA ExitAgrees ==
    ASSUME AInv, Exit, UNCHANGED <<poolVars, volVars, up>>, replicas' \in {replicas, 0}
    PROVE  Agreed'
<1>1. Course' /\ Catching'
  BY DEF Exit, Goto, Course, Catching
<1>2. Placement' /\ Removal'
  BY RestAgrees DEF Exit, Goto, AtRest
<1>3. Recorded' /\ Lag'
  BY <1>1, RecordedSame, LagSame DEF poolVars, volVars
<1> QED  BY <1>1, <1>2, <1>3 DEF Agreed

LEMMA AdoptAgrees ==
    ASSUME AInv, Adopt(Current), UNCHANGED <<goal, poolVars, volVars, csiVars>>,
           pc \in {"nodes", "planned", "watch"}, goal \in {"none", "boot", "place"}
    PROVE  Agreed'
<1>1. plan' = Current /\ pc' \in {"planned", "add", "drain"}
  BY CurrentTyped DEF Adopt, Goto, AInv, OInv, IInv
<1>2. Course'
  BY <1>1 DEF Course
<1>3. Lag'
  <2>1. Lagging => record # NoRecord  BY DEF Lagging, NoRecord
  <2>2. record # NoRecord => pc' # "planned"
    BY DEF Adopt, Goto, Current, Kind
  <2>3. Lagging => goal \in {"boot", "place"}
    BY DEF AInv, Agreed, Lag, Catching
  <2> QED  BY <1>1, <2>1, <2>2, <2>3, LagSame DEF poolVars, csiVars, Catching
<1>4. Recorded'
  BY RecordedSame DEF poolVars, volVars, csiVars
<1>5. Placement'
  <2>1. pc' = "add" => work'.cr.uid # NoUid
    <3>1. pc' = "add" => work'.cr = cr /\ Live
      BY DEF Adopt, Goto, NoWork, Current, Kind, Observed, NoCR, Live
    <3> QED  BY <3>1, Typed DEF AInv, OInv, Lineage, ResourceLine, NoCR, Live, NoUid
  <2> QED  BY <1>1, <2>1 DEF Placement, Placing, Written
<1>6. Removal'
  <2>1. ~Current.stuck
    <3>1. record.state = "cleanup" => OwnsClass(record.uid, record.id)
      BY DEF AInv, Agreed, Recorded, NoRecord
    <3>2. ~(record.state = "cleanup" /\ ~OwnsClass(record.uid, record.id))  BY <3>1
    <3>3. Current.stuck = (record.state = "cleanup" /\ ~OwnsClass(record.uid, record.id))
      BY DEF Current
    <3> QED  BY <3>2, <3>3, Zenon
  <2>2. Current.record # NoRecord /\ Current.seal # "no" =>
           Current.record.uid = NoUid \/ Current.record.state = "quarantined"
    BY DEF Current, Seal
  <2>3. pc' = "drain" => Current.record = record
    BY DEF Adopt, Goto, Current
  <2> QED  BY <1>1, <2>1, <2>2, <2>3 DEF Removal, DrainFence, poolVars
<1> QED  BY <1>2, <1>3, <1>4, <1>5, <1>6 DEF Agreed

LEMMA WatchAgrees ==
    ASSUME AInv, GateNodes \/ FencedList \/ GateTimeout \/ Stable \/ Unwatched \/ Relist \/ Place
    PROVE  Agreed'
<1>1. UNCHANGED <<poolVars, volVars, csiVars>>
  BY DEF GateNodes, FencedList, ListOnly, GateTimeout, Stable, Unwatched, Relist, Place
<1>2. CASE Exit
  BY <1>1, <1>2, ExitAgrees DEF csiVars
<1>3. CASE Adopt(Current) /\ UNCHANGED goal
  <2>1. pc \in {"nodes", "planned", "watch"} /\ goal \in {"none", "boot", "place"}
    <3>1. pc \in {"nodes", "planned", "watch"}
      BY <1>3, CurrentTyped
         DEF GateNodes, FencedList, GateTimeout, Exit, Stable, Unwatched, Relist, Place, Fence, Adopt, Goto, AInv, OInv, IInv
    <3>2. goal \in {"none", "boot", "place", "switch", "drain", "leave"}
      BY DEF AInv, OInv, IInv, TypeOK, OperatorTyped
    <3> QED  BY <3>1, <3>2 DEF AInv, Agreed, Course, Outside, Deleting, Placing, Written
  <2> QED  BY <1>1, <1>3, <2>1, AdoptAgrees
<1>4. CASE /\ pc \in {"planned", "add", "drain"} /\ UNCHANGED plan
           /\ \/ pc = "planned" /\ pc' = "watch" /\ goal = "none" /\ UNCHANGED goal
              \/ pc = "planned" /\ pc' = "resume" /\ UNCHANGED goal
              \/ goal = "none" /\ goal' = "place" /\ pc' = "fence"
  <2>1. Course'
    BY <1>4 DEF Course, AInv, Agreed, Outside
  <2>2. Placement' /\ Removal'
    <3>1. pc' \in {"fence", "quiesce"} => goal' # "drain"  BY <1>4
    <3> QED  BY <1>4, <3>1, RestAgrees DEF AtRest
  <2>3. ~Lagging
    BY <1>4 DEF AInv, Agreed, Lag, Catching
  <2> QED  BY <1>1, <2>1, <2>2, <2>3, RecordedSame, LagSame DEF poolVars, volVars, csiVars, Agreed
<1>5. CASE /\ pc \in {"quiesce", "nodes", "planned"} /\ pc' = "nodes" /\ Gated
           /\ UNCHANGED <<goal, plan>>
  <2>1. Course'
    BY <1>5 DEF Gated, Course
  <2>2. Placement' /\ Removal'
    BY <1>5, RestAgrees DEF AtRest
  <2>3. Catching'
    BY <1>5 DEF Gated, Catching
  <2> QED  BY <1>1, <2>1, <2>2, <2>3, RecordedSame, LagSame DEF poolVars, volVars, csiVars, Agreed
<1> QED
  BY <1>2, <1>3, <1>4, <1>5 DEF GateNodes, FencedList, ListOnly, List, GateTimeout, Stable, Unwatched,
     Relist, Place, Fence, Goto

LEMMA TombstoneAgrees ==
    ASSUME AInv, Tombstone  PROVE Agreed'
<1>1. UNCHANGED <<record, servers, volVars, csiVars>>  BY DEF Tombstone
<1>2. CASE Exit
  BY <1>1, <1>2, ExitAgrees DEF Tombstone, Exit, Goto, poolVars, csiVars
<1>3. CASE pc = "watch" /\ class' \in {class, NoClass} /\ UNCHANGED <<ready, pc, goal, plan, work>>
  <2>1. Recorded'
    BY <1>1, <1>3
       DEF AInv, Agreed, Recorded, Nowhere, Unmade, Spared, OwnsClass, NoClass, volVars, csiVars
  <2>2. Course' /\ Lag'
    BY <1>1, <1>3 DEF AInv, Agreed, Course, Lag, Lagging, Catching, NoClass, csiVars
  <2>3. Placement' /\ Removal'
    BY <1>3, RestAgrees DEF AtRest
  <2> QED  BY <2>1, <2>2, <2>3 DEF Agreed
<1> QED  BY <1>2, <1>3 DEF Tombstone

LEMMA FenceAgrees ==
    ASSUME AInv, Boot \/ ScaleDown \/ Resume \/ RolledOut  PROVE Agreed'
<1>1. UNCHANGED <<poolVars, volVars, up>>
  BY DEF Boot, ScaleDown, Resume, RolledOut, csiVars
<1>2. CASE Exit
  BY <1>1, <1>2, ExitAgrees DEF Boot, ScaleDown, Resume, RolledOut, Exit, Goto, csiVars
<1>3. Recorded'
  BY <1>1, RecordedSame DEF volVars
<1>4. CASE Boot
  <2>1. Course' /\ Lag'
    BY <1>1, <1>4 DEF Boot, Goto, AInv, Agreed, Course, Lag, Lagging, Catching, poolVars
  <2>2. Placement' /\ Removal'
    BY <1>4, RestAgrees DEF Boot, Goto, AtRest
  <2> QED  BY <1>3, <2>1, <2>2 DEF Agreed
<1>5. CASE ScaleDown
  <2>1. Course' /\ Lag' /\ Placement'
    BY <1>1, <1>5 DEF ScaleDown, Goto, AInv, Agreed, Course, Lag, Lagging, Catching, poolVars,
       Outside, Placement, Placing, Written
  <2>2. Removal'
    BY <1>1, <1>5 DEF ScaleDown, Goto, AInv, Agreed, Removal, DrainFence, poolVars
  <2> QED  BY <1>3, <2>1, <2>2 DEF Agreed
<1>6. CASE Resume
  <2>1. Course' /\ Lag'
    BY <1>1, <1>6 DEF Resume, Goto, AInv, Agreed, Course, Lag, Lagging, Catching, poolVars, Outside
  <2>2. Placement' /\ Removal'
    BY <1>6, RestAgrees DEF Resume, Goto, AtRest
  <2> QED  BY <1>3, <2>1, <2>2 DEF Agreed
<1>7. CASE RolledOut /\ ~Exit
  <2>1. Course' /\ Lag'
    BY <1>1, <1>7 DEF RolledOut, Goto, AInv, Agreed, Course, Lag, Lagging, Catching, poolVars, csiVars
  <2>2. Placement' /\ Removal'
    BY <1>7, RestAgrees DEF RolledOut, Goto, AtRest
  <2> QED  BY <1>3, <2>1, <2>2 DEF Agreed
<1> QED  BY <1>2, <1>4, <1>5, <1>6, <1>7

----------------------------------------------------------------------------
(* Placements. *)

LEMMA AddedAgrees ==
    ASSUME AInv, HandleAdded  PROVE Agreed'
<1>1. pc = "add" /\ UNCHANGED <<poolVars, volVars, csiVars>>
  BY DEF HandleAdded
<1>2. CASE Exit
  BY <1>1, <1>2, ExitAgrees DEF csiVars
<1>3. Recorded'
  BY <1>1, RecordedSame DEF volVars, csiVars
<1>4. CASE Fence("switch") /\ Switches(work.cr) /\ UNCHANGED <<plan, work, event>>
  <2>1. Course' /\ Lag'
    BY <1>1, <1>4 DEF Fence, Switches, Goto, AInv, Agreed, Course, Lag, Lagging, Catching, poolVars,
       Outside
  <2>2. Placement' /\ Removal'
    BY <1>4, RestAgrees DEF Fence, Goto, AtRest
  <2> QED  BY <1>3, <2>1, <2>2 DEF Agreed
<1>5. CASE /\ Accepts(work.cr) /\ ~Switches(work.cr)
           /\ work' = [work EXCEPT !.base = record,
                              !.id = IF record = NoRecord THEN Identity ELSE record.id]
           /\ Goto(FirstStep(work.cr))
           /\ UNCHANGED <<goal, plan, event, ready>>
  <2>1. /\ work'.cr = work.cr /\ work'.base = record
        /\ work'.id = IF record = NoRecord THEN Identity ELSE record.id
    BY <1>5 DEF AInv, OInv, IInv, TypeOK, OperatorTyped
  <2>2. pc' = FirstStep(work.cr) /\ pc' \in {"retain", "write"}
    BY <1>5 DEF Goto, FirstStep
  <2>3. Course' /\ Lag'
    <3>1. goal' = goal /\ Course /\ Lag  BY <1>5 DEF AInv, Agreed
    <3>2. Course'  BY <1>1, <2>2, <3>1 DEF Course, Placing, Outside, Deleting
    <3>3. Lagging => Catching'  BY <1>1, <2>2, <3>1 DEF Lag, Catching
    <3> QED  BY <1>1, <3>2, <3>3, LagSame DEF poolVars, csiVars
  <2>4. Removal'
    BY <1>1, <1>5, <2>2 DEF AInv, Agreed, Removal, DrainFence
  <2>5. /\ work.cr.uid # NoUid /\ work.cr.policy \in {"delete", "retain"}
        /\ Identity # 0 /\ (record # NoRecord => record.id # 0)
    BY <1>1, IdentityTyped, Typed DEF AInv, OInv, IInv, Agreed, Placement, Recorded, Ids, CRs, Policies
  <2>6. /\ pc' = "retain" => work.cr.policy = "retain"
        /\ pc' = "write" => work.cr.policy # "retain"
    BY <2>2, <2>5 DEF FirstStep, Reclaim
  <2>7. record # NoRecord =>
          /\ record.uid \in {NoUid, work.cr.uid}
          /\ goal = "none" => record.policy = work.cr.policy
    BY <1>5 DEF Accepts, OwnsRecord, Switches
  <2>8. Placement'
    BY <1>5, <2>1, <2>2, <2>5, <2>6, <2>7 DEF Placement, Placing, Written
  <2> QED  BY <1>3, <2>3, <2>4, <2>8 DEF Agreed
<1> QED  BY <1>2, <1>4, <1>5 DEF HandleAdded

LEMMA SwitchAgrees ==
    ASSUME AInv, SwitchRead \/ Verify  PROVE Agreed'
<1>1. UNCHANGED <<poolVars, volVars, csiVars>>
  BY DEF SwitchRead, Verify
<1>2. CASE Exit
  BY <1>1, <1>2, ExitAgrees DEF csiVars
<1>3. Recorded'
  BY <1>1, RecordedSame DEF volVars, csiVars
<1>4. CASE ~Exit
  <2>1. /\ (pc = "quiesce" /\ goal = "switch") \/ pc = "verify"
        /\ pc = "verify" => ~Lagging
        /\ pc' \in {"add", "resume"} /\ (pc' = "resume" => pc = "verify")
        /\ UNCHANGED <<goal, plan, event, ready>>
        /\ pc' = "add" => Live /\ work'.cr = cr
    BY <1>4, Typed DEF SwitchRead, Verify, Goto, Same, NoWork, Live, AInv, OInv, IInv, TypeOK,
       OperatorTyped, Agreed, Lag, Catching
  <2>2. Live => cr.uid # NoUid
    BY Typed DEF AInv, OInv, Lineage, ResourceLine, NoCR, Live, NoUid
  <2>3. Course'
    BY <2>1 DEF AInv, Agreed, Course, Outside, Deleting
  <2>4. Lag'
    BY <1>1, <2>1, LagSame DEF Catching, poolVars, csiVars
  <2>5. Placement'
    BY <2>1, <2>2 DEF Placement, Placing, Written
  <2>6. Removal'
    BY <2>1 DEF AInv, Agreed, Removal, DrainFence
  <2> QED  BY <1>3, <2>3, <2>4, <2>5, <2>6 DEF Agreed
<1> QED  BY <1>2, <1>4

\* The policy of a placement, once it reaches the volumes, is the record's or
\* the one the record is about to say.
LEMMA AlignSpares ==
    ASSUME AInv, NEW S, Align(S), UNCHANGED <<custom, record>>, pc \in {"retain", "delete", "align"}
    PROVE  /\ record.policy = "retain" => Spared'
           /\ pc = "retain" /\ S = Volumes => Spared'
           /\ Unmade => Unmade'
<1>1. \A v \in Volumes : vol'[v] = (IF v \in S /\ IsPV(v) THEN Reclaim(work.cr.policy) ELSE vol[v])
  BY DEF Align
<1>2. record.policy = "retain" => Spared /\ work.cr.policy = "retain"
  BY DEF AInv, Agreed, Recorded, Placement, Written, Done
<1>3. pc = "retain" => work.cr.policy = "retain"
  BY DEF AInv, Agreed, Placement
<1>4. work.cr.policy = "retain" => Reclaim(work.cr.policy) = "Retain"
  BY DEF Reclaim
<1>5. Unmade => Unmade'
  BY <1>1 DEF Unmade, IsPV
<1>6. work.cr.policy = "retain" /\ (Spared \/ S = Volumes) => Spared'
  BY <1>1, <1>4 DEF Spared, IsPV
<1> QED  BY <1>2, <1>3, <1>5, <1>6

\* A change of the volumes that spares those of a retained pool.
LEMMA VolumesAgree ==
    ASSUME AInv, UNCHANGED <<poolVars, csiVars, custom, asked>>,
           record.policy = "retain" => Spared', Unmade => Unmade'
    PROVE  Recorded'
BY DEF AInv, Agreed, Recorded, Nowhere, OwnsClass, poolVars, csiVars

LEMMA AlignAgrees ==
    ASSUME AInv, RetainFirst \/ DeleteAfter \/ AlignPolicy  PROVE Agreed'
<1>1. /\ Align(Volumes) /\ UNCHANGED <<goal, plan, work, event, ready, custom, asked>>
      /\ UNCHANGED <<poolVars, csiVars, record>>
      /\ \/ pc = "retain" /\ pc' = "write"
         \/ pc = "delete" /\ pc' = "class"
         \/ pc = "align" /\ pc' = "serve"
  BY DEF RetainFirst, DeleteAfter, AlignPolicy, Aligned, Goto, poolVars
<1>2. /\ record.policy = "retain" => Spared'
      /\ pc = "retain" => Spared'
      /\ Unmade => Unmade'
  BY <1>1, AlignSpares
<1>3. Recorded'
  BY <1>1, <1>2, VolumesAgree
<1>4. Course'
  BY <1>1 DEF AInv, Agreed, Course, Placing, Outside, Deleting
<1>5. Lag'
  BY <1>1, LagSame DEF AInv, Agreed, Lag, Catching, poolVars, csiVars
<1>6. Removal'
  BY <1>1 DEF AInv, Agreed, Removal, DrainFence, poolVars
<1>7. Placement'
  BY <1>1, <1>2 DEF AInv, Agreed, Placement, Placing, Written, Done, ClassOf, poolVars
<1> QED  BY <1>3, <1>4, <1>5, <1>6, <1>7 DEF Agreed

LEMMA WriteAgrees ==
    ASSUME AInv, WriteRecord  PROVE Agreed'
<1>1. pc = "write" /\ UNCHANGED <<class, servers, volVars, csiVars>>
  BY DEF WriteRecord
<1>2. CASE Exit /\ UNCHANGED record
  BY <1>1, <1>2, ExitAgrees DEF poolVars, csiVars
<1>3. CASE record = work.base
  <2>1. /\ record' = Done /\ UNCHANGED <<goal, plan, work, event, ready>>
        /\ pc' = IF Reclaim(work.cr.policy) = "Delete" THEN "delete" ELSE "class"
    BY <1>3 DEF WriteRecord, Goto, Done
  <2>2. /\ record' # NoRecord /\ record'.state = "open" /\ record'.uid = work.cr.uid
        /\ record'.policy = work.cr.policy /\ record'.id = work.id
    BY <2>1 DEF Done, NoRecord
  <2>3. /\ work.cr.uid # NoUid /\ work.id # 0 /\ work.cr.policy \in {"delete", "retain"}
        /\ work.base # NoRecord =>
              /\ work.base.uid \in {NoUid, work.cr.uid} /\ work.id = work.base.id
              /\ goal = "none" => work.base.policy = work.cr.policy
    BY <1>1, Typed DEF AInv, OInv, Agreed, Placement, Placing, CRs, Policies
  <2>4. OwnsClass(work.cr.uid, work.id)
    <3>1. CASE record = NoRecord
      BY <3>1 DEF AInv, Agreed, Recorded, Nowhere, OwnsClass, NoClass
    <3>2. CASE record # NoRecord
      BY <1>3, <2>3, <3>2 DEF AInv, Agreed, Recorded, OwnsClass
    <3> QED  BY <3>1, <3>2
  <2>5. work.cr.policy = "retain" => Spared /\ \A v \in Volumes \ custom : asked[v] # "Delete"
    <3>1. CASE goal = "none"
      <4>1. CASE record = NoRecord
        BY <4>1 DEF AInv, Agreed, Recorded, Nowhere, Unmade, Spared
      <4>2. CASE record # NoRecord
        BY <1>3, <2>3, <3>1, <4>2 DEF AInv, Agreed, Recorded
      <4> QED  BY <4>1, <4>2
    <3>2. CASE goal # "none"
      <4>1. ~up  BY <1>1, <3>2 DEF AInv, OInv, IInv, Fenced, Outside
      <4> QED  BY <1>1, <3>2, <4>1 DEF AInv, Agreed, Recorded, Placement
    <3> QED  BY <3>1, <3>2
  <2>6. Recorded'
    <3>1. OwnsClass(work.cr.uid, work.id)'
      BY <1>1, <2>1, <2>4 DEF OwnsClass
    <3> QED
      BY <1>1, <2>1, <2>2, <2>3, <2>5, <3>1
         DEF AInv, Agreed, Recorded, Unmade, Spared, volVars, csiVars
  <2>7. Lag'
    <3>1. goal = "none" => ~Lagging'
      <4>1. CASE record = NoRecord
        BY <1>1, <4>1 DEF AInv, Agreed, Recorded, Nowhere, Lagging, NoClass
      <4>2. CASE record # NoRecord
        BY <1>1, <1>3, <2>2, <2>3, <4>2 DEF AInv, Agreed, Lag, Lagging, Catching
      <4> QED  BY <4>1, <4>2
    <3>2. goal # "none" => ~up /\ replicas = 0 /\ goal \in {"boot", "place", "switch"}
      <4>1. goal \in {"none", "boot", "place", "switch", "drain", "leave"}
        BY DEF AInv, OInv, IInv, TypeOK, OperatorTyped
      <4> QED
        BY <1>1, <4>1 DEF AInv, OInv, IInv, Fenced, Agreed, Course, Outside, Deleting
    <3>3. Lagging' => pc' = "class"
      BY <2>1, <2>2 DEF Lagging, Reclaim
    <3> QED  BY <1>1, <2>1, <3>1, <3>2, <3>3 DEF Lag, Catching, csiVars
  <2>8. Course' /\ Removal'
    BY <1>1, <2>1 DEF AInv, Agreed, Course, Placing, Outside, Deleting, Removal, DrainFence
  <2>9. Placement'
    BY <1>1, <2>1, <2>3 DEF Placement, Placing, Written, Done, Reclaim
  <2> QED  BY <2>6, <2>7, <2>8, <2>9 DEF Agreed
<1> QED  BY <1>2, <1>3 DEF WriteRecord

LEMMA ClassAgrees ==
    ASSUME AInv, DeployClass \/ RenewClass  PROVE Agreed'
<1>1. /\ pc \in {"class", "renew"} /\ pc' \in {"align", "renew"}
      /\ UNCHANGED <<record, servers, work, goal, plan, event, ready, volVars, csiVars>>
      /\ class' \in {NoClass, ClassOf(work)}
      /\ pc' = "align" => class' = ClassOf(work)
  BY DEF DeployClass, RenewClass, Step, Goto, Holding
<1>2. /\ record = Done /\ record # NoRecord
      /\ record.policy = work.cr.policy /\ record.uid = work.cr.uid /\ record.id = work.id
      /\ work.cr.uid # NoUid
  BY <1>1 DEF AInv, Agreed, Placement, Placing, Written, Done, NoRecord
<1>3. \/ class' = NoClass
      \/ class'.policy = Reclaim(record.policy) /\ class'.uid = record.uid /\ class'.id = record.id
  BY <1>1, <1>2 DEF ClassOf
<1>4. Recorded'
  <2>1. OwnsClass(record.uid, record.id)'
    BY <1>1, <1>3 DEF OwnsClass, NoClass
  <2> QED
    BY <1>1, <1>2, <2>1 DEF AInv, Agreed, Recorded, Unmade, Spared, volVars, csiVars
<1>5. ~Lagging'
  BY <1>1, <1>3 DEF Lagging, NoClass, Reclaim
<1>6. Course' /\ Removal'
  BY <1>1 DEF AInv, Agreed, Course, Placing, Outside, Deleting, Removal, DrainFence
<1>7. Placement'
  BY <1>1, <1>2 DEF Placement, Placing, Written, Done, ClassOf
<1> QED  BY <1>4, <1>5, <1>6, <1>7 DEF Lag, Agreed

LEMMA ServersAgree ==
    ASSUME AInv, DeployServers  PROVE Agreed' /\ \A c : c = work.cr => Placed(c)'
<1>1. /\ pc = "serve" /\ servers' = work.id /\ pc' = IF goal = "switch" THEN "verify" ELSE "planned"
      /\ work' = IF goal = "switch" THEN [NoWork EXCEPT !.cr = work.cr] ELSE NoWork
      /\ UNCHANGED <<record, class, goal, plan, event, ready, volVars, csiVars>>
  BY DEF DeployServers, Goto, Holding
<1>2. /\ record = Done /\ record # NoRecord /\ class = ClassOf(work)
      /\ record.policy = work.cr.policy /\ record.uid = work.cr.uid /\ record.id = work.id
      /\ work.cr.uid # NoUid
  BY <1>1 DEF AInv, Agreed, Placement, Placing, Written, Done, NoRecord
<1>3. work.id # 0
  BY <1>2 DEF AInv, Agreed, Recorded
<1>4. goal = "switch" => work'.cr = work.cr
  BY <1>1 DEF NoWork
<1>5. /\ record' = [state |-> "open", uid |-> work.cr.uid, policy |-> work.cr.policy, id |-> servers']
      /\ class' = [policy |-> Reclaim(work.cr.policy), uid |-> work.cr.uid, id |-> servers']
      /\ servers' # 0
  BY <1>1, <1>2, <1>3 DEF Done, ClassOf
<1>6. Recorded'
  <2>1. OwnsClass(record.uid, record.id)'
    BY <1>1, <1>2 DEF AInv, Agreed, Recorded, OwnsClass
  <2> QED
    BY <1>1, <1>2, <1>3, <2>1 DEF AInv, Agreed, Recorded, Unmade, Spared, volVars, csiVars
<1>7. Course' /\ Lag' /\ Removal'
  <2>1. ~Lagging  BY <1>1 DEF AInv, Agreed, Lag, Catching
  <2> QED
    BY <1>1, <2>1, LagSame
       DEF AInv, Agreed, Course, Placing, Outside, Deleting, Removal, DrainFence, csiVars
<1>8. Placement'
  BY <1>1, <1>4, <1>5 DEF Placement, Placed, Placing, Written
<1> QED  BY <1>5, <1>6, <1>7, <1>8 DEF Agreed, Placed

----------------------------------------------------------------------------
(* Deletions. *)

LEMMA RaiseAgrees ==
    ASSUME AInv, Raise, UNCHANGED <<poolVars, volVars, csiVars>>
    PROVE  Agreed'
<1>1. CASE Exit
  BY <1>1, ExitAgrees DEF csiVars
<1>2. CASE goal = "drain" /\ goal' = "leave" /\ pc' = "resume" /\ plan' = NoPlan /\ Safe
  <2>1. Recorded'  BY RecordedSame DEF volVars, csiVars
  <2>2. ~Lagging
    BY <1>2 DEF AInv, Agreed, Lag, Catching, Safe
  <2>3. Course' /\ Lag'
    BY <1>2, <2>2, LagSame DEF Course, poolVars, csiVars
  <2>4. Placement' /\ Removal'
    BY <1>2, RestAgrees DEF AtRest
  <2> QED  BY <2>1, <2>3, <2>4 DEF Agreed
<1> QED  BY <1>1, <1>2 DEF Raise, Goto

LEMMA HandledAgrees ==
    ASSUME AInv, Handled, pc \in Deleting
    PROVE  Course' /\ Placement' /\ Removal'
<1>1. pc' = (IF goal = "drain" THEN "resume" ELSE "planned") /\ UNCHANGED <<goal, plan>>
  BY DEF Handled, Goto
<1>2. Course'
  BY <1>1 DEF AInv, Agreed, Course, Outside, Deleting, Placing, Written
<1>3. Placement' /\ Removal'
  BY <1>1, RestAgrees DEF AtRest
<1> QED  BY <1>2, <1>3

LEMMA DeletedAgrees ==
    ASSUME AInv, HandleDeleted \/ DrainFenced  PROVE Agreed'
<1>1. UNCHANGED <<plan, event, poolVars, volVars, csiVars>>
  BY DEF HandleDeleted, DrainFenced, Proceed
<1>2. Recorded'
  BY <1>1, RecordedSame DEF volVars, csiVars
<1>3. goal \in {"none", "boot", "place", "switch", "drain", "leave"}
  BY DEF AInv, OInv, IInv, TypeOK, OperatorTyped
<1>4. CASE HandleDeleted
  <2>1. /\ pc = "drain" /\ goal \in {"none", "boot", "place"} /\ record = plan.record
    BY <1>3, <1>4 DEF HandleDeleted, AInv, Agreed, Course, Removal, Outside, Deleting, Placing, Written
  <2>2. Lagging => plan.record.state # "quarantined" /\ record.uid # NoUid /\ goal # "none"
    BY <2>1 DEF AInv, Agreed, Recorded, Lag, Catching, Lagging
  <2>3. CASE Waits /\ pc' = "planned" /\ goal' = goal
    <3>1. ~Lagging  BY <2>2, <2>3 DEF Waits
    <3>2. Course' /\ Lag'
      BY <1>1, <2>1, <2>3, <3>1, LagSame DEF Course, poolVars, csiVars
    <3>3. Placement' /\ Removal'  BY <1>1, <2>3, RestAgrees DEF AtRest
    <3> QED  BY <1>2, <3>2, <3>3 DEF Agreed
  <2>4. CASE goal = "none" /\ goal' = "drain" /\ pc' = "fence"
    <3>1. Course' /\ Lag'
      BY <1>1, <2>2, <2>4, LagSame DEF Course, Outside, poolVars, csiVars
    <3>2. Placement' /\ Removal'
      BY <1>1, <2>1, <2>4 DEF AInv, Agreed, Placement, Removal, DrainFence, Placing, Written, poolVars
    <3> QED  BY <1>2, <3>1, <3>2 DEF Agreed
  <2>5. CASE goal # "none" /\ goal' = goal /\ pc' = Behind
    <3>1. Behind = (IF plan.seal = "no" THEN "reread" ELSE "seal") /\ plan.record # NoRecord
      BY <2>1 DEF Behind, AInv, OInv, IInv, Targeted
    <3>2. Lagging => pc' = "reread"
      BY <2>1, <2>2, <2>5, <3>1 DEF AInv, Agreed, Removal
    <3>3. Course' /\ Lag'
      BY <1>1, <2>1, <2>5, <3>1, <3>2, LagSame DEF Course, Catching, poolVars, csiVars
    <3>4. Placement' /\ Removal'
      BY <1>1, <2>1, <2>5, <3>1 DEF AInv, Agreed, Placement, Removal, DrainFence, Placing, Written, poolVars
    <3> QED  BY <1>2, <3>3, <3>4 DEF Agreed
  <2> QED  BY <1>4, <2>3, <2>4, <2>5 DEF HandleDeleted, Fence, Goto
<1>5. CASE DrainFenced
  <2>1. /\ pc = "quiesce" /\ goal = "drain" /\ goal' = goal
        /\ pc' = (IF plan.seal = "no" THEN "reread" ELSE "seal")
    BY <1>5 DEF DrainFenced, Proceed, Goto, Behind
  <2>2. ~Lagging
    BY <2>1 DEF AInv, Agreed, Lag, Catching
  <2>3. Course' /\ Lag'
    BY <1>1, <2>1, <2>2, LagSame DEF Course, Deleting, poolVars, csiVars
  <2>4. Placement' /\ Removal'
    BY <1>1, <2>1 DEF AInv, Agreed, Placement, Removal, DrainFence, Placing, Written, poolVars
  <2> QED  BY <1>2, <2>3, <2>4 DEF Agreed
<1> QED  BY <1>4, <1>5

\* The record is changed, but not whose it is or what becomes of its data.
LEMMA RecordAgrees ==
    ASSUME AInv, UNCHANGED <<class, servers, volVars, csiVars>>, record # NoRecord,
           record'.state \in {"cleanup", "quarantined"},
           record'.policy = record.policy, record'.id = record.id,
           \/ record'.uid = record.uid
           \/ record.uid = NoUid /\ record'.uid # NoUid /\ record'.state = "cleanup",
           record'.state = "quarantined" => record.uid = NoUid \/ record.state = "quarantined"
    PROVE  Recorded'
<1>1. OwnsClass(record.uid, record.id)' /\ record' # NoRecord
  BY DEF AInv, Agreed, Recorded, OwnsClass, NoRecord
<1>2. record'.uid = NoUid => record.uid = NoUid
  OBVIOUS
<1> QED
  BY <1>1, <1>2 DEF AInv, Agreed, Recorded, Unmade, Spared, volVars, csiVars

LEMMA SealAgrees ==
    ASSUME AInv, SealLegacy  PROVE Agreed'
<1>1. pc = "seal" /\ pc \in Deleting /\ UNCHANGED <<class, servers, volVars, csiVars>>
  BY DEF SealLegacy, Deleting
<1>2. CASE Raise /\ UNCHANGED record
  BY <1>1, <1>2, RaiseAgrees DEF poolVars
<1>3. CASE /\ Sealable /\ record' = Sealed
           /\ work' = IF Claimed THEN [work EXCEPT !.base = Sealed] ELSE NoWork
           /\ pc' = IF Claimed THEN "reread" ELSE IF goal = "drain" THEN "resume" ELSE "planned"
           /\ UNCHANGED <<goal, plan, event, ready>>
  <2>1. /\ record # NoRecord /\ record = plan.record
        /\ record.uid = NoUid \/ record.state = "quarantined"
        /\ record \in Records
    BY <1>1, <1>3, Typed DEF Sealable, AInv, OInv, IInv, Targeted, Agreed, Removal
  <2>2. record.policy = "delete" /\ ~Lagging
    BY <2>1 DEF AInv, Agreed, Recorded, Lagging
  <2>3. CASE Claimed
    <3>1. /\ Sealed.state = "cleanup" /\ Sealed.policy = record.policy /\ Sealed.id = record.id
          /\ Sealed.uid # NoUid
      BY <2>1, <2>3 DEF Sealed, Records, NoUid, Cleanup
    <3>2. record.uid # NoUid => OwnsClass(Sealed.uid, Sealed.id)
      BY <2>3 DEF Claimed, LegacyClass, OwnsClass
    <3>3. Recorded'
      <4>1. OwnsClass(record.uid, record.id)' /\ record' # NoRecord
        BY <1>1, <1>3, <2>3, <3>1 DEF Claimed, LegacyClass, OwnsClass, NoRecord
      <4> QED
        BY <1>1, <1>3, <2>1, <2>2, <3>1, <4>1
           DEF AInv, Agreed, Recorded, Unmade, Spared, volVars, csiVars
    <3>4. Course' /\ Lag'
      BY <1>1, <1>3, <2>2, <2>3, <3>1 DEF AInv, Agreed, Course, Outside, Deleting, Placing, Written,
         Lag, Lagging
    <3>5. Placement' /\ Removal'
      BY <1>3, <2>3 DEF AInv, Agreed, Placement, Placing, Written, Removal, DrainFence
    <3> QED  BY <3>3, <3>4, <3>5 DEF Agreed
  <2>4. CASE ~Claimed
    <3>1. /\ Sealed.state = "quarantined" /\ Sealed.policy = record.policy /\ Sealed.id = record.id
          /\ Sealed.uid = record.uid
      BY <2>1, <2>4 DEF Sealed, Records
    <3>2. Recorded'
      BY <1>1, <1>3, <2>1, <3>1, RecordAgrees
    <3>3. Course' /\ Lag'
      BY <1>1, <1>3, <2>2, <2>4, <3>1 DEF AInv, Agreed, Course, Outside, Deleting, Placing, Written,
         Lag, Lagging
    <3>4. Placement' /\ Removal'
      BY <1>3, <2>4, RestAgrees DEF AtRest
    <3> QED  BY <3>2, <3>3, <3>4 DEF Agreed
  <2> QED  BY <2>3, <2>4
<1> QED  BY <1>2, <1>3 DEF SealLegacy, Goto

LEMMA DropAgrees ==
    ASSUME AInv, DropClass  PROVE Agreed'
<1>1. /\ pc = "reread" /\ pc \in Deleting /\ record = NoRecord
      /\ UNCHANGED <<record, servers, volVars, csiVars>>
  BY DEF DropClass, Deleting
<1>2. class = NoClass /\ class' = class
  BY <1>1 DEF DropClass, AInv, Agreed, Recorded, Nowhere
<1>3. CASE Raise
  BY <1>1, <1>2, <1>3, RaiseAgrees DEF poolVars
<1>4. CASE Handled
  <2>1. Recorded'
    BY <1>1, <1>2, RecordedSame DEF poolVars, volVars, csiVars
  <2>2. ~Lagging /\ Lag'
    BY <1>1, <1>2 DEF Lagging, Lag, NoRecord
  <2> QED  BY <1>1, <1>4, <2>1, <2>2, HandledAgrees DEF Agreed
<1> QED  BY <1>3, <1>4 DEF DropClass

LEMMA DisableAgrees ==
    ASSUME AInv, DisableProvisioning  PROVE Agreed'
<1>1. /\ pc = "reread" /\ pc \in Deleting /\ record # NoRecord /\ record \in Records
      /\ UNCHANGED <<class, servers, volVars, csiVars>> /\ ~plan.stuck
  BY Typed DEF DisableProvisioning, Deleting, AInv, OInv, Agreed, Removal
<1>2. CASE Raise /\ UNCHANGED record
  BY <1>1, <1>2, RaiseAgrees DEF poolVars
<1>3. CASE /\ record' = [record EXCEPT !.state = "cleanup"] /\ pc' = "retire"
           /\ work' = [work EXCEPT !.base = record'] /\ UNCHANGED <<goal, plan, event, ready>>
  <2>1. /\ record'.state = "cleanup" /\ record'.policy = record.policy
        /\ record'.id = record.id /\ record'.uid = record.uid
    BY <1>1, <1>3 DEF Records
  <2>2. work'.base = record'
    BY <1>3 DEF AInv, OInv, IInv, TypeOK, OperatorTyped
  <2>3. Recorded'
    BY <1>1, <2>1, RecordAgrees
  <2>4. Course'
    BY <1>1, <1>3 DEF AInv, Agreed, Course, Outside, Deleting, Placing, Written
  <2>5. Lag'
    BY <1>1, <1>3, <2>1 DEF AInv, Agreed, Lag, Lagging, Catching, csiVars
  <2>6. Placement' /\ Removal'
    BY <1>3, <2>1, <2>2 DEF AInv, Agreed, Placement, Placing, Written, Removal, DrainFence
  <2> QED  BY <2>3, <2>4, <2>5, <2>6 DEF Agreed
<1> QED  BY <1>1, <1>2, <1>3 DEF DisableProvisioning, Goto

LEMMA RetireAgrees ==
    ASSUME AInv, RetireClass  PROVE Agreed'
<1>1. /\ pc = "retire" /\ UNCHANGED <<record, servers, volVars, csiVars>>
      /\ record = work.base /\ record.state = "cleanup" /\ record # NoRecord
  BY DEF RetireClass, AInv, Agreed, Removal, NoRecord
<1>2. OwnsClass(work.base.uid, work.base.id)
  BY <1>1 DEF AInv, Agreed, Recorded
<1>3. class' = NoClass /\ pc' = "count" /\ UNCHANGED <<goal, plan, work, event, ready>>
  BY <1>2 DEF RetireClass, Proceed, Goto
<1>4. Recorded'
  BY <1>1, <1>3
     DEF AInv, Agreed, Recorded, OwnsClass, NoClass, Unmade, Spared, volVars, csiVars
<1>5. Course' /\ Lag'
  BY <1>1, <1>3 DEF AInv, Agreed, Course, Outside, Deleting, Placing, Written, Lag, Lagging, NoClass
<1>6. Placement' /\ Removal'
  BY <1>1, <1>3 DEF AInv, Agreed, Placement, Placing, Written, Removal, DrainFence
<1> QED  BY <1>4, <1>5, <1>6 DEF Agreed

LEMMA CountAgrees ==
    ASSUME AInv, CountVolumes  PROVE Agreed'
<1>1. /\ pc = "count" /\ pc \in Deleting /\ UNCHANGED <<poolVars, volVars, csiVars>>
  BY DEF CountVolumes, Deleting
<1>2. CASE Raise
  BY <1>1, <1>2, RaiseAgrees
<1>3. Recorded' /\ ~Lagging
  BY <1>1, RecordedSame DEF AInv, Agreed, Lag, Catching, volVars, csiVars
<1>4. Lag'
  BY <1>1, <1>3, LagSame DEF poolVars, csiVars
<1>5. CASE Handled
  BY <1>1, <1>3, <1>4, <1>5, HandledAgrees DEF Agreed
<1>6. CASE pc' = "dismantle" /\ UNCHANGED <<goal, plan, work, event, ready>>
  <2>1. Course' /\ Placement' /\ Removal'
    BY <1>1, <1>6 DEF AInv, Agreed, Course, Outside, Deleting, Placement, Placing, Written, Removal,
       DrainFence, poolVars
  <2> QED  BY <1>3, <1>4, <2>1 DEF Agreed
<1> QED  BY <1>2, <1>5, <1>6 DEF CountVolumes, Proceed, Goto

LEMMA DismantleAgrees ==
    ASSUME AInv, Dismantle  PROVE Agreed'
<1>1. /\ pc = "dismantle" /\ pc' = "erase" /\ servers' = 0
      /\ UNCHANGED <<record, class, custom, asked, csiVars, goal, plan, work, event, ready>>
      /\ vol' = [v \in Volumes |-> IF vol[v] \in {"intent", "made"} THEN "none" ELSE vol[v]]
      /\ class = NoClass /\ record = work.base /\ record.state = "cleanup"
  BY DEF Dismantle, Proceed, Goto, AInv, Agreed, Removal
<1>2. record # NoRecord /\ record.uid # NoUid /\ ~HasPVs
  BY <1>1 DEF NoRecord, AInv, OInv, Lineage, WorkLine, Deleting, IInv, Fenced
<1>3. Unmade'
  BY <1>1, <1>2 DEF Unmade, HasPVs, IsPV, AInv, OInv, IInv, TypeOK
<1>4. Recorded'
  <2>1. Spared'  BY <1>3 DEF Unmade, Spared
  <2> QED
    BY <1>1, <1>2, <1>3, <2>1 DEF AInv, Agreed, Recorded, OwnsClass, csiVars
<1>5. Course' /\ Lag'
  BY <1>1 DEF AInv, Agreed, Course, Outside, Deleting, Placing, Written, Lag, Lagging, NoClass
<1>6. Placement' /\ Removal'
  BY <1>1 DEF AInv, Agreed, Placement, Placing, Written, Removal, DrainFence
<1> QED  BY <1>4, <1>5, <1>6 DEF Agreed

LEMMA EraseAgrees ==
    ASSUME AInv, EraseRecord  PROVE Agreed'
<1>1. /\ pc = "erase" /\ pc \in Deleting /\ UNCHANGED <<class, servers, volVars, csiVars>>
      /\ class = NoClass /\ servers = 0 /\ record = work.base
  BY DEF EraseRecord, Deleting, AInv, Agreed, Removal
<1>2. record' = NoRecord /\ Handled
  BY <1>1 DEF EraseRecord
<1>3. ~up
  BY <1>1 DEF AInv, OInv, IInv, Fenced, Outside
<1>4. Recorded'
  BY <1>1, <1>2, <1>3
     DEF AInv, Agreed, Recorded, Nowhere, Unmade, NoRecord, volVars, csiVars
<1>5. Lag'
  BY <1>2 DEF Lag, Lagging, NoRecord
<1> QED  BY <1>1, <1>2, <1>4, <1>5, HandledAgrees DEF Agreed

----------------------------------------------------------------------------
(* The operator dies or fails; the others act. *)

LEMMA FaultAgrees ==
    ASSUME AInv, Fault  PROVE Agreed'
<1>1. UNCHANGED <<poolVars, record>>  BY DEF Fault, poolVars
<1>2. CASE Fail
  <2>1. UNCHANGED <<up, volVars>>  BY <1>2 DEF Fail
  <2>2. CASE Exit
    BY <1>1, <1>2, <2>1, <2>2, ExitAgrees DEF Fail
  <2>3. CASE Raise /\ UNCHANGED replicas
    BY <1>1, <2>1, <2>3, RaiseAgrees DEF csiVars
  <2> QED  BY <1>2, <2>2, <2>3 DEF Fail
<1>3. CASE Crash
  <2>1. Exit /\ UNCHANGED <<custom, asked, csiVars>>  BY <1>3 DEF Crash
  <2>2. /\ record.policy = "retain" => Spared'
        /\ Unmade => Unmade'
    <3>1. CASE UNCHANGED vol
      BY <2>1, <3>1 DEF AInv, Agreed, Recorded, Spared, Unmade
    <3>2. CASE pc \in {"retain", "delete", "align"} /\ \E S \in SUBSET Volumes : Align(S)
      BY <1>1, <2>1, <3>2, AlignSpares
    <3> QED  BY <1>3, <3>1, <3>2 DEF Crash, HalfAligned
  <2>3. Recorded'
    BY <1>1, <2>1, <2>2, VolumesAgree
  <2>4. Course' /\ Lag'
    BY <1>1, <2>1, LagSame DEF Exit, Goto, Course, Catching, poolVars, csiVars
  <2>5. Placement' /\ Removal'
    BY <2>1, RestAgrees DEF Exit, Goto, AtRest
  <2> QED  BY <2>3, <2>4, <2>5 DEF Agreed
<1> QED  BY <1>2, <1>3 DEF Fault

\* What the operator does not do leaves its progress as it is.
LEMMA OthersAgree ==
    ASSUME AInv, Operators, UNCHANGED <<poolVars, custom>>, Recorded', Lag',
           up \/ (Spared => Spared')
    PROVE  Agreed'
<1>1. UNCHANGED <<pc, goal, plan, work, event, record, class, servers>>
  BY DEF Operators, opVars, poolVars
<1>2. Course'
  BY <1>1 DEF AInv, Agreed, Course
<1>3. Removal'
  BY <1>1 DEF AInv, Agreed, Removal, DrainFence
<1>4. pc = "write" /\ goal # "none" => ~up
  BY DEF AInv, OInv, IInv, Fenced, Outside
<1>5. Placement'
  BY <1>1, <1>4 DEF AInv, Agreed, Placement, Done, ClassOf, Placed
<1> QED  BY <1>2, <1>3, <1>5 DEF Agreed

LEMMA AdministratorAgrees ==
    ASSUME AInv, Administrator, ~lost'  PROVE Agreed'
<1>1. UNCHANGED <<poolVars, volVars, csiVars>> /\ Operators
  BY DEF Administrator, CreateCR, EditCR, MarkCR, DeleteCR, LoseRecord, Edit
<1>2. Recorded'
  BY <1>1, RecordedSame DEF volVars, csiVars
<1>3. Lag'
  BY <1>1, LagSame DEF Operators, opVars, AInv, Agreed, Lag, Catching, poolVars, csiVars
<1> QED  BY <1>1, <1>2, <1>3, OthersAgree DEF volVars, Spared

LEMMA ProvisionerAgrees ==
    ASSUME AInv, Provisioner  PROVE Agreed'
<1> PICK v \in Volumes : Ask(v) \/ Intend(v) \/ Make(v) \/ Provide(v) \/ Reclaimed(v)
  BY DEF Provisioner
<1>1. UNCHANGED <<poolVars, csiVars, custom>> /\ Operators
  BY DEF Ask, Intend, Make, Provide, Reclaimed, Provisioning
<1>2. Lag'
  BY <1>1, LagSame DEF Operators, opVars, AInv, Agreed, Lag, Catching, poolVars, csiVars
<1>3. /\ vol \in [Volumes -> {"none", "intent", "made", "Delete", "Retain", "gone"}]
      /\ asked \in [Volumes -> {"idle", "Delete", "Retain"}]
  BY DEF AInv, OInv, IInv, TypeOK
<1>4. CASE Ask(v)
  <2>1. /\ up /\ (v \in custom \/ class # NoClass) /\ UNCHANGED vol
        /\ asked' = [asked EXCEPT ![v] = IF v \in custom THEN "Delete" ELSE class.policy]
    BY <1>4 DEF Ask
  <2>2. record.policy = "retain" => class.policy # "Delete"
    BY <2>1 DEF AInv, Agreed, Lag, Lagging
  <2>3. Recorded'
    BY <1>1, <1>3, <2>1, <2>2
       DEF AInv, Agreed, Recorded, Nowhere, OwnsClass, Unmade, Spared, poolVars, csiVars
  <2> QED  BY <1>1, <1>2, <2>1, <2>3, OthersAgree
<1>5. CASE Intend(v) \/ Make(v)
  <2>1. /\ up /\ servers # 0 /\ UNCHANGED asked
        /\ vol' = [vol EXCEPT ![v] = "intent"] \/ vol' = [vol EXCEPT ![v] = "made"]
    BY <1>5 DEF Intend, Make
  <2>2. Recorded'
    BY <1>1, <1>3, <2>1
       DEF AInv, Agreed, Recorded, Nowhere, OwnsClass, Unmade, Spared, poolVars, csiVars
  <2> QED  BY <1>1, <1>2, <2>1, <2>2, OthersAgree
<1>6. CASE Provide(v)
  <2>1. /\ up /\ vol[v] = "made" /\ vol' = [vol EXCEPT ![v] = asked[v]]
        /\ asked' = [asked EXCEPT ![v] = "idle"]
    BY <1>6 DEF Provide
  <2>2. servers # 0
    BY <2>1 DEF AInv, Agreed, Recorded, Unmade
  <2>3. Recorded'
    BY <1>1, <1>3, <2>1, <2>2
       DEF AInv, Agreed, Recorded, Nowhere, OwnsClass, Unmade, Spared, poolVars, csiVars
  <2> QED  BY <1>1, <1>2, <2>1, <2>3, OthersAgree
<1>7. CASE Reclaimed(v)
  <2>1. vol' = [vol EXCEPT ![v] = "gone"] /\ UNCHANGED asked
    BY <1>7 DEF Reclaimed
  <2>2. Recorded'
    BY <1>1, <1>3, <2>1
       DEF AInv, Agreed, Recorded, Nowhere, OwnsClass, Unmade, Spared, poolVars, csiVars
  <2>3. Spared => Spared'
    BY <1>1, <1>3, <2>1 DEF Spared
  <2> QED  BY <1>1, <1>2, <2>2, <2>3, OthersAgree
<1> QED  BY <1>4, <1>5, <1>6, <1>7

LEMMA KubeletAgrees ==
    ASSUME AInv, CsiStop \/ CsiStart  PROVE Agreed'
<1>1. UNCHANGED <<poolVars, vol, custom, replicas>> /\ Operators
  BY DEF CsiStop, CsiStart, volVars
<1>2. Recorded'
  BY <1>1 DEF CsiStop, CsiStart, AInv, Agreed, Recorded, Nowhere, OwnsClass, Unmade, Spared,
     poolVars, volVars
<1>3. Lag'
  BY <1>1 DEF CsiStop, CsiStart, AInv, Agreed, Lag, Lagging, Catching, Operators, opVars, poolVars
<1> QED  BY <1>1, <1>2, <1>3, OthersAgree DEF Spared

----------------------------------------------------------------------------
LEMMA OperatorAgrees ==
    ASSUME AInv, Operator  PROVE Agreed'
BY WatchAgrees, TombstoneAgrees, FenceAgrees, AddedAgrees, SwitchAgrees, AlignAgrees, WriteAgrees,
   ClassAgrees, ServersAgree, DeletedAgrees, SealAgrees, DropAgrees, DisableAgrees, RetireAgrees,
   CountAgrees, DismantleAgrees, EraseAgrees DEF Operator

LEMMA NodesAgree ==
    ASSUME AInv, Displace \/ Rotate  PROVE Agreed'
<1>1. UNCHANGED <<poolVars, volVars, csiVars>> /\ Operators
  BY DEF Displace, Rotate
<1>2. Recorded'
  BY <1>1, RecordedSame DEF volVars, csiVars
<1>3. Lag'
  BY <1>1, LagSame DEF Operators, opVars, AInv, Agreed, Lag, Catching, poolVars, csiVars
<1> QED  BY <1>1, <1>2, <1>3, OthersAgree DEF volVars, Spared

LEMMA StillAgrees ==
    ASSUME AInv, UNCHANGED vars  PROVE Agreed'
<1>1. UNCHANGED <<poolVars, volVars, csiVars, opVars, ready>>  BY DEF vars
<1>2. Recorded'
  BY <1>1, RecordedSame DEF volVars, csiVars
<1>3. Lag'
  BY <1>1, LagSame DEF opVars, AInv, Agreed, Lag, Catching, poolVars, csiVars
<1> QED  BY <1>1, <1>2, <1>3, OthersAgree DEF Operators, volVars, Spared

LEMMA NextAgrees ==
    ASSUME AInv, [Next]_vars, ~lost'  PROVE Agreed'
BY StillAgrees, OperatorAgrees, FaultAgrees, AdministratorAgrees, ProvisionerAgrees, KubeletAgrees,
   NodesAgree DEF Next

\* A record that was lost stays lost.
LEMMA LostStays ==
    ASSUME [Next]_vars  PROVE lost => lost'
BY DEF Next, Operator, Fault, Administrator, CreateCR, EditCR, MarkCR, DeleteCR, LoseRecord, Edit,
   Provisioner, Ask, Intend, Make, Provide, Reclaimed, Provisioning, CsiStop, CsiStart, Displace,
   Rotate, vars

LEMMA InitAgrees == Init => Agreed
<1> SUFFICES ASSUME Init PROVE Agreed
  OBVIOUS
<1>1. plan = NoPlan /\ work = NoWork /\ pc = "down" /\ goal = "none"
      /\ asked = [v \in Volumes |-> "idle"]
  BY DEF Init
<1>2. Course /\ Placement /\ Removal
  BY <1>1 DEF Course, Placement, Removal, DrainFence, Placing, Written, NoPlan
<1>3. Recorded /\ record.policy = "delete"
  <2>1. CASE Fresh
    BY <1>1, <2>1 DEF Fresh, Recorded, Nowhere, Unmade, NoRecord
  <2>2. CASE Legacy
    <3>1. /\ record # NoRecord /\ record.state = "open" /\ record.uid = NoUid
          /\ record.policy = "delete" /\ record.id = 1 /\ servers = 1
      BY <2>2 DEF Legacy, NoRecord
    <3>2. class.uid = NoUid
      BY <2>2 DEF Legacy, NoClass
    <3> QED  BY <1>1, <3>1, <3>2 DEF Recorded, OwnsClass
  <2> QED  BY <2>1, <2>2 DEF Init
<1> QED  BY <1>2, <1>3 DEF Agreed, Lag, Lagging

LEMMA AgreedHolds == Spec => [](OInv /\ (~lost => Agreed))
<1>1. Init => OInv /\ (~lost => Agreed)
  BY InitIInv, InitLine, InitAgrees DEF OInv
<1>2. OInv /\ (~lost => Agreed) /\ [Next]_vars => (OInv /\ (~lost => Agreed))'
  BY NextKeeps, NextLine, NextAgrees, LostStays DEF OInv, AInv
<1> QED  BY <1>1, <1>2, PTL DEF Spec

(***************************************************************************)
(* While a pool's record says that data is retained, no PersistentVolume   *)
(* of its class says otherwise, through every change of policy, crash and  *)
(* create in flight (reconcile_pool_pv_reclaim_policy around               *)
(* update_config_map).                                                     *)
(***************************************************************************)
THEOREM RetainedIsRetained == Spec => []RetainIsSafe
<1>1. OInv /\ (~lost => Agreed) => RetainIsSafe
  BY DEF Agreed, Recorded, Spared, RetainIsSafe
<1> QED  BY <1>1, AgreedHolds, PTL

----------------------------------------------------------------------------
(***************************************************************************)
(* What the operator waits on.  A placement is carried out from the        *)
(* resource as it was listed, or as it was read again behind the fence of  *)
(* a change of policy: unless something came in since, that is how it is.  *)
(***************************************************************************)
\* The plan and how much of it is carried out.
Ready   == goal = "none" /\ pc \notin {"down"} \cup Outside => ready
Pursued ==
    /\ goal = "switch" \/ pc \in {"add", "verify"} \cup Placing => plan.kind = "add"
    /\ goal = "drain" \/ pc \in {"drain"} \cup Deleting => plan.kind = "drain"
    /\ pc = "verify" => goal = "switch"
Latest ==
    /\ plan.kind = "add" /\ unseen = {} => plan.cr = cr
    /\ pc \in {"add"} \cup Placing /\ goal # "switch" => work.cr = plan.cr
    /\ pc \in {"add", "verify"} \cup Placing /\ goal = "switch" /\ unseen = {} => work.cr = cr
Carried ==
    pc \in {"planned", "watch"} \/ (pc \in {"resume", "rollout"} /\ goal # "leave") =>
        /\ plan.kind = "add" => /\ unseen = {} => Placed(cr)
                                /\ pc = "planned" /\ goal # "none" => Placed(plan.cr)
        /\ plan.kind = "drain" => record.state # "open" /\ (record = NoRecord \/ servers # 0)
        /\ plan.kind = "none" => record = NoRecord
Confirmed ==
    pc = "watch" \/ (pc \in {"resume", "rollout"} /\ goal \in {"boot", "place"}) =>
        (plan.kind = "drain" => record # NoRecord)

Settling == Ready /\ Pursued /\ Latest /\ Carried /\ Confirmed
WInv     == AInv /\ Settling

LEMMA ExitSettles ==
    ASSUME Exit  PROVE Settling'
BY DEF Exit, Goto, Settling, Ready, Pursued, Latest, Carried, Confirmed, Outside, Placing, Written,
   Deleting, NoPlan

LEMMA AdoptSettles ==
    ASSUME WInv, Adopt(Current), UNCHANGED <<goal, ready, record, cr>>,
           pc \in {"planned", "watch"} \/ goal # "none", goal \in {"none", "boot", "place"}
    PROVE  Settling'
<1>1. /\ plan' = Current /\ pc' \in {"planned", "add", "drain"}
      /\ pc' = (IF Current.kind = "none" THEN "planned" ELSE Current.kind)
  BY CurrentTyped DEF Adopt, Goto, WInv, AInv, OInv, IInv
<1>2. /\ Current.cr = cr /\ Current.kind = Kind
      /\ Kind = "none" => record = NoRecord
  BY DEF Current, Kind
<1>3. pc' = "add" => work'.cr = cr
  BY <1>1, <1>2 DEF Adopt, NoWork
<1>4. Ready'
  BY <1>1 DEF WInv, Settling, Ready, Outside
<1>5. Pursued' /\ Latest' /\ Carried' /\ Confirmed'
  BY <1>1, <1>2, <1>3 DEF Pursued, Latest, Carried, Confirmed, Outside, Placing, Written, Deleting
<1> QED  BY <1>4, <1>5 DEF Settling

LEMMA WatchSettles ==
    ASSUME WInv, \/ GateNodes \/ FencedList \/ GateTimeout \/ Stable \/ Unwatched \/ Relist \/ Place
                 \/ Tombstone
    PROVE  Settling'
<1>1. UNCHANGED <<record, servers, cr>>
  BY DEF GateNodes, FencedList, ListOnly, GateTimeout, Stable, Unwatched, Relist, Place, Tombstone, poolVars, crVars
<1>2. CASE Exit
  BY <1>2, ExitSettles
<1>3. goal \in {"none", "boot", "place", "switch", "drain", "leave"}
  BY DEF WInv, AInv, OInv, IInv, TypeOK, OperatorTyped
<1>4. CASE FencedList \/ Stable \/ Relist
  <2>1. CASE Adopt(Current) /\ UNCHANGED <<goal, ready>>
    <3>1. /\ pc \in {"planned", "watch"} \/ goal # "none"
          /\ goal \in {"none", "boot", "place"}
      BY <1>3, <1>4 DEF FencedList, Stable, Relist, WInv, AInv, Agreed, Course, Outside, Deleting,
         Placing, Written
    <3> QED  BY <1>1, <2>1, <3>1, AdoptSettles
  <2>2. CASE /\ Stable /\ Current = plan
             /\ pc' = (IF goal = "none" THEN "watch" ELSE "resume")
             /\ unseen' = {} /\ UNCHANGED <<goal, plan, work, event, ready, class>>
    <3>1. /\ pc = "planned" /\ plan.cr = cr
          /\ plan.kind = "drain" => record # NoRecord
          /\ goal = "none" => plan.kind = "drain"
      BY <2>2 DEF Stable, Current, Kind
    <3>2. goal \in {"none", "boot", "place"}
      BY <1>3, <3>1 DEF WInv, AInv, Agreed, Course, Outside, Deleting, Placing, Written
    <3>3. plan.kind = "add" => Placed(cr)
      BY <3>1 DEF WInv, Settling, Carried
    <3>4. Ready' /\ Pursued' /\ Latest'
      BY <1>1, <2>2, <3>1, <3>2 DEF WInv, Settling, Ready, Pursued, Latest, Outside, Deleting, Placing,
         Written
    <3>5. Carried' /\ Confirmed'
      BY <1>1, <2>2, <3>1, <3>2, <3>3 DEF WInv, Settling, Carried, Confirmed, Placed
    <3> QED  BY <3>4, <3>5 DEF Settling
  <2> QED
    BY <1>2, <1>4, <2>1, <2>2
       DEF FencedList, ListOnly, List, Stable, Relist, Goto, poolVars
<1>5. CASE Unwatched
  <2>1. /\ pc = "planned" /\ pc' = "watch" /\ goal = "none" /\ plan.kind # "drain"
        /\ UNCHANGED <<goal, plan, work, ready, unseen, class>>
    BY <1>5 DEF Unwatched, Goto, crVars, poolVars
  <2>2. Ready' /\ Pursued' /\ Latest'
    BY <1>1, <2>1 DEF WInv, Settling, Ready, Pursued, Latest, Outside, Deleting, Placing, Written
  <2>3. Carried' /\ Confirmed'
    BY <1>1, <2>1 DEF WInv, Settling, Carried, Confirmed, Placed
  <2> QED  BY <2>2, <2>3 DEF Settling
<1>6. CASE Place
  <2>1. pc' = "fence" /\ goal' = "place" /\ UNCHANGED <<plan, unseen>>
    BY <1>6 DEF Place, Fence, Goto, crVars
  <2> QED
    BY <1>1, <2>1 DEF WInv, Settling, Ready, Pursued, Latest, Carried, Confirmed, Outside,
       Deleting, Placing, Written
<1>7. CASE Tombstone /\ ~Exit
  <2>1. /\ pc = "watch" /\ UNCHANGED <<ready, pc, goal, plan, work, unseen>>
        /\ class' = class \/ record = NoRecord
    BY <1>7 DEF Tombstone, crVars
  <2>2. Ready' /\ Pursued' /\ Latest'
    BY <1>1, <2>1 DEF WInv, Settling, Ready, Pursued, Latest
  <2>3. Carried' /\ Confirmed'
    BY <1>1, <2>1 DEF WInv, Settling, Carried, Confirmed, Placed, NoRecord
  <2> QED  BY <2>2, <2>3 DEF Settling
<1>8. CASE (GateNodes \/ GateTimeout) /\ ~Exit
  <2>1. pc' = "nodes" /\ goal \in {"boot", "place"} /\ UNCHANGED <<goal, plan, work, ready, unseen>>
    BY <1>8 DEF GateNodes, GateTimeout, Gated, Goto, crVars
  <2> QED
    BY <1>1, <2>1 DEF WInv, Settling, Ready, Pursued, Latest, Carried, Confirmed, Outside,
       Deleting, Placing, Written
<1> QED  BY <1>2, <1>4, <1>5, <1>6, <1>7, <1>8

LEMMA FenceSettles ==
    ASSUME WInv, Boot \/ ScaleDown \/ Resume \/ RolledOut  PROVE Settling'
<1>1. UNCHANGED <<record, servers, class, cr, unseen>>
  BY DEF Boot, ScaleDown, Resume, RolledOut, poolVars, crVars
<1>2. CASE Exit
  BY <1>2, ExitSettles
<1>3. goal \in {"none", "boot", "place", "switch", "drain", "leave"}
  BY DEF WInv, AInv, OInv, IInv, TypeOK, OperatorTyped
<1>4. CASE Boot
  <2>1. pc = "down" /\ pc' = "quiesce" /\ goal = "none" /\ goal' = "boot" /\ UNCHANGED <<plan, work, ready>>
    BY <1>4 DEF Boot, Goto, WInv, AInv, Agreed, Course
  <2> QED
    BY <1>1, <2>1 DEF WInv, Settling, Ready, Pursued, Latest, Carried, Confirmed, Outside,
       Deleting, Placing, Written
<1>5. CASE ScaleDown
  <2>1. pc = "fence" /\ pc' = "quiesce" /\ UNCHANGED <<goal, plan, work, ready>>
    BY <1>5 DEF ScaleDown, Goto
  <2> QED
    BY <1>1, <2>1 DEF WInv, Settling, Ready, Pursued, Latest, Carried, Confirmed, Outside,
       Deleting, Placing, Written
<1>6. CASE Resume
  <2>1. pc = "resume" /\ pc' = "rollout" /\ UNCHANGED <<goal, plan, work, ready>>
    BY <1>6 DEF Resume, Goto
  <2>2. Ready' /\ Pursued' /\ Latest'
    BY <1>1, <2>1 DEF WInv, Settling, Ready, Pursued, Latest, Outside, Deleting, Placing, Written
  <2>3. Carried' /\ Confirmed'
    BY <1>1, <2>1 DEF WInv, Settling, Carried, Confirmed, Placed
  <2> QED  BY <2>2, <2>3 DEF Settling
<1>7. CASE RolledOut /\ ~Exit
  <2>1. /\ pc = "rollout" /\ goal # "leave" /\ ready' = TRUE /\ goal' = "none"
        /\ pc' = (IF goal \in {"boot", "place"} THEN "watch" ELSE "planned")
        /\ UNCHANGED <<plan, work>>
    BY <1>7 DEF RolledOut, Goto
  <2>2. Ready' /\ Pursued' /\ Latest'
    BY <1>1, <2>1 DEF WInv, Settling, Ready, Pursued, Latest, Outside, Deleting, Placing, Written
  <2>3. Carried' /\ Confirmed'
    BY <1>1, <2>1 DEF WInv, Settling, Carried, Confirmed, Placed
  <2> QED  BY <2>2, <2>3 DEF Settling
<1> QED  BY <1>2, <1>4, <1>5, <1>6, <1>7

\* A placement goes on, or starts again from the resource as it is.
LEMMA PlacingSettles ==
    ASSUME WInv, pc \in {"add", "verify"} \cup Placing, pc' \in {"add", "verify"} \cup Placing,
           UNCHANGED <<goal, plan, ready, cr, unseen>>,
           work'.cr \in {work.cr, cr}, work'.cr # work.cr => goal = "switch",
           pc' = "verify" \/ pc = "verify" => goal = "switch"
    PROVE  Settling'
BY DEF WInv, Settling, Ready, Pursued, Latest, Carried, Confirmed, Outside, Deleting, Placing,
   Written

LEMMA AddedSettles ==
    ASSUME WInv, HandleAdded  PROVE Settling'
<1>1. pc = "add" /\ UNCHANGED <<record, servers, class, cr, unseen>>
  BY DEF HandleAdded, poolVars, crVars
<1>2. CASE Exit
  BY <1>2, ExitSettles
<1>3. CASE Fence("switch") /\ UNCHANGED <<plan, work, event>>
  BY <1>1, <1>3 DEF Fence, Goto, WInv, Settling, Ready, Pursued, Latest, Carried, Confirmed, Outside,
     Deleting, Placing, Written
<1>4. CASE /\ work' = [work EXCEPT !.base = record,
                              !.id = IF record = NoRecord THEN Identity ELSE record.id]
           /\ Goto(FirstStep(work.cr))
           /\ UNCHANGED <<goal, plan, event, ready>>
  <2>1. work'.cr = work.cr
    BY <1>4 DEF WInv, AInv, OInv, IInv, TypeOK, OperatorTyped
  <2>2. pc' \in {"retain", "write"}
    BY <1>4 DEF Goto, FirstStep
  <2> QED  BY <1>1, <1>4, <2>1, <2>2, PlacingSettles DEF Placing
<1> QED  BY <1>2, <1>3, <1>4 DEF HandleAdded

LEMMA SwitchSettles ==
    ASSUME WInv, SwitchRead \/ Verify  PROVE Settling'
<1>1. UNCHANGED <<record, servers, class, cr, unseen>>
  BY DEF SwitchRead, Verify, poolVars, crVars
<1>2. CASE Exit
  BY <1>2, ExitSettles
<1>3. CASE SwitchRead /\ ~Exit
  <2>1. /\ pc = "quiesce" /\ goal = "switch" /\ pc' = "add" /\ UNCHANGED <<goal, plan, ready>>
        /\ work'.cr = cr
    BY <1>3 DEF SwitchRead, Goto, WInv, AInv, OInv, IInv, TypeOK, OperatorTyped
  <2> QED
    BY <1>1, <2>1 DEF WInv, Settling, Ready, Pursued, Latest, Carried, Confirmed, Outside,
       Deleting, Placing, Written
<1>4. CASE Verify /\ ~Exit
  <2>1. pc = "verify" /\ goal = "switch" /\ plan.kind = "add" /\ UNCHANGED <<goal, plan, ready>>
    BY <1>4 DEF Verify, WInv, Settling, Pursued
  <2>2. CASE pc' = "add" /\ work'.cr = cr
    BY <1>1, <2>1, <2>2, PlacingSettles
  <2>3. CASE pc' = "resume" /\ cr = work.cr
    <3>1. Placed(cr)
      BY <2>1, <2>3 DEF WInv, AInv, Agreed, Placement
    <3> QED
      BY <1>1, <2>1, <2>3, <3>1 DEF WInv, Settling, Ready, Pursued, Latest, Carried, Confirmed, Outside,
         Deleting, Placing, Written, Placed
  <2> QED  BY <1>4, <2>2, <2>3 DEF Verify, Goto, NoWork
<1> QED  BY <1>2, <1>3, <1>4

LEMMA PlacedSettles ==
    ASSUME WInv, RetainFirst \/ DeleteAfter \/ AlignPolicy \/ WriteRecord \/ DeployClass
                 \/ RenewClass \/ DeployServers
    PROVE  Settling'
<1>1. UNCHANGED <<cr, unseen>> /\ pc \in Placing
  BY DEF RetainFirst, DeleteAfter, AlignPolicy, Aligned, WriteRecord, DeployClass, RenewClass,
     DeployServers, Step, Holding, crVars, Placing
<1>2. CASE Exit
  BY <1>2, ExitSettles
<1>3. CASE ~DeployServers /\ ~Exit
  <2>1. /\ pc' \in Placing /\ UNCHANGED <<goal, plan, ready, work>>
    BY <1>3 DEF RetainFirst, DeleteAfter, AlignPolicy, Aligned, WriteRecord, DeployClass, RenewClass,
       Step, Goto, Holding, Placing
  <2> QED  BY <1>1, <2>1, PlacingSettles DEF Placing
<1>4. CASE DeployServers
  <2>1. /\ pc = "serve" /\ pc' = (IF goal = "switch" THEN "verify" ELSE "planned")
        /\ UNCHANGED <<goal, plan, ready>> /\ plan.kind = "add"
        /\ goal = "switch" => work'.cr = work.cr
    BY <1>4 DEF DeployServers, Goto, Holding, NoWork, WInv, Settling, Pursued, Placing
  <2>2. CASE goal = "switch"
    BY <1>1, <2>1, <2>2, PlacingSettles
  <2>3. CASE goal # "switch"
    <3>1. PICK c : c = work.cr  OBVIOUS
    <3>2. Placed(c)' /\ c = plan.cr /\ plan' = plan
      BY <1>1, <1>4, <2>1, <2>3, <3>1, ServersAgree DEF WInv, Settling, Latest
    <3>3. (unseen = {} => c = cr) /\ cr' = cr
      BY <1>1, <2>1, <3>2 DEF WInv, Settling, Latest
    <3>4. Carried'
      BY <1>1, <2>1, <2>3, <3>2, <3>3 DEF Carried, Placed
    <3>5. Ready' /\ Pursued' /\ Latest' /\ Confirmed'
      BY <1>1, <2>1, <2>3 DEF WInv, Settling, Ready, Pursued, Latest, Confirmed, Outside, Deleting,
         Placing, Written
    <3> QED  BY <3>4, <3>5 DEF Settling
  <2> QED  BY <2>2, <2>3
<1> QED  BY <1>2, <1>3, <1>4

----------------------------------------------------------------------------
LEMMA RaiseSettles ==
    ASSUME WInv, Raise  PROVE Settling'
<1>1. CASE Exit
  BY <1>1, ExitSettles
<1>2. CASE goal' = "leave" /\ pc' = "resume" /\ plan' = NoPlan
  BY <1>2 DEF Settling, Ready, Pursued, Latest, Carried, Confirmed, Outside, Deleting, Placing,
     Written, NoPlan
<1> QED  BY <1>1, <1>2 DEF Raise, Goto

\* A deletion that is carried out, as far as it can be, leaves no open record.
LEMMA RemovedSettles ==
    ASSUME WInv, pc \in {"drain"} \cup Deleting, UNCHANGED <<goal, plan, ready, cr, unseen>>,
           pc' = (IF goal = "drain" THEN "resume" ELSE "planned"),
           record'.state # "open" /\ (record' = NoRecord \/ servers' # 0)
    PROVE  Settling'
<1>1. plan.kind = "drain" /\ goal \notin {"switch", "leave"}
  BY DEF WInv, Settling, Pursued, AInv, Agreed, Course, Outside, Placing, Written, Deleting
<1> QED
  BY <1>1 DEF WInv, Settling, Ready, Pursued, Latest, Carried, Confirmed, Outside, Deleting, Placing,
     Written

LEMMA RemovingSettles ==
    ASSUME WInv, pc \in {"drain", "quiesce"} \cup Deleting, pc' \in {"fence"} \cup Deleting,
           UNCHANGED <<plan, ready, cr, unseen>> \/ (pc' = "fence" /\ UNCHANGED <<plan, cr, unseen>>),
           plan.kind = "drain", goal' \notin {"switch", "none"}
    PROVE  Settling'
BY DEF WInv, Settling, Ready, Pursued, Latest, Carried, Confirmed, Outside, Deleting, Placing,
   Written

LEMMA DeletedSettles ==
    ASSUME WInv, HandleDeleted \/ DrainFenced  PROVE Settling'
<1>1. UNCHANGED <<plan, event, record, servers, class, cr, unseen>> /\ plan.kind = "drain"
  BY DEF HandleDeleted, DrainFenced, Proceed, poolVars, crVars, WInv, Settling, Pursued
<1>2. CASE HandleDeleted
  <2>1. pc = "drain" /\ record = plan.record /\ record # NoRecord /\ goal \notin {"switch", "drain"}
    BY <1>2 DEF HandleDeleted, WInv, AInv, OInv, IInv, Targeted, Agreed, Removal, Course, Outside,
       Deleting, Placing, Written
  <2>2. CASE Waits /\ pc' = "planned" /\ UNCHANGED <<goal, ready>>
    <3>1. record.state \in {"cleanup", "quarantined"}
      BY <2>1, <2>2 DEF Waits
    <3>2. servers # 0
      <4>1. CASE record.state = "quarantined"
        BY <4>1 DEF WInv, AInv, Agreed, Recorded
      <4>2. CASE HasPVs
        BY <4>2 DEF WInv, AInv, Agreed, Recorded, Unmade, HasPVs, IsPV
      <4> QED
        BY <2>1, <2>2, <4>1, <4>2 DEF Waits, WInv, AInv, Agreed, Removal
    <3> QED  BY <1>1, <2>1, <2>2, <3>1, <3>2, RemovedSettles
  <2>3. CASE Fence("drain")
    BY <1>1, <2>1, <2>3, RemovingSettles DEF Fence, Goto
  <2>4. CASE goal # "none" /\ pc' = Behind /\ UNCHANGED <<goal, ready>>
    BY <1>1, <2>1, <2>4, RemovingSettles DEF Behind, Deleting
  <2> QED  BY <1>2, <2>2, <2>3, <2>4 DEF HandleDeleted, Goto
<1>3. CASE DrainFenced
  BY <1>1, <1>3, RemovingSettles DEF DrainFenced, Proceed, Goto, Behind, Deleting
<1> QED  BY <1>2, <1>3

LEMMA RemovalSettles ==
    ASSUME WInv, SealLegacy \/ DropClass \/ DisableProvisioning \/ RetireClass \/ CountVolumes
                 \/ Dismantle \/ EraseRecord
    PROVE  Settling'
<1>1. pc \in Deleting /\ plan.kind = "drain" /\ UNCHANGED <<cr, unseen>>
  BY DEF SealLegacy, DropClass, DisableProvisioning, RetireClass, CountVolumes, Dismantle,
     EraseRecord, Deleting, crVars, WInv, Settling, Pursued
<1>2. goal \notin {"switch", "none"}
  BY <1>1 DEF WInv, AInv, OInv, IInv, Fenced, Agreed, Course, Outside, Deleting, Placing, Written
<1>3. CASE Raise
  BY <1>3, RaiseSettles
<1>4. ASSUME Handled, record'.state # "open", record' = NoRecord \/ servers' # 0
      PROVE  Settling'
  BY <1>1, <1>4, RemovedSettles DEF Handled, Goto
<1>5. ASSUME pc' \in Deleting, UNCHANGED <<goal, plan, ready>> PROVE Settling'
  BY <1>1, <1>2, <1>5, RemovingSettles
<1>6. CASE SealLegacy /\ ~Raise
  <2>1. /\ pc = "seal" /\ Sealable /\ record' = Sealed /\ UNCHANGED <<servers, goal, plan, ready>>
        /\ pc' = IF Claimed THEN "reread" ELSE IF goal = "drain" THEN "resume" ELSE "planned"
    BY <1>6 DEF SealLegacy, Goto
  <2>2. CASE Claimed
    BY <1>5, <2>1, <2>2 DEF Deleting
  <2>3. CASE ~Claimed
    <3>1. /\ record # NoRecord /\ record \in Records
          /\ record.uid = NoUid \/ record.state = "quarantined"
      BY <2>1, Typed DEF Sealable, WInv, AInv, OInv, IInv, Targeted, Agreed, Removal
    <3>2. record'.state = "quarantined"
      BY <2>1, <2>3, <3>1 DEF Sealed, Records
    <3>3. servers # 0
      BY <3>1 DEF WInv, AInv, Agreed, Recorded
    <3> QED  BY <1>1, <2>1, <2>3, <3>2, <3>3, RemovedSettles
  <2> QED  BY <2>2, <2>3
<1>7. CASE DropClass /\ ~Raise
  BY <1>4, <1>7 DEF DropClass, NoRecord
<1>8. CASE DisableProvisioning /\ ~Raise
  <2>1. ~plan.stuck  BY DEF WInv, AInv, Agreed, Removal
  <2> QED  BY <1>5, <1>8, <2>1 DEF DisableProvisioning, Goto, Deleting
<1>9. CASE RetireClass
  <2>1. OwnsClass(work.base.uid, work.base.id)
    BY <1>9 DEF RetireClass, NoRecord, WInv, AInv, Agreed, Recorded, Removal
  <2> QED  BY <1>5, <1>9, <2>1 DEF RetireClass, Proceed, Goto, Deleting
<1>10. CASE CountVolumes /\ ~Raise
  <2>1. /\ pc = "count" /\ UNCHANGED <<record, servers>>
        /\ record = work.base /\ record.state = "cleanup"
    BY <1>10 DEF CountVolumes, poolVars, WInv, AInv, Agreed, Removal
  <2>2. HasPVs => servers # 0
    BY DEF WInv, AInv, Agreed, Recorded, Unmade, HasPVs, IsPV
  <2>3. CASE Handled /\ (HasPVs \/ record = NoRecord)
    BY <1>4, <2>1, <2>2, <2>3
  <2>4. CASE Proceed("dismantle")
    BY <1>5, <2>4 DEF Proceed, Goto, Deleting
  <2> QED  BY <1>10, <2>3, <2>4 DEF CountVolumes
<1>11. CASE Dismantle
  BY <1>5, <1>11 DEF Dismantle, Proceed, Goto, Deleting
<1>12. CASE EraseRecord /\ ~Raise
  BY <1>4, <1>12 DEF EraseRecord, NoRecord
<1> QED  BY <1>3, <1>6, <1>7, <1>8, <1>9, <1>10, <1>11, <1>12

----------------------------------------------------------------------------
\* While the operator stands still, an edit is something it has not seen.
LEMMA OthersSettle ==
    ASSUME WInv, Operators, UNCHANGED poolVars, UNCHANGED <<cr, unseen>> \/ unseen' # {}
    PROVE  Settling'
<1>1. UNCHANGED <<pc, goal, plan, work, event, ready, record, class, servers>>
  BY DEF Operators, opVars, poolVars
<1>2. Ready' /\ Pursued' /\ Confirmed'
  BY <1>1 DEF WInv, Settling, Ready, Pursued, Confirmed
<1>3. Latest' /\ Carried'
  BY <1>1 DEF WInv, Settling, Latest, Carried, Placed
<1> QED  BY <1>2, <1>3 DEF Settling

LEMMA NextSettles ==
    ASSUME WInv, [Next]_vars, ~lost'  PROVE Settling'
<1>1. CASE Operator
  BY <1>1, WatchSettles, FenceSettles, AddedSettles, SwitchSettles, PlacedSettles, DeletedSettles,
     RemovalSettles DEF Operator
<1>2. CASE Displace \/ Rotate
  BY <1>2, OthersSettle DEF Displace, Rotate, crVars
<1>3. CASE Fault
  BY <1>3, ExitSettles, RaiseSettles DEF Fault, Crash, Fail
<1>4. CASE Administrator
  BY <1>4, OthersSettle DEF Administrator, CreateCR, EditCR, MarkCR, DeleteCR, LoseRecord, Edit
<1>5. CASE Provisioner \/ CsiStop \/ CsiStart
  BY <1>5, OthersSettle DEF Provisioner, Ask, Intend, Make, Provide, Reclaimed, Provisioning,
     CsiStop, CsiStart, crVars
<1>6. CASE UNCHANGED vars
  BY <1>6, OthersSettle DEF vars, crVars, Operators
<1> QED  BY <1>1, <1>2, <1>3, <1>4, <1>5, <1>6 DEF Next

LEMMA InitSettles == Init => Settling
BY DEF Init, Settling, Ready, Pursued, Latest, Carried, Confirmed, Outside, Deleting, Placing,
   Written, NoPlan

LEMMA SettlingHolds == Spec => [](OInv /\ (~lost => Agreed /\ Settling))
<1>1. Init => OInv /\ (~lost => Agreed /\ Settling)
  BY InitIInv, InitLine, InitAgrees, InitSettles DEF OInv
<1>2. OInv /\ (~lost => Agreed /\ Settling) /\ [Next]_vars
        => (OInv /\ (~lost => Agreed /\ Settling))'
  BY NextKeeps, NextLine, NextAgrees, NextSettles, LostStays DEF OInv, AInv, WInv
<1> QED  BY <1>1, <1>2, PTL DEF Spec

\* Nobody waits on, or goes to wait on, a template that is not the wanted one:
\* a fence for the node plugins is given back only when it has been published,
\* and what is edited after the last list has not been seen.
Rolling ==
    /\ pc = "verify" => goal = "switch"
    /\ (pc = "watch" \/ (pc \in {"resume", "rollout"} /\ Gated)) /\ unseen = {} => ~Outdated

LEMMA WatchRolls ==
    ASSUME IInv, Rolling, UNCHANGED nodes,
           \/ Boot \/ ScaleDown \/ FencedList \/ GateTimeout \/ Stable \/ Unwatched \/ Resume
           \/ RolledOut \/ Relist \/ Place \/ Tombstone
    PROVE  Rolling'
<1>1. CASE Exit
  BY <1>1 DEF Exit, Goto, Rolling
<1>2. CASE Adopt(Current)
  <2>1. pc' \in {"planned", "add", "drain"}
    BY <1>2, CurrentTyped DEF Adopt, Goto, IInv
  <2> QED  BY <2>1 DEF Rolling
<1>3. CASE Boot \/ ScaleDown \/ Place
  BY <1>3 DEF Boot, ScaleDown, Place, Fence, Goto, Rolling
<1>4. CASE Stable /\ ~Outdated /\ pc' \in {"watch", "resume"}
  BY <1>4 DEF Stable, Goto, Rolling, Outdated
<1>5. CASE Unwatched
  BY <1>5 DEF Unwatched, Misplaced, Goto, Rolling, Outdated, Gated, crVars
<1>6. CASE Resume \/ RolledOut
  BY <1>6 DEF Resume, RolledOut, Exit, Goto, Rolling, Outdated, Gated, crVars
<1>7. CASE Tombstone /\ ~Exit
  BY <1>7 DEF Tombstone, Rolling, Outdated, Gated, crVars
<1> QED
  BY <1>1, <1>2, <1>3, <1>4, <1>5, <1>6, <1>7 DEF FencedList, ListOnly, List, GateTimeout, Stable,
     Relist, Goto

LEMMA AddedRolls ==
    ASSUME IInv, Rolling, UNCHANGED nodes,
           \/ HandleAdded \/ RetainFirst \/ WriteRecord \/ DeleteAfter \/ DeployClass \/ RenewClass
           \/ AlignPolicy \/ DeployServers \/ SwitchRead \/ Verify
    PROVE  Rolling'
<1>1. CASE Exit
  BY <1>1 DEF Exit, Goto, Rolling
<1>2. CASE HandleAdded /\ ~Exit
  BY <1>2 DEF HandleAdded, Fence, FirstStep, Goto, Rolling
<1>3. CASE WriteRecord /\ ~Exit
  BY <1>3 DEF WriteRecord, Goto, Rolling
<1>4. CASE RetainFirst \/ DeleteAfter \/ AlignPolicy \/ DeployClass \/ RenewClass
  BY <1>4 DEF RetainFirst, DeleteAfter, AlignPolicy, Aligned, DeployClass, RenewClass, Step, Goto, Rolling
<1>5. CASE DeployServers
  BY <1>5 DEF DeployServers, Goto, Holding, Rolling
<1>6. CASE (SwitchRead \/ Verify) /\ ~Exit
  BY <1>6 DEF SwitchRead, Verify, Goto, Rolling, Gated
<1> QED  BY <1>1, <1>2, <1>3, <1>4, <1>5, <1>6

\* A deletion gives back a fence of its own.
LEMMA DeletedRolls ==
    ASSUME IInv, Rolling, UNCHANGED nodes,
           \/ HandleDeleted \/ DrainFenced \/ SealLegacy \/ DropClass \/ DisableProvisioning
           \/ RetireClass \/ CountVolumes \/ Dismantle \/ EraseRecord
    PROVE  Rolling'
<1>1. CASE Raise
  BY <1>1 DEF Raise, Exit, Goto, Rolling, Gated
<1>2. CASE Handled
  BY <1>2 DEF Handled, Goto, Rolling, Gated
<1>3. CASE HandleDeleted \/ DrainFenced
  BY <1>3 DEF HandleDeleted, DrainFenced, Behind, Proceed, Fence, Goto, Rolling
<1>4. CASE SealLegacy /\ ~Raise
  BY <1>4 DEF SealLegacy, Goto, Rolling, Gated
<1>5. CASE DisableProvisioning /\ ~Raise /\ ~Handled
  BY <1>5 DEF DisableProvisioning, Goto, Rolling
<1> QED
  BY <1>1, <1>2, <1>3, <1>4, <1>5 DEF DropClass, RetireClass, CountVolumes, Dismantle, EraseRecord,
     Proceed, Goto, Rolling

LEMMA NextRolls ==
    ASSUME IInv, Rolling, [Next]_vars  PROVE Rolling'
<1>1. CASE Operator
  <2>1. CASE GateNodes
    BY <2>1 DEF GateNodes, Exit, Goto, Rolling
  <2> QED  BY <1>1, <2>1, WatchRolls, AddedRolls, DeletedRolls DEF Operator
<1>2. CASE Fault
  BY <1>2 DEF Fault, Crash, Fail, Raise, Exit, Goto, Rolling, Gated
<1>3. ASSUME Operators \/ UNCHANGED opVars, UNCHANGED <<nodes, unseen>> \/ unseen' # {} \/ nodes' # "old"
      PROVE  Rolling'
  BY <1>3 DEF Operators, opVars, Rolling, Outdated, Gated
<1>4. CASE Administrator
  BY <1>3, <1>4 DEF Administrator, CreateCR, EditCR, MarkCR, DeleteCR, LoseRecord, Edit, crVars
<1>5. CASE Provisioner \/ CsiStop \/ CsiStart
  BY <1>3, <1>5 DEF Provisioner, Ask, Intend, Make, Provide, Reclaimed, Provisioning, CsiStop,
     CsiStart, crVars
<1>6. CASE Displace \/ Rotate
  BY <1>3, <1>6 DEF Displace, Rotate
<1>7. CASE UNCHANGED vars
  BY <1>3, <1>7 DEF vars, crVars
<1> QED  BY <1>1, <1>2, <1>4, <1>5, <1>6, <1>7 DEF Next

LEMMA RollingHolds == Spec => []Rolling
<1>1. Init => Rolling  BY DEF Init, Rolling
<1>2. IInv /\ Rolling /\ [Next]_vars => Rolling'  BY NextRolls
<1> QED  BY <1>1, <1>2, Inductive, PTL DEF Spec

(***************************************************************************)
(* When the operator waits for events and none is pending, the cluster is  *)
(* what the resource asks for, the node plugins' template is the wanted    *)
(* one and the provisioner has been given back                             *)
(* (reconcile_watch_storage_until_stable), after any history of edits,     *)
(* deletions, re-creations, failed calls and restarts in which nobody has  *)
(* removed the pool's record.                                              *)
(***************************************************************************)
THEOREM WaitsReconciled == Spec => []WatchReconciled
<1>1. ASSUME OInv, Agreed, Settling, pc = "watch", event = NoUid, unseen = {}
      PROVE  Settled /\ ready /\ replicas = 1
  <2>1. goal = "none" /\ ready /\ replicas = 1
    BY <1>1 DEF Agreed, Course, Settling, Ready, Outside, OInv, IInv, Serving, ReadyMeansServing
  <2>2. CASE plan.kind = "add"
    <3>1. Placed(cr)  BY <1>1, <2>2 DEF Settling, Carried
    <3> QED  BY <2>1, <2>2, <3>1 DEF Settled, Placed
  <2>3. CASE plan.kind = "drain"
    <3>1. record # NoRecord /\ record.state # "open" /\ servers # 0
      BY <1>1, <2>3 DEF Settling, Carried, Confirmed
    <3>2. Blocked(record)
      <4>1. record.state \in {"none", "open", "cleanup", "quarantined"}
        BY <1>1 DEF OInv, IInv, TypeOK, Records
      <4> QED  BY <1>1, <3>1, <4>1 DEF Agreed, Recorded, Blocked
    <3> QED  BY <2>1, <2>3, <3>1, <3>2 DEF Settled
  <2>4. CASE plan.kind = "none"
    <3>1. record = NoRecord  BY <1>1, <2>4 DEF Settling, Carried
    <3> QED  BY <1>1, <2>1, <2>4, <3>1 DEF Settled, Agreed, Recorded, Nowhere
  <2>5. plan.kind \in {"none", "add", "drain"}
    BY <1>1 DEF OInv, IInv, TypeOK, OperatorTyped
  <2> QED  BY <2>2, <2>3, <2>4, <2>5
<1>2. OInv /\ (~lost => Agreed /\ Settling) /\ Rolling => WatchReconciled
  BY <1>1 DEF WatchReconciled, Rolling
<1> QED  BY <1>2, SettlingHolds, RollingHolds, PTL
=============================================================================
