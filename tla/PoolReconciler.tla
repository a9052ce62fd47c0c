--------------------------- MODULE PoolReconciler ---------------------------
(***************************************************************************)
(* The operator's life with one storage pool: it lists the custom resource *)
(* of the pool, plans, reconciles the plan under or outside the fence of   *)
(* the CSI provisioner, watches for more, and starts over after a crash.   *)
(* Every step is one call that changes, or decides on, something another   *)
(* process also touches: administrators, the provisioner and the kubelet   *)
(* act between any two of them.                                            *)
(***************************************************************************)
EXTENDS Integers, FiniteSets

CONSTANTS Volumes,      \* volumes that may be asked for
          Incarnations, \* BOUND: how often a custom resource is created
          MaxTrouble    \* BOUND: crashes, failing calls, edits and losses together

ASSUME ReconcilerAssumption == Incarnations \in Nat \ {0} /\ MaxTrouble \in Nat

VARIABLES cr,       \* the custom resource of the pool
          unseen,   \* events after the operator's last list: 0, or the UID deleted
          record,   \* the pool's entry in the ConfigMap
          class,    \* the generated StorageClass
          servers,  \* volume_id the server pods run with, or 0
          vol,      \* each volume, from its create intent to its PersistentVolume
          custom,   \* those asked for through an administrator's own class
          asked,    \* reclaim policy a create in flight has read from its class
          replicas, up,  \* the provisioner: desired, and running
          nodes,    \* the node plugins: on the wanted template, on their way to it, or not
          ready,    \* the operator's readiness marker
          pc, goal, plan, work, event,   \* the operator
          born, trouble, lost   \* what has happened so far

poolVars == <<record, class, servers>>
volVars  == <<vol, custom, asked>>
csiVars  == <<replicas, up>>
opVars   == <<pc, goal, plan, work, event>>
crVars   == <<cr, unseen, born>>
vars     == <<crVars, poolVars, volVars, csiVars, nodes, ready, opVars, trouble, lost>>

-----------------------------------------------------------------------------
NoUid    == 0           \* a record or class of a release without UIDs
Original == 1           \* the custom resource such a record was made for
Cleanup  == -1          \* owner given to an orphan whose resource is gone
Uids     == 1..Incarnations
Ids      == 1..2
Policies == {"delete", "retain"}

NoCR     == [phase |-> "none", uid |-> NoUid, policy |-> "delete"]
NoRecord == [state |-> "none", uid |-> NoUid, policy |-> "delete", id |-> 0]
NoClass  == [policy |-> "none", uid |-> NoUid, id |-> 0]
NoPlan   == [kind |-> "none", cr |-> NoCR, record |-> NoRecord, seal |-> "no", stuck |-> FALSE]
NoWork   == [cr |-> NoCR, id |-> 0, base |-> NoRecord]

CRs     == [phase : {"none", "live", "deleting"}, uid : Uids \cup {NoUid}, policy : Policies]
Records == [state : {"none", "open", "cleanup", "quarantined"},
            uid : Uids \cup {NoUid, Cleanup}, policy : Policies, id : Ids \cup {0}]
Classes == [policy : {"none", "Delete", "Retain"}, uid : Uids \cup {NoUid}, id : Ids \cup {0}]

Reclaim(policy) == IF policy = "retain" THEN "Retain" ELSE "Delete"
IsPV(v)         == vol[v] \in {"Delete", "Retain"}
HasPVs          == \E v \in Volumes : IsPV(v)
Live            == cr.phase = "live"

OperatorTyped ==
    /\ pc \in {"down", "fence", "quiesce", "nodes", "add", "retain", "write", "delete", "class",
               "renew", "align", "serve", "verify", "drain", "seal", "reread", "retire",
               "count", "dismantle", "erase", "planned", "resume", "rollout", "watch", "gone"}
    /\ goal \in {"none", "boot", "place", "switch", "drain", "leave"}
    /\ plan \in [kind : {"none", "add", "drain"}, cr : CRs, record : Records,
                 seal : {"no", "claim", "quarantine"}, stuck : BOOLEAN]
    /\ work \in [cr : CRs, id : Ids \cup {0}, base : Records]
    /\ event \in Uids \cup {NoUid}
TypeOK ==
    /\ cr \in CRs /\ unseen \subseteq (Uids \cup {0}) /\ born \in 0..Incarnations
    /\ record \in Records /\ class \in Classes /\ servers \in Ids \cup {0}
    /\ vol \in [Volumes -> {"none", "intent", "made", "Delete", "Retain", "gone"}]
    /\ custom \subseteq Volumes
    /\ asked \in [Volumes -> {"idle", "Delete", "Retain"}]
    /\ replicas \in {0, 1} /\ up \in BOOLEAN /\ ready \in BOOLEAN
    /\ nodes \in {"current", "behind", "old"}
    /\ trouble \in 0..MaxTrouble /\ lost \in BOOLEAN
    /\ OperatorTyped

-----------------------------------------------------------------------------
(***************************************************************************)
(* Ownership.  A record belongs to the resource whose UID it stores; one   *)
(* without a UID to the resource older than all that is retained.  A class *)
(* without annotations is anybody's, any other its owner's.                *)
(***************************************************************************)
Blocked(r)     == r.state \in {"cleanup", "quarantined"}
Predates(c)    == c.uid = Original \/ (servers = 0 /\ ~HasPVs)
OwnsRecord(c, r) == r.uid = c.uid \/ (r.uid = NoUid /\ Predates(c))
OwnsClass(uid, id) == \/ class.uid = NoUid
                      \/ uid \in {NoUid, class.uid} /\ id \in {0, class.id}
LegacyClass    == class # NoClass /\ class.uid = NoUid
Prospective(c, r) == IF r.uid = NoUid THEN c.uid ELSE r.uid

(***************************************************************************)
(* prepare_storage_upgrade for this pool: what a list of the resource and  *)
(* the record call for, or a refusal that stops the operator.  A resource  *)
(* whose name is blocked by a deletion is set aside.                       *)
(***************************************************************************)
Observed == IF Blocked(record) THEN NoCR ELSE cr
Kind == IF Observed.phase = "live" THEN "add"
        ELSE IF record # NoRecord THEN "drain" ELSE "none"
Seal == IF record.state = "quarantined" THEN "quarantine"
        ELSE IF Kind # "drain" \/ record.uid # NoUid THEN "no"
        ELSE IF LegacyClass THEN "claim" ELSE "quarantine"
Refuses ==
    \/ /\ Kind = "add"
       /\ \/ record = NoRecord /\ ~OwnsClass(cr.uid, 0)
          \/ record # NoRecord /\ ~(/\ OwnsRecord(cr, record)
                                    /\ OwnsClass(Prospective(cr, record), record.id))
    \/ /\ Kind = "drain" /\ record.state = "open"
       /\ \/ Observed.phase = "deleting" /\ ~OwnsRecord(cr, record)
          \/ record.uid # NoUid /\ ~OwnsClass(record.uid, record.id)
Current == [kind   |-> Kind, cr |-> cr, seal |-> Seal,
            record |-> IF Kind = "drain" THEN record ELSE NoRecord,
            stuck  |-> record.state = "cleanup" /\ ~OwnsClass(record.uid, record.id)]

-----------------------------------------------------------------------------
Goto(step) == pc' = step
Exit == /\ Goto("down") /\ goal' = "none" /\ plan' = NoPlan /\ work' = NoWork
        /\ event' = NoUid /\ ready' = FALSE

\* Faulty: the operator stays ready while it takes the fence.
Fence_Ready(g) == UNCHANGED ready /\ goal' = g /\ Goto("fence")

\* Readiness falls before the provisioner is scaled down.
Fence(g) == ready' = FALSE /\ goal' = g /\ Goto("fence")

\* A new plan, and where its reconciliation begins.
Adopt(p) == /\ plan' = p
            /\ work' = [NoWork EXCEPT !.cr = IF p.kind = "add" THEN p.cr ELSE NoCR]
            /\ Goto(IF p.kind = "none" THEN "planned" ELSE p.kind)
List == /\ unseen' = {}
        /\ IF Refuses THEN Exit
                      ELSE Adopt(Current) /\ UNCHANGED <<goal, event, ready>>
ListOnly == List /\ UNCHANGED <<cr, born, poolVars, volVars, csiVars>>

(***************************************************************************)
(* Start, restart and watch.                                               *)
(***************************************************************************)
\* The first plan is made before the fence is taken, and made again behind it.
Boot == /\ pc = "down" /\ ~Refuses
        /\ replicas' = 0 /\ goal' = "boot" /\ Goto("quiesce")
        /\ UNCHANGED <<plan, work, event, ready, up, poolVars, volVars, crVars>>

ScaleDown == /\ pc = "fence"
             /\ replicas' = 0 /\ Goto("quiesce")
             /\ UNCHANGED <<goal, plan, work, event, ready, up, poolVars, volVars, crVars>>

(***************************************************************************)
(* The node plugins.  Their template carries the tolerations of all pools; *)
(* its pods are replaced only when somebody drains the node and deletes    *)
(* them (OnDelete).  A start, and a plan that asks for another template,   *)
(* publish it behind the fence and hold the fence until every node has it, *)
(* then list again.  Who waits too long gives up, the fence stays down.    *)
(* A template edited during the wait is published without the rest of it.  *)
(***************************************************************************)
Gated     == goal \in {"boot", "place"}
Outdated  == nodes = "old"
\* Faulty: every start replaces the pods once more.
Published_Again == "behind"

Published == IF Outdated THEN "behind" ELSE nodes
\* The first placement of a plan is published without another list.
Unlisted  == pc = "quiesce" /\ goal = "place"
GateNodes == /\ Gated
             /\ \/ pc = "quiesce" /\ ~up
                \/ pc \in {"nodes", "planned"} /\ Outdated
             /\ IF Refuses /\ ~Unlisted
                  THEN Exit /\ UNCHANGED nodes
                  ELSE /\ Goto("nodes") /\ nodes' = Published
                       /\ UNCHANGED <<goal, plan, work, event, ready>>
             /\ UNCHANGED <<poolVars, volVars, csiVars, crVars>>

FencedList == /\ pc = "nodes" /\ nodes = "current"
              /\ ListOnly

GateTimeout == /\ pc = "nodes" /\ nodes # "current"
               /\ Exit
               /\ UNCHANGED <<poolVars, volVars, csiVars, crVars>>

\* A plan made outside the fence is not carried out before its placement; an
\* edit that came after its list is not seen.
Misplaced == goal = "none" /\ Outdated /\ unseen = {}
Place == /\ goal = "none" /\ nodes # "current"
         /\ pc \in {"add", "drain"} \/ (pc = "planned" /\ plan.kind = "none")
         /\ Fence("place")
         /\ UNCHANGED <<plan, work, event, poolVars, volVars, csiVars, crVars>>

\* Two plans must agree before a fenced reconciliation is over, or one that
\* has something to drain.
Stable == /\ pc = "planned"
          /\ goal # "none" \/ plan.kind = "drain"
          /\ Gated => ~Outdated    \* else GateNodes
          /\ unseen' = {}
          /\ IF Refuses THEN Exit
             ELSE IF Current = plan /\ ~Outdated
               THEN /\ Goto(IF goal = "none" THEN "watch" ELSE "resume")
                    /\ UNCHANGED <<goal, plan, work, event, ready>>
               ELSE Adopt(Current) /\ UNCHANGED <<goal, event, ready>>
          /\ UNCHANGED <<cr, born, poolVars, volVars, csiVars>>
Unwatched == /\ pc = "planned" /\ goal = "none" /\ plan.kind # "drain" /\ ~Misplaced
             /\ Goto("watch")
             /\ UNCHANGED <<goal, plan, work, event, ready, poolVars, volVars, csiVars, crVars>>

Resume == /\ pc = "resume"
          /\ replicas' = 1 /\ Goto("rollout")
          /\ UNCHANGED <<goal, plan, work, event, ready, up, poolVars, volVars, crVars>>

\* A deletion that failed behind its tombstone resumes without readiness.
RolledOut == /\ pc = "rollout" /\ up
             /\ IF goal = "leave" THEN Exit
                ELSE /\ ready' = TRUE /\ goal' = "none"
                     /\ Goto(IF goal \in {"boot", "place"} THEN "watch" ELSE "planned")
                     /\ UNCHANGED <<plan, work, event>>
             /\ UNCHANGED <<poolVars, volVars, csiVars, crVars>>

\* The stream ends, or brings an event: either way the resource is listed again.
Relist == /\ pc = "watch" /\ event = NoUid
          /\ unseen' = {}
          /\ IF Refuses THEN Exit
             ELSE /\ \E e \in {NoUid} \cup (unseen \ {0}) :
                       event' = IF Blocked(record) THEN NoUid ELSE e
                  /\ Adopt(Current)
                  /\ UNCHANGED <<goal, ready>>
          /\ UNCHANGED <<cr, born, poolVars, volVars, csiVars>>

\* Faulty: the event is handled as it comes.
Tombstone_Eager == /\ pc = "watch" /\ event # NoUid
                   /\ class' = NoClass /\ event' = NoUid
                   /\ UNCHANGED <<ready, pc, goal, plan, work, record, servers,
                                  volVars, csiVars, crVars>>

\* After the plan of a DELETED event: only if nothing else carries the name.
Tombstone == /\ pc = "watch" /\ event # NoUid
             /\ IF plan.cr # NoCR \/ plan.kind = "drain" \/ record # NoRecord
                  THEN event' = NoUid /\ UNCHANGED <<class, ready, pc, goal, plan, work>>
                ELSE IF class = NoClass \/ class.uid = event
                  THEN /\ class' = NoClass /\ event' = NoUid
                       /\ UNCHANGED <<ready, pc, goal, plan, work>>
                  ELSE Exit /\ UNCHANGED class
             /\ UNCHANGED <<record, servers, volVars, csiVars, crVars>>

-----------------------------------------------------------------------------
(***************************************************************************)
(* handle_added and handle_modified.  A pool without a record is rebuilt   *)
(* from what is retained of it or not at all.                              *)
(***************************************************************************)
Step(here, next) == pc = here /\ Goto(next)
Holding == UNCHANGED <<goal, plan, event, ready, volVars, csiVars, crVars>>

Recoverable(c) == /\ OwnsClass(c.uid, 0)
                  /\ servers # 0 => class # NoClass /\ class.uid = c.uid
                  /\ class # NoClass \/ HasPVs => servers # 0
                  /\ HasPVs => class.id # 0
                  /\ class.id \in {0, servers}
\* The identity of a pool without a record: that of its servers, else a new one.
Identity == IF servers # 0 THEN servers ELSE CHOOSE i \in Ids : i # servers

Accepts(c) == IF record = NoRecord THEN Recoverable(c)
              ELSE OwnsRecord(c, record) /\ OwnsClass(Prospective(c, record), record.id)

\* A policy that differs from the record's is changed under a fence.
Switches(c) == goal = "none" /\ record # NoRecord /\ record.policy # c.policy

\* Faulty: the record is written before the volumes are retained.
FirstStep_Write(c) == "write"

FirstStep(c) == IF Reclaim(c.policy) = "Retain" THEN "retain" ELSE "write"

HandleAdded ==
    /\ pc = "add" /\ ~Misplaced
    /\ IF ~Accepts(work.cr) THEN Exit
       ELSE IF Switches(work.cr)
         THEN /\ Fence("switch")
              /\ UNCHANGED <<plan, work, event>>
         ELSE /\ work' = [work EXCEPT !.base = record,
                              !.id = IF record = NoRecord THEN Identity ELSE record.id]
              /\ Goto(FirstStep(work.cr))
              /\ UNCHANGED <<goal, plan, event, ready>>
    /\ UNCHANGED <<poolVars, volVars, csiVars, crVars>>

\* The policy of every PersistentVolume of the pool; a failing call may have
\* reached only some of them.
Align(S) == vol' = [v \in Volumes |-> IF v \in S /\ IsPV(v) THEN Reclaim(work.cr.policy)
                                      ELSE vol[v]]
Aligned(next) == /\ Align(Volumes) /\ Goto(next)
                 /\ UNCHANGED <<goal, plan, work, event, ready, custom, asked, csiVars, crVars, poolVars>>
RetainFirst  == pc = "retain" /\ Aligned("write")
DeleteAfter  == pc = "delete" /\ Aligned("class")
AlignPolicy  == pc = "align" /\ Aligned("serve")

\* The ConfigMap is patched at the version that was read.
WriteRecord ==
    /\ pc = "write"
    /\ IF record # work.base THEN Exit /\ UNCHANGED record
       ELSE /\ record' = [state |-> "open", uid |-> work.cr.uid,
                          policy |-> work.cr.policy, id |-> work.id]
            /\ Goto(IF Reclaim(work.cr.policy) = "Delete" THEN "delete" ELSE "class")
            /\ UNCHANGED <<goal, plan, work, event, ready>>
    /\ UNCHANGED <<class, servers, volVars, csiVars, crVars>>

\* Faulty: the policy of the resource is written into the class as it is.
ClassOf_Raw(w) == [policy |-> w.cr.policy, uid |-> w.cr.uid, id |-> w.id]

\* A class is immutable: another policy or owner replaces it.
ClassOf(w)   == [policy |-> Reclaim(w.cr.policy), uid |-> w.cr.uid, id |-> w.id]
\* Faulty: a class that is there is kept.
DeployClass_Kept == /\ pc = "class"
                    /\ class' = IF class = NoClass THEN ClassOf(work) ELSE class
                    /\ Goto("align")
                    /\ UNCHANGED <<record, servers, work>> /\ Holding

DeployClass  == /\ pc = "class"
                /\ class' = IF class = NoClass THEN ClassOf(work)
                            ELSE IF class = ClassOf(work) THEN class ELSE NoClass
                /\ Goto(IF class \in {NoClass, ClassOf(work)} THEN "align" ELSE "renew")
                /\ UNCHANGED <<record, servers, work>> /\ Holding
RenewClass   == /\ Step("renew", "align")
                /\ class' = ClassOf(work)
                /\ UNCHANGED <<record, servers, work>> /\ Holding
DeployServers == /\ pc = "serve" /\ Goto(IF goal = "switch" THEN "verify" ELSE "planned")
                 /\ servers' = work.id
                 /\ work' = IF goal = "switch" THEN [NoWork EXCEPT !.cr = work.cr] ELSE NoWork
                 /\ UNCHANGED <<record, class>> /\ Holding

(***************************************************************************)
(* The fenced change of policy: the resource is read again behind the      *)
(* fence, and once more when record, class and volumes agree with it.      *)
(***************************************************************************)
Same(c) == cr.phase = "live" /\ cr.uid = c.uid
SwitchRead ==
    /\ pc = "quiesce" /\ ~up /\ goal = "switch"
    /\ IF Same(work.cr)
         THEN /\ work' = [work EXCEPT !.cr = cr] /\ Goto("add")
              /\ UNCHANGED <<goal, plan, event, ready>>
         ELSE Exit
    /\ UNCHANGED <<poolVars, volVars, csiVars, crVars>>

Consistent(c) == /\ record # NoRecord /\ OwnsRecord(c, record) /\ record.policy = c.policy
                 /\ class = [policy |-> Reclaim(c.policy), uid |-> record.uid, id |-> record.id]
                 /\ \A v \in Volumes : IsPV(v) => vol[v] = Reclaim(c.policy)
Verify ==
    /\ pc = "verify"
    /\ IF ~Consistent(work.cr) \/ ~Same(work.cr) THEN Exit
       ELSE /\ IF cr = work.cr THEN Goto("resume") /\ work' = NoWork
                               ELSE Goto("add") /\ work' = [NoWork EXCEPT !.cr = cr]
            /\ UNCHANGED <<goal, plan, event, ready>>
    /\ UNCHANGED <<poolVars, volVars, csiVars, crVars>>

-----------------------------------------------------------------------------
(***************************************************************************)
(* handle_deleted.  The record is tombstoned behind the fence before the   *)
(* PersistentVolumes are counted; servers and record go only at zero.      *)
(***************************************************************************)
ObjUid == IF plan.cr.phase = "deleting" /\ ~Blocked(plan.record) THEN plan.cr.uid ELSE NoUid

\* A failing deletion gives its fence back once the record cannot admit volumes.
Safe  == \/ pc \in {"seal", "retire", "count", "dismantle", "erase"}
         \/ pc = "reread" /\ (plan.seal # "no" \/ record = NoRecord)
Raise == IF goal = "drain" /\ Safe
           THEN /\ goal' = "leave" /\ Goto("resume")
                /\ plan' = NoPlan /\ work' = NoWork
                /\ UNCHANGED <<event, ready>>
           ELSE Exit
Handled == /\ Goto(IF goal = "drain" THEN "resume" ELSE "planned")
           /\ work' = NoWork
           /\ UNCHANGED <<goal, plan, event, ready>>
Proceed(next) == Goto(next) /\ UNCHANGED <<goal, plan, work, event, ready>>

\* Faulty: a pool that was tombstoned is never taken up again.
Waits_Forever == plan.record.state \in {"cleanup", "quarantined"} /\ goal = "none"

\* Nothing is fenced for a pool that still drains.
Waits == \/ plan.record.state = "quarantined"
         \/ /\ goal = "none" /\ plan.record.state = "cleanup"
            /\ record = NoRecord \/ plan.stuck \/ HasPVs
Behind == IF plan.seal = "no" THEN "reread" ELSE "seal"
HandleDeleted ==
    /\ pc = "drain" /\ ~Misplaced
    /\ work' = IF Waits THEN NoWork ELSE [NoWork EXCEPT !.base = plan.record]
    /\ IF Waits THEN Goto("planned") /\ UNCHANGED <<goal, ready>>
       ELSE IF goal = "none" THEN Fence("drain")
       ELSE Goto(Behind) /\ UNCHANGED <<goal, ready>>
    /\ UNCHANGED <<plan, event, poolVars, volVars, csiVars, crVars>>
\* Faulty: the provisioner is scaled down, but not waited for.
DrainFenced_Early == /\ pc = "quiesce" /\ goal = "drain"
                     /\ Proceed(Behind)
                     /\ UNCHANGED <<poolVars, volVars, csiVars, crVars>>

DrainFenced == /\ pc = "quiesce" /\ ~up /\ goal = "drain"
               /\ Proceed(Behind)
               /\ UNCHANGED <<poolVars, volVars, csiVars, crVars>>

\* A record without a UID is claimed for the deletion, or only blocked.
Sealable == /\ record = work.base
            /\ ObjUid # NoUid => /\ cr.phase # "none"
                                 /\ cr.uid = ObjUid => cr.phase = "deleting" /\ OwnsRecord(cr, record)
Claimed  == plan.seal = "claim" /\ LegacyClass
Sealed   == IF ~Claimed THEN [record EXCEPT !.state = "quarantined"]
            ELSE [record EXCEPT !.state = "cleanup",
                                !.uid = IF ObjUid = NoUid THEN Cleanup ELSE ObjUid]
SealLegacy == /\ pc = "seal"
              /\ IF ~Sealable THEN Raise /\ UNCHANGED record
                 ELSE /\ record' = Sealed
                      /\ work' = IF Claimed THEN [work EXCEPT !.base = Sealed] ELSE NoWork
                      /\ Goto(IF Claimed THEN "reread"
                              ELSE IF goal = "drain" THEN "resume" ELSE "planned")
                      /\ UNCHANGED <<goal, plan, event, ready>>
              /\ UNCHANGED <<class, servers, volVars, csiVars, crVars>>

\* The record is gone: a class is removed only by the UID it is annotated with.
Leftover == IF ObjUid # NoUid THEN ObjUid ELSE work.base.uid
DropClass == /\ pc = "reread" /\ record = NoRecord
             /\ IF class = NoClass \/ (class.uid # NoUid /\ class.uid = Leftover)
                  THEN class' = NoClass /\ Handled
                  ELSE Raise /\ UNCHANGED class
             /\ UNCHANGED <<record, servers, volVars, csiVars, crVars>>
DisableProvisioning ==
    /\ pc = "reread" /\ record # NoRecord
    /\ IF record # work.base THEN Raise /\ UNCHANGED record
       ELSE IF plan.stuck THEN Handled /\ UNCHANGED record
       ELSE /\ record' = [record EXCEPT !.state = "cleanup"]
            /\ work' = [work EXCEPT !.base = record']
            /\ Goto("retire") /\ UNCHANGED <<goal, plan, event, ready>>
    /\ UNCHANGED <<class, servers, volVars, csiVars, crVars>>
RetireClass == /\ pc = "retire"
               /\ IF OwnsClass(work.base.uid, work.base.id)
                    THEN class' = NoClass /\ Proceed("count")
                    ELSE Handled /\ UNCHANGED class
               /\ UNCHANGED <<record, servers, volVars, csiVars, crVars>>
CountVolumes == /\ pc = "count"
                /\ IF HasPVs \/ record = NoRecord THEN Handled
                   ELSE IF record # work.base THEN Raise ELSE Proceed("dismantle")
                /\ UNCHANGED <<poolVars, volVars, csiVars, crVars>>
Dismantle == /\ pc = "dismantle"
             /\ servers' = 0
             /\ vol' = [v \in Volumes |-> IF vol[v] \in {"intent", "made"} THEN "none" ELSE vol[v]]
             /\ Proceed("erase")
             /\ UNCHANGED <<record, class, custom, asked, csiVars, crVars>>
EraseRecord == /\ pc = "erase"
               /\ IF record = work.base THEN record' = NoRecord /\ Handled
                                        ELSE Raise /\ UNCHANGED record
               /\ UNCHANGED <<class, servers, volVars, csiVars, crVars>>

-----------------------------------------------------------------------------
(***************************************************************************)
(* The operator dies, or one of its calls fails.  A fence that was being   *)
(* given back at run time is taken again, that of a start is not.          *)
(***************************************************************************)
HalfAligned == IF pc \in {"retain", "delete", "align"}
                 THEN \E S \in SUBSET Volumes : Align(S) ELSE UNCHANGED vol
Crash == /\ pc # "down" /\ Exit /\ HalfAligned
         /\ UNCHANGED <<custom, asked, csiVars>>
Fail  == /\ pc \notin {"down", "watch"}
         /\ IF pc \in {"resume", "rollout"}
              THEN Exit /\ replicas' = IF goal = "boot" THEN replicas ELSE 0
              ELSE Raise /\ UNCHANGED replicas
         /\ UNCHANGED <<up, volVars>>
Trouble == trouble < MaxTrouble /\ trouble' = trouble + 1
Fault == /\ Trouble
         /\ Crash \/ Fail
         /\ UNCHANGED <<crVars, poolVars, nodes, lost>>

Operator ==
    /\ \/ GateNodes
       \/ /\ \/ Boot \/ ScaleDown \/ FencedList \/ GateTimeout \/ Stable \/ Unwatched
             \/ Resume \/ RolledOut \/ Relist \/ Place \/ Tombstone
             \/ HandleAdded \/ RetainFirst \/ WriteRecord \/ DeleteAfter \/ DeployClass
             \/ RenewClass \/ AlignPolicy \/ DeployServers \/ SwitchRead \/ Verify
             \/ HandleDeleted \/ DrainFenced \/ SealLegacy \/ DropClass \/ DisableProvisioning
             \/ RetireClass \/ CountVolumes \/ Dismantle \/ EraseRecord
          /\ UNCHANGED nodes
    /\ UNCHANGED <<trouble, lost>>

-----------------------------------------------------------------------------
(***************************************************************************)
(* Administrators, the provisioner and the kubelet.                        *)
(***************************************************************************)
Operators == UNCHANGED <<ready, opVars>>
Edit(new, seen) == /\ cr' = new /\ unseen' = unseen \cup {seen}
                   /\ UNCHANGED <<poolVars, volVars, csiVars, nodes, lost>> /\ Operators
CreateCR == /\ cr = NoCR /\ born < Incarnations /\ born' = born + 1
            /\ \E p \in Policies : Edit([phase |-> "live", uid |-> born + 1, policy |-> p], 0)
            /\ UNCHANGED trouble
EditCR   == /\ Live /\ Trouble
            /\ \E p \in Policies \ {cr.policy} : Edit([cr EXCEPT !.policy = p], 0)
            /\ UNCHANGED born
MarkCR   == Live /\ Edit([cr EXCEPT !.phase = "deleting"], 0) /\ UNCHANGED <<born, trouble>>
DeleteCR == cr # NoCR /\ Edit(NoCR, cr.uid) /\ UNCHANGED <<born, trouble>>
LoseRecord == /\ Trouble /\ ~lost /\ lost' = TRUE /\ record # NoRecord /\ record' = NoRecord
              /\ UNCHANGED <<crVars, class, servers, volVars, csiVars, nodes>> /\ Operators

\* Tolerations of any pool are edited, or a node plugin is not there any more.
Displace == /\ Trouble
            /\ \/ nodes' = "old" /\ unseen' = unseen \cup {0}
               \/ nodes = "current" /\ nodes' = "behind" /\ UNCHANGED unseen
            /\ UNCHANGED <<cr, born, poolVars, volVars, csiVars, lost>> /\ Operators
\* Every node has been drained, and its node plugin replaced.
Rotate == /\ nodes = "behind" /\ nodes' = "current"
          /\ UNCHANGED <<crVars, poolVars, volVars, csiVars, trouble, lost>> /\ Operators

Provisioning == UNCHANGED <<crVars, poolVars, csiVars, nodes, custom, trouble, lost>> /\ Operators
\* The provisioner sidecar reads the policy of the class and calls the controller.
Ask(v) == /\ up /\ asked[v] = "idle" /\ vol[v] \in {"none", "intent", "made"}
          /\ v \in custom \/ class # NoClass
          /\ asked' = [asked EXCEPT ![v] = IF v \in custom THEN "Delete" ELSE class.policy]
          /\ UNCHANGED vol /\ Provisioning
\* A tombstone blocks fresh placement only; an intent is still completed.
Intend(v) == /\ up /\ asked[v] # "idle" /\ vol[v] = "none"
             /\ record.state = "open" /\ servers # 0
             /\ vol' = [vol EXCEPT ![v] = "intent"]
             /\ UNCHANGED asked /\ Provisioning
Make(v)   == /\ up /\ asked[v] # "idle" /\ vol[v] = "intent"
             /\ record # NoRecord /\ servers # 0
             /\ vol' = [vol EXCEPT ![v] = "made"]
             /\ UNCHANGED asked /\ Provisioning
Provide(v) == /\ up /\ asked[v] # "idle" /\ vol[v] = "made"
              /\ vol' = [vol EXCEPT ![v] = asked[v]]
              /\ asked' = [asked EXCEPT ![v] = "idle"]
              /\ Provisioning
Reclaimed(v) == /\ IsPV(v) /\ (up \/ vol[v] = "Retain")
                /\ vol' = [vol EXCEPT ![v] = "gone"]
                /\ UNCHANGED asked /\ Provisioning

CsiStop  == /\ up /\ replicas = 0 /\ up' = FALSE
            /\ asked' = [v \in Volumes |-> "idle"]
            /\ UNCHANGED <<crVars, poolVars, vol, custom, replicas, nodes, trouble, lost>> /\ Operators
CsiStart == /\ ~up /\ replicas = 1 /\ up' = TRUE
            /\ UNCHANGED <<crVars, poolVars, volVars, replicas, nodes, trouble, lost>> /\ Operators

Administrator == CreateCR \/ EditCR \/ MarkCR \/ DeleteCR \/ LoseRecord
Provisioner == \E v \in Volumes : Ask(v) \/ Intend(v) \/ Make(v) \/ Provide(v) \/ Reclaimed(v)

-----------------------------------------------------------------------------
\* A new cluster, or one left by a release that stored no UIDs.
Fresh  == /\ cr = NoCR /\ born = 0
          /\ record = NoRecord /\ class = NoClass /\ servers = 0
          /\ vol = [v \in Volumes |-> "none"]
          /\ replicas = 0 /\ up = FALSE
Legacy == /\ cr \in {NoCR} \cup [phase : {"live", "deleting"}, uid : {Original}, policy : {"delete"}]
          /\ born = 1
          /\ record = [state |-> "open", uid |-> NoUid, policy |-> "delete", id |-> 1]
          /\ class \in {NoClass, [policy |-> "Delete", uid |-> NoUid, id |-> 0]}
          /\ servers = 1
          /\ vol \in [Volumes -> {"none", "Delete"}]
          /\ replicas = 1 /\ up = TRUE
Init == /\ Fresh \/ Legacy
        /\ nodes = "old"
        /\ unseen = {} /\ trouble = 0 /\ lost = FALSE
        /\ custom \in SUBSET Volumes /\ asked = [v \in Volumes |-> "idle"]
        /\ ready = FALSE /\ pc = "down" /\ goal = "none"
        /\ plan = NoPlan /\ work = NoWork /\ event = NoUid
Next == \/ Operator
        \/ Fault
        \/ Administrator
        \/ Provisioner
        \/ CsiStop \/ CsiStart
        \/ Displace \/ Rotate
Fairness == WF_vars(Operator) /\ WF_vars(CsiStop) /\ WF_vars(CsiStart)
Spec == Init /\ [][Next]_vars /\ Fairness

-----------------------------------------------------------------------------
(***************************************************************************)
(* Properties.                                                             *)
(***************************************************************************)
\* When the operator waits for events and none is pending, the cluster is what
\* the resource asks for: record, class, servers and volumes of a live pool
\* agree, a removed pool has left nothing or admits nothing, and the provisioner
\* has been given back (reconcile_watch_storage_until_stable).
Settled ==
    CASE plan.kind = "add"   -> /\ record = [state |-> "open", uid |-> cr.uid,
                                             policy |-> cr.policy, id |-> servers]
                                /\ class = [policy |-> Reclaim(cr.policy), uid |-> cr.uid,
                                            id |-> servers]
                                /\ servers # 0
      [] plan.kind = "drain" -> Blocked(record) /\ servers # 0
      [] OTHER               -> record = NoRecord /\ class = NoClass /\ servers = 0
WatchReconciled == pc = "watch" /\ event = NoUid /\ unseen = {} /\ ~lost
                     => Settled /\ ready /\ replicas = 1 /\ ~Outdated

\* While a pool's record says that data is retained, no PersistentVolume of its
\* class says otherwise, in any phase of a change of policy (the order of
\* reconcile_pool_pv_reclaim_policy around update_config_map).
RetainIsSafe == ~lost /\ record.policy = "retain"
                  => \A v \in Volumes \ custom : vol[v] # "Delete"

\* The operator is never ready with the provisioner scaled down.
ReadyMeansServing == ready => replicas = 1

\* The servers of a pool are removed or change identity only when it has no
\* PersistentVolume and no create can still turn into one (handle_deleted,
\* recover_missing_pool_identity).
PoolOutlivesVolumes ==
    [][servers # 0 /\ servers' # servers
         => \A v \in Volumes : ~IsPV(v) /\ ~(up /\ asked[v] # "idle" /\ vol[v] # "none")]_vars

\* What belongs to a live custom resource is not taken down by the operator,
\* whatever events and lists of an earlier resource of that name it still holds.
Owner(uid) == IF uid = NoUid THEN Original ELSE uid
Mine(uid)  == Live /\ cr.uid = Owner(uid)
LiveUndisturbed ==
    [][/\ record.state = "open" /\ record'.state # "open" /\ lost' = lost => ~Mine(record.uid)
       /\ class # NoClass /\ class' = NoClass /\ pc # "class" => ~Mine(class.uid)
       /\ servers # 0 /\ servers' = 0 => ~Mine(record.uid)]_vars

\* A fence is always lifted, unless the operator refuses what it finds, if the
\* node plugins are replaced whenever they have to be (the text of the
\* TimeoutError in wait_for_csi_nodeplugin_rollout; the operator's restart is
\* the pod's).
Refused == Refuses \/ (Kind = "add" /\ ~Accepts(cr))
Rotated    == []<>(nodes # "behind")
FenceLifts == Rotated => []<>(up \/ Refused)

\* A pool whose resource and volumes are gone is removed, if it can be proved
\* to be the operator's, even when the deletion is interrupted or was delayed,
\* or the operator had to wait for the node plugins first.
Orphan == /\ cr = NoCR /\ record # NoRecord /\ ~HasPVs
          /\ record.state # "quarantined" /\ ~Refused
OrphanDrains == Rotated => []<>~Orphan
=============================================================================
