---- MODULE NodePublishProofs ----
(***************************************************************************)
(* The safety of the node plugin, for any number of targets, overlapping   *)
(* requests, Gluster clients, faults and edits of the pool.                *)
(*                                                                         *)
(* Generations carry the argument.  The record's generation only grows; a  *)
(* client is labelled with what the record was, so its label is not newer  *)
(* than the servers it was started for, and those are not newer than the   *)
(* record.  A publish request reads the record with the lock of its target *)
(* in hand, so what is mounted there before it binds is not newer than its *)
(* record; what it binds is not older, and neither is what its publish     *)
(* state says.  A mount with the request's generation in its label or in   *)
(* its publish state is therefore of exactly that generation.              *)
(***************************************************************************)
EXTENDS NodePublish, FiniteSetTheorems, SequenceTheorems, TLAPS

(***************************************************************************)
(* Mutual exclusion on a target path: first for the lock table on its own, *)
(* then for the node plugin, every step of which is a step of the table or *)
(* leaves it alone.                                                        *)
(*                                                                         *)
(* The count of an entry is the number of the calls that carry it.  So the *)
(* last user of an entry is alone with it, and no call carries an entry    *)
(* that the table has forgotten; two calls at work on one target have the  *)
(* same entry, and an entry has one holder.                                *)
(***************************************************************************)
UsersOf(e) == {c \in Calls : mine[c] = e}

Known == \A c \in Calls : mine[c] # NoEntry => table[TargetOf(c)] = mine[c]

Distinct == \A t, u \in Targets : table[t] # NoEntry /\ table[t] = table[u] => t = u

CountIsUse == \A e \in Entries : users[e] = Cardinality(UsersOf(e))

HolderWorks == \A c \in Calls : at[c] = "working" => holder[mine[c]] = c

Carries == \A c \in Calls : at[c] # "idle" <=> mine[c] # NoEntry

LockInv == LockTypeOK /\ Known /\ Distinct /\ CountIsUse /\ HolderWorks /\ Carries

LEMMA CallsFinite == IsFiniteSet(Calls)
<1>1. IsFiniteSet(Targets \X Threads)  BY LockAssumption, FS_Product
<1>2. Calls \subseteq Targets \X Threads  BY DEF Calls
<1> QED  BY <1>1, <1>2, FS_Subset

LEMMA UsersOfType ==
    ASSUME NEW e
    PROVE  /\ IsFiniteSet(UsersOf(e))
           /\ Cardinality(UsersOf(e)) \in Nat
           /\ UsersOf(e) = {} <=> Cardinality(UsersOf(e)) = 0
<1>1. UsersOf(e) \subseteq Calls  BY DEF UsersOf
<1>2. IsFiniteSet(UsersOf(e))  BY <1>1, CallsFinite, FS_Subset
<1> QED  BY <1>2, FS_CardinalityType, FS_EmptySet

\* With an entry that is nobody's, or the target's own.
LEMMA EnterKeepsLockInv ==
    ASSUME LockInv, NEW c \in Calls, Enter(c)
    PROVE  LockInv'
<1> DEFINE t == TargetOf(c)
           e == EntryOf(t)
<1>1. t \in Targets  BY DEF TargetOf, Calls
<1>2. NoEntry \notin Entries /\ NoCall \notin Calls  BY LockAssumption
<1>3. \/ table[t] # NoEntry /\ e = table[t] /\ e \in Entries
      \/ /\ table[t] = NoEntry /\ e \in Entries
         /\ \A u \in Targets : table[u] # e
         /\ \A d \in Calls : mine[d] # e
  BY <1>1 DEF Enter, EntryOf, Fresh, LockInv, LockTypeOK
<1>4. /\ at[c] = "idle" /\ mine[c] = NoEntry
      /\ table' = [table EXCEPT ![t] = e]
      /\ users' = [users EXCEPT ![e] = Counted(e, table[t] = NoEntry)]
      /\ holder' = IF table[t] = NoEntry THEN [holder EXCEPT ![e] = NoCall] ELSE holder
      /\ mine' = [mine EXCEPT ![c] = e]
      /\ at' = [at EXCEPT ![c] = "waiting"]
  BY DEF Enter, LockInv, Carries
<1>5. users[e] \in Nat /\ users[e] = Cardinality(UsersOf(e)) /\ users'[e] = users[e] + 1
  <2>1. users[e] \in Nat /\ users[e] = Cardinality(UsersOf(e))
    BY <1>3 DEF LockInv, LockTypeOK, CountIsUse
  <2>2. users'[e] = IF table[t] = NoEntry THEN 1 ELSE users[e] + 1
    BY <1>3, <1>4 DEF LockInv, LockTypeOK, Counted
  <2>3. CASE table[t] # NoEntry  BY <2>1, <2>2, <2>3
  <2>4. CASE table[t] = NoEntry
    <3>1. UsersOf(e) = {}  BY <1>3, <2>4 DEF UsersOf
    <3>2. users[e] = 0  BY <2>1, <3>1, FS_EmptySet
    <3> QED  BY <2>1, <2>2, <2>4, <3>2
  <2> QED  BY <2>1, <2>3, <2>4
<1> HIDE DEF e, t
<1>6. LockTypeOK'
  <2>1. "waiting" \in Stages  BY DEF Stages
  <2>2. users' \in [Entries -> Nat]
    BY <1>3, <1>4, <1>5 DEF LockInv, LockTypeOK
  <2>3. holder' \in [Entries -> Calls \cup {NoCall}]
    BY <1>3, <1>4 DEF LockInv, LockTypeOK
  <2> QED  BY <1>1, <1>3, <1>4, <2>1, <2>2, <2>3 DEF LockInv, LockTypeOK
<1>7. Known'
  BY <1>1, <1>3, <1>4 DEF t, LockInv, LockTypeOK, Known
<1>8. Distinct'
  BY <1>1, <1>3, <1>4, <1>2 DEF LockInv, LockTypeOK, Distinct
<1>9. CountIsUse'
  <2> SUFFICES ASSUME NEW f \in Entries
               PROVE  users'[f] = Cardinality(UsersOf(f)')
    BY DEF CountIsUse
  <2>1. CASE f = e
    <3>1. UsersOf(f)' = UsersOf(e) \cup {c} /\ c \notin UsersOf(e)
      BY <1>2, <1>3, <1>4, <2>1 DEF UsersOf, LockInv, LockTypeOK
    <3>2. Cardinality(UsersOf(f)') = Cardinality(UsersOf(e)) + 1
      BY <3>1, UsersOfType, FS_AddElement
    <3> QED  BY <1>5, <2>1, <3>2
  <2>2. CASE f # e
    <3>1. UsersOf(f)' = UsersOf(f)
      BY <1>2, <1>4, <2>2 DEF UsersOf, LockInv, LockTypeOK
    <3>2. users'[f] = users[f]  BY <1>4, <2>2 DEF LockInv, LockTypeOK
    <3> QED  BY <3>1, <3>2 DEF LockInv, CountIsUse
  <2> QED  BY <2>1, <2>2
<1>10. HolderWorks'
  BY <1>2, <1>3, <1>4 DEF LockInv, LockTypeOK, HolderWorks, Carries
<1>11. Carries'
  BY <1>2, <1>3, <1>4 DEF LockInv, LockTypeOK, Carries
<1> QED  BY <1>6, <1>7, <1>8, <1>9, <1>10, <1>11 DEF LockInv

\* A free entry has no holder, so nobody else works with it.
LEMMA AcquireKeepsLockInv ==
    ASSUME LockInv, NEW c \in Calls, Acquire(c)
    PROVE  LockInv'
<1>1. mine[c] \in Entries  BY DEF Acquire, LockInv, LockTypeOK, Carries
<1>2. NoCall \notin Calls  BY LockAssumption
<1>3. LockTypeOK'  BY <1>1 DEF Acquire, LockInv, LockTypeOK, Stages
<1>4. Known' /\ Distinct'  BY DEF Acquire, LockInv, Known, Distinct
<1>5. CountIsUse'  BY DEF Acquire, LockInv, CountIsUse, UsersOf
<1>6. HolderWorks'
  BY <1>1, <1>2 DEF Acquire, LockInv, LockTypeOK, HolderWorks
<1>7. Carries'  BY DEF Acquire, LockInv, LockTypeOK, Carries
<1> QED  BY <1>3, <1>4, <1>5, <1>6, <1>7 DEF LockInv

LEMMA ReleaseKeepsLockInv ==
    ASSUME LockInv, NEW c \in Calls, Release(c)
    PROVE  LockInv'
<1>1. mine[c] \in Entries  BY DEF Release, LockInv, LockTypeOK, Carries
<1>2. LockTypeOK'  BY <1>1 DEF Release, LockInv, LockTypeOK, Stages
<1>3. Known' /\ Distinct'  BY DEF Release, LockInv, Known, Distinct
<1>4. CountIsUse'  BY DEF Release, LockInv, CountIsUse, UsersOf
<1>5. HolderWorks'
  BY <1>1 DEF Release, LockInv, LockTypeOK, HolderWorks
<1>6. Carries'  BY DEF Release, LockInv, LockTypeOK, Carries
<1> QED  BY <1>2, <1>3, <1>4, <1>5, <1>6 DEF LockInv

\* When the count is one, the call that leaves is the only user.
LEMMA LeaveKeepsLockInv ==
    ASSUME LockInv, NEW c \in Calls, Leave(c)
    PROVE  LockInv'
<1> DEFINE e == mine[c]
           t == TargetOf(c)
<1>1. e \in Entries /\ t \in Targets /\ NoEntry \notin Entries /\ table[t] = e
  BY LockAssumption DEF Leave, LockInv, LockTypeOK, Carries, Known, TargetOf, Calls
<1>2. /\ at[c] = "released"
      /\ users' = [users EXCEPT ![e] = @ - 1]
      /\ table' = IF Forgotten(c) THEN [table EXCEPT ![t] = NoEntry] ELSE table
      /\ mine' = [mine EXCEPT ![c] = NoEntry]
      /\ at' = [at EXCEPT ![c] = "idle"]
      /\ holder' = holder
  BY DEF Leave
<1>3. c \in UsersOf(e)  BY DEF UsersOf
<1>4. users[e] \in Nat /\ users[e] = Cardinality(UsersOf(e)) /\ users[e] # 0
  BY <1>1, <1>3, UsersOfType DEF LockInv, LockTypeOK, CountIsUse
<1>5. Forgotten(c) => UsersOf(e) = {c}
  <2> SUFFICES ASSUME Forgotten(c) PROVE UsersOf(e) = {c}  OBVIOUS
  <2>1. Cardinality(UsersOf(e)) = 1  BY <1>4 DEF Forgotten
  <2>2. \E x : UsersOf(e) = {x}  BY <2>1, UsersOfType, FS_Singleton
  <2> QED  BY <1>3, <2>2
<1>6. \A d \in Calls : mine[d] = e => d \in UsersOf(e)  BY DEF UsersOf
<1> HIDE DEF e, t
<1>7. LockTypeOK'
  <2>1. users[e] - 1 \in Nat  BY <1>4
  <2>2. users' \in [Entries -> Nat]  BY <1>1, <1>2, <2>1 DEF LockInv, LockTypeOK
  <2> QED  BY <1>1, <1>2, <2>2 DEF LockInv, LockTypeOK, Stages
<1>8. Known'
  <2> SUFFICES ASSUME NEW d \in Calls, mine'[d] # NoEntry
               PROVE  table'[TargetOf(d)] = mine'[d]
    BY DEF Known
  <2>1. d # c /\ mine'[d] = mine[d]  BY <1>2 DEF LockInv, LockTypeOK
  <2>2. table[TargetOf(d)] = mine[d]  BY <2>1 DEF LockInv, Known
  <2>3. CASE Forgotten(c)
    <3>1. mine[d] # e  BY <1>5, <1>6, <2>1, <2>3
    <3>2. TargetOf(d) # t  BY <1>1, <2>2, <3>1
    <3> QED  BY <1>1, <1>2, <2>1, <2>2, <3>2 DEF LockInv, LockTypeOK
  <2> QED  BY <1>2, <2>1, <2>2, <2>3
<1>9. Distinct'
  BY <1>1, <1>2 DEF LockInv, LockTypeOK, Distinct
<1>10. CountIsUse'
  <2> SUFFICES ASSUME NEW f \in Entries
               PROVE  users'[f] = Cardinality(UsersOf(f)')
    BY DEF CountIsUse
  <2>1. CASE f = e
    <3>1. UsersOf(f)' = UsersOf(e) \ {c}
      BY <1>1, <1>2, <2>1 DEF UsersOf, LockInv, LockTypeOK
    <3>2. Cardinality(UsersOf(f)') = Cardinality(UsersOf(e)) - 1
      BY <1>3, <3>1, UsersOfType, FS_RemoveElement
    <3>3. users'[f] = users[e] - 1  BY <1>1, <1>2, <2>1 DEF LockInv, LockTypeOK
    <3> QED  BY <1>4, <3>2, <3>3
  <2>2. CASE f # e
    <3>1. mine[c] # f  BY <2>2 DEF e
    <3>2. UsersOf(f)' = UsersOf(f)
      BY <1>1, <1>2, <3>1 DEF UsersOf, LockInv, LockTypeOK
    <3>3. users'[f] = users[f]  BY <1>2, <2>2 DEF LockInv, LockTypeOK
    <3> QED  BY <3>2, <3>3 DEF LockInv, CountIsUse
  <2> QED  BY <2>1, <2>2
<1>11. HolderWorks'
  BY <1>2 DEF LockInv, LockTypeOK, HolderWorks
<1>12. Carries'
  BY <1>2 DEF LockInv, LockTypeOK, Carries
<1> QED  BY <1>7, <1>8, <1>9, <1>10, <1>11, <1>12 DEF LockInv

LEMMA EmptyTable ==
    ASSUME table = [t \in Targets |-> NoEntry],
           users = [e \in Entries |-> 0],
           holder = [e \in Entries |-> NoCall],
           at = [c \in Calls |-> "idle"],
           mine = [c \in Calls |-> NoEntry]
    PROVE  LockInv
<1>1. LockTypeOK  BY DEF LockTypeOK, Stages
<1>2. Known /\ Distinct /\ HolderWorks /\ Carries
  BY DEF Known, Distinct, HolderWorks, Carries
<1>3. CountIsUse
  <2> SUFFICES ASSUME NEW e \in Entries PROVE users[e] = Cardinality(UsersOf(e))
    BY DEF CountIsUse
  <2>1. UsersOf(e) = {}  BY LockAssumption DEF UsersOf
  <2> QED  BY <2>1, FS_EmptySet
<1> QED  BY <1>1, <1>2, <1>3 DEF LockInv

LEMMA ForgetKeepsLockInv ==
    ASSUME Forget
    PROVE  LockInv'
<1>1. LockTypeOK'  BY DEF Forget, LockTypeOK, Stages
<1>2. Known' /\ Distinct' /\ HolderWorks' /\ Carries'
  BY DEF Forget, Known, Distinct, HolderWorks, Carries
<1>3. CountIsUse'
  <2> SUFFICES ASSUME NEW e \in Entries PROVE users'[e] = Cardinality(UsersOf(e)')
    BY DEF CountIsUse
  <2>1. UsersOf(e)' = {}  BY LockAssumption DEF UsersOf, Forget
  <2>2. users'[e] = 0  BY DEF Forget
  <2> QED  BY <2>1, <2>2, FS_EmptySet
<1> QED  BY <1>1, <1>2, <1>3 DEF LockInv

LEMMA StepKeepsLockInv ==
    ASSUME LockInv, [LockNext]_lockVars
    PROVE  LockInv'
<1>1. CASE \E c \in Calls : Enter(c)  BY <1>1, EnterKeepsLockInv
<1>2. CASE \E c \in Calls : Acquire(c)  BY <1>2, AcquireKeepsLockInv
<1>3. CASE \E c \in Calls : Release(c)  BY <1>3, ReleaseKeepsLockInv
<1>4. CASE \E c \in Calls : Leave(c)  BY <1>4, LeaveKeepsLockInv
<1>5. CASE Forget  BY <1>5, ForgetKeepsLockInv
<1>6. CASE UNCHANGED lockVars
  BY <1>6 DEF lockVars, LockInv, LockTypeOK, Known, Distinct, CountIsUse, UsersOf,
              HolderWorks, Carries
<1> QED  BY <1>1, <1>2, <1>3, <1>4, <1>5, <1>6 DEF LockNext

LEMMA LockInvExcludes == LockInv => OneAtATime
<1> SUFFICES ASSUME LockInv, NEW c \in Calls, NEW d \in Calls,
                    at[c] = "working", at[d] = "working", TargetOf(c) = TargetOf(d)
             PROVE  c = d
  BY DEF OneAtATime
<1>1. mine[c] = table[TargetOf(c)] /\ mine[d] = table[TargetOf(d)]
  BY DEF LockInv, Carries, Known
<1> QED  BY <1>1 DEF LockInv, HolderWorks

----------------------------------------------------------------------------
(***************************************************************************)
(* The lock table excludes: whatever the order in which requests arrive,   *)
(* wait, end and leave, at most one of them is at work on each target      *)
(* (nodeserver.py _target_operation_lock).                                 *)
(***************************************************************************)
THEOREM LockTableExcludes == LockSpec => []OneAtATime
<1>1. LockInit => LockInv  BY EmptyTable DEF LockInit
<1>2. LockInv /\ [LockNext]_lockVars => LockInv'  BY StepKeepsLockInv
<1> QED  BY <1>1, <1>2, LockInvExcludes, PTL DEF LockSpec

LEMMA HandlersUseLocks ==
    ASSUME NEW c \in Calls, Retry(c) \/ Repeat(c) \/ ChangeMind(c) \/ Step(c)
    PROVE  Enter(c) \/ Acquire(c) \/ Release(c) \/ Leave(c) \/ UNCHANGED lockVars
<1>1. CASE Retry(c) \/ Repeat(c) \/ ChangeMind(c)
  BY <1>1 DEF Retry, Repeat, ChangeMind, Ask
<1>2. CASE Start(c) \/ Depart(c)  BY <1>2 DEF Start, Depart
<1>3. CASE MountPool(c)  BY <1>3 DEF MountPool, Goto, Stay, Failed, Finish
<1>4. CASE DetachStale(c)  BY <1>4 DEF DetachStale, Goto, Stay, Failed, Finish
<1>5. CASE Launch(c)  BY <1>5 DEF Launch, Stay, Failed, Finish
<1>6. CASE CheckClaim(c)  BY <1>6 DEF CheckClaim, Goto, Stay, Finish
<1>7. CASE PinSource(c)  BY <1>7 DEF PinSource, Stay, Finish
<1>8. CASE Inspect(c)
  <2>1. Finish(c, FALSE) \/ \E pc \in {"bind", "record", "clear"} : Goto(c, pc)
    BY <1>8 DEF Inspect
  <2> QED  BY <2>1 DEF Goto, Stay, Finish
<1>9. CASE ClearStale(c)
  BY <1>9 DEF ClearStale, Umount, Goto, Stay, Failed, Finish
<1>10. CASE CleanStale(c)
  BY <1>10 DEF CleanStale, Goto, Stay, Failed, Finish
<1>11. CASE Bind(c)  BY <1>11 DEF Bind, Goto, Stay, Failed, Finish
<1>12. CASE Record(c)  BY <1>12 DEF Record, Failed, Finish
<1>13. CASE Unmount(c)
  BY <1>13 DEF Unmount, Umount, Goto, Stay, Failed, Finish
<1>14. CASE Unlink(c)  BY <1>14 DEF Unlink, Failed, Finish
<1> QED  BY <1>1, <1>2, <1>3, <1>4, <1>5, <1>6, <1>7, <1>8, <1>9, <1>10, <1>11,
            <1>12, <1>13, <1>14 DEF Step

LEMMA PluginUsesLocks == [Next]_vars => [LockNext]_lockVars
<1> SUFFICES ASSUME [Next]_vars PROVE [LockNext]_lockVars  OBVIOUS
<1>1. CASE \E c \in Calls : Retry(c) \/ Repeat(c) \/ ChangeMind(c) \/ Step(c)
  BY <1>1, HandlersUseLocks DEF LockNext
<1>2. CASE EditPool  BY <1>2 DEF EditPool
<1>3. CASE \E n \in Clients : ClientDies(n)  BY <1>3 DEF ClientDies
<1>4. CASE CsiDies  BY <1>4 DEF CsiDies, Interrupted, LockNext
<1>5. CASE PodDies  BY <1>5 DEF PodDies, Interrupted, LockNext
<1>6. CASE LateLaunch  BY <1>6 DEF LateLaunch
<1>7. CASE UNCHANGED vars  BY <1>7 DEF vars
<1> QED  BY <1>1, <1>2, <1>3, <1>4, <1>5, <1>6, <1>7 DEF Next

(***************************************************************************)
(* The node plugin takes and gives back the locks of its targets as the    *)
(* table prescribes, on every path of its handlers and through every       *)
(* crash (nodeserver.py serialized_target_operation).                      *)
(***************************************************************************)
THEOREM PluginKeepsLockDiscipline == Spec => LockSpec
<1>1. Init => LockInit  BY DEF Init
<1> QED  BY <1>1, PluginUsesLocks, PTL DEF Spec, LockSpec

(***************************************************************************)
(* Two handlers of the node plugin are never at work on one target path at *)
(* the same time (nodeserver.py _target_operation_lock).                   *)
(***************************************************************************)
THEOREM MutualExclusion == Spec => []OneAtATime
BY PluginKeepsLockDiscipline, LockTableExcludes

-----------------------------------------------------------------------------
Steps == {"none", "mount", "lock", "launch", "claim", "pin", "target", "clear",
          "clean", "bind", "record", "unmount", "unlink"}

\* The steps of a publish request, and those before it has bound anything.
Looking    == {"mount", "lock", "launch", "claim", "pin", "target", "clear"}
Publishing == Looking \cup {"clean", "bind", "record"}

CallTypes == [op : {"none", "publish", "unpublish"}, pc : Steps,
              rec : [g : 0..2, c : 0..2], id : IdTypes,
              pin : Clients \cup {Bare, Unpinned}]

PluginTypes ==
    /\ rec \in [g : 0..2, c : 1..2] /\ pool \in Pools
    /\ client \in [Clients -> [id : IdTypes, gen : 0..2, up : BOOLEAN]]
    /\ stack \in Seq(Clients)
    /\ mnt \in [Targets -> Seq(Clients \cup {Bare})]
    /\ card \in [Targets -> IdTypes]
    /\ call \in [Calls -> CallTypes]
    /\ mutex \in Calls \cup {NoCall}
    /\ late \in {<<>>} \cup {<<i>> : i \in IdTypes} /\ orphaned \in BOOLEAN
    /\ want \in [Targets -> BOOLEAN]
    /\ last \in [Targets -> {"published", "unpublished", "failed"}]
    /\ faults \in 0..MaxFaults /\ edits \in 0..MaxEdits

\* What a client can be labelled with: the record as it is or was.
LabelOK(id) == id.g <= Generation(rec) /\ (pool # "legacy" => id.g # 0)

RecordOK == rec.g = 0 => pool = "legacy"

ClientOK(n) ==
    n \in InUse =>
        /\ 1 <= client[n].gen /\ client[n].gen <= Generation(rec)
        /\ client[n].id.g <= client[n].gen
        /\ pool # "legacy" => client[n].id.g # 0

LaunchOK ==
    /\ \A c \in Calls : call[c].pc = "launch" => mutex = c
    /\ mutex # NoCall => call[mutex].pc = "launch"
    /\ late # <<>> => orphaned /\ LabelOK(late[1])
    /\ ~orphaned => /\ Len(stack) <= 1
                    /\ \A c \in Calls : call[c].pc = "launch" => stack = <<>>

Worked(t) == \E c \in Calls : TargetOf(c) = t /\ at[c] = "working"

Told(t) ==
    /\ last[t] = "published" =>
         /\ mnt[t] # <<>>
         /\ card[t] = NoId => pool = "legacy"
    /\ last[t] = "unpublished" => mnt[t] = <<>> /\ card[t] = NoId

\* What the files of a target say of its mount.
MountOK(t) ==
    /\ mnt[t] = <<>> \/ \E n \in Clients \cup {Bare} : mnt[t] = <<n>>
    /\ pool # "single" => mnt[t] # <<Bare>>
    /\ card[t].g <= Generation(rec)
    /\ card[t] # NoId => card[t].g # 0
    /\ \A n \in Clients : mnt[t] = <<n>> => card[t].g <= client[n].gen

TargetOK(t) == MountOK(t) /\ (Worked(t) \/ Told(t))

CallOK(c) ==
    LET t == TargetOf(c)
        r == call[c].rec
    IN
    /\ at[c] # "working" => call[c].pc = "none" /\ call[c].pin = Unpinned
    /\ at[c] = "waiting" => call[c].op # "none"
    /\ call[c].pc \in Publishing =>
         call[c].op = "publish" /\ r.g <= rec.g /\ (r.g = 0 => pool = "legacy") /\ r.c # 0
    /\ call[c].pc \in {"unmount", "unlink"} => call[c].op = "unpublish"
    /\ call[c].pin = Bare => pool = "single"
    /\ call[c].pc \in {"lock", "launch"} => LabelOK(call[c].id)
    /\ call[c].pc \in Looking =>
         \A n \in Clients : mnt[t] = <<n>> => client[n].gen <= Generation(r)
    /\ call[c].pc = "clear" => mnt[t] # <<>> /\ SameLogical(r, t)
    /\ call[c].pc = "bind" => mnt[t] = <<>>
    /\ call[c].pc = "record" =>
         /\ mnt[t] # <<>>
         /\ \A n \in Clients : mnt[t] = <<n>> => r.g <= client[n].gen

PluginInv == /\ PluginTypes /\ RecordOK /\ LaunchOK
             /\ \A n \in Clients : ClientOK(n)
             /\ \A t \in Targets : TargetOK(t)
             /\ \A c \in Calls : CallOK(c)

----------------------------------------------------------------------------
(* The filesystems that are in use, and their clients. *)

LEMMA Numbers == /\ Bare \notin Clients /\ Unpinned \notin Clients
                 /\ Bare = 0 /\ Unpinned # Bare
BY NodeAssumption DEF Bare, Unpinned

LEMMA InUseMeans ==
    ASSUME NEW n
    PROVE  n \in InUse <=> \/ \E i \in DOMAIN stack : stack[i] = n
                           \/ \E t \in Targets : \E i \in DOMAIN mnt[t] : mnt[t][i] = n
                           \/ \E c \in Calls : call[c].pin = n
BY DEF InUse

LEMMA InUseThen ==
    ASSUME NEW n
    PROVE  n \in InUse' <=> \/ \E i \in DOMAIN stack' : stack'[i] = n
                            \/ \E t \in Targets : \E i \in DOMAIN mnt'[t] : mnt'[t][i] = n
                            \/ \E c \in Calls : call'[c].pin = n
BY DEF InUse

\* A client in use stays what it was; one that appears is a proper client.
Kept == \A n \in Clients : n \in InUse' =>
            IF n \in InUse THEN client'[n].id = client[n].id /\ client'[n].gen = client[n].gen
                           ELSE ClientOK(n)'

LEMMA MountedInUse ==
    ASSUME NEW t \in Targets, NEW n, mnt[t] = <<n>>
    PROVE  n \in InUse
<1>1. 1 \in DOMAIN mnt[t] /\ mnt[t][1] = n  OBVIOUS
<1> QED  BY <1>1, InUseMeans

LEMMA MountedThen ==
    ASSUME NEW t \in Targets, NEW n, mnt'[t] = <<n>>
    PROVE  n \in InUse'
<1>1. 1 \in DOMAIN mnt'[t] /\ mnt'[t][1] = n  OBVIOUS
<1> QED  BY <1>1, InUseThen

LEMMA StackInUse ==
    ASSUME PluginTypes, NEW i \in DOMAIN stack
    PROVE  stack[i] \in InUse /\ stack[i] \in Clients
BY InUseMeans DEF PluginTypes

LEMMA TopInUse ==
    ASSUME PluginTypes, stack # <<>>
    PROVE  Last(stack) \in InUse /\ Last(stack) \in Clients /\ TopOfPool = Last(stack)
<1>1. Len(stack) \in DOMAIN stack  BY DEF PluginTypes
<1> QED  BY <1>1, StackInUse DEF Last, TopOfPool

\* When nothing new is in use, no client changes its identity.
LEMMA KeepIsKept ==
    ASSUME PluginTypes,
           Keep(client) \/ client' = client
              \/ Keep([n \in Clients |-> [client[n] EXCEPT !.up = FALSE]]),
           \A n \in Clients : n \in InUse' => n \in InUse
    PROVE  Kept /\ client' \in [Clients -> [id : IdTypes, gen : 0..2, up : BOOLEAN]]
<1>1. Gone \in [id : IdTypes, gen : 0..2, up : BOOLEAN]  BY DEF Gone, IdTypes
<1>2. CASE client' = client  BY <1>2 DEF Kept, PluginTypes
<1>3. CASE Keep(client)  BY <1>1, <1>3 DEF Keep, Kept, PluginTypes
<1>4. CASE Keep([n \in Clients |-> [client[n] EXCEPT !.up = FALSE]])
  BY <1>1, <1>4 DEF Keep, Kept, PluginTypes
<1> QED  BY <1>2, <1>3, <1>4

\* A request that uses nothing but what is in use already.
LEMMA NothingNew ==
    ASSUME NEW c \in Calls,
           \A i \in DOMAIN stack' : stack'[i] \in InUse,
           \A u \in Targets : u # TargetOf(c) => mnt'[u] = mnt[u],
           \A i \in DOMAIN mnt'[TargetOf(c)] : mnt'[TargetOf(c)][i] \in InUse \cup {Bare},
           \A d \in Calls : d # c => call'[d] = call[d],
           call'[c].pin \in InUse \cup {Bare, Unpinned}
    PROVE  \A n \in Clients : n \in InUse' => n \in InUse
<1> SUFFICES ASSUME NEW n \in Clients, n \in InUse' PROVE n \in InUse  OBVIOUS
<1>1. CASE \E i \in DOMAIN stack' : stack'[i] = n  BY <1>1
<1>2. CASE \E t \in Targets : \E i \in DOMAIN mnt'[t] : mnt'[t][i] = n
  <2>1. PICK t \in Targets : \E i \in DOMAIN mnt'[t] : mnt'[t][i] = n  BY <1>2
  <2>2. CASE t = TargetOf(c)  BY <2>1, <2>2, Numbers
  <2>3. CASE t # TargetOf(c)  BY <2>1, <2>3, InUseMeans
  <2> QED  BY <2>2, <2>3
<1>3. CASE \E d \in Calls : call'[d].pin = n
  <2>1. PICK d \in Calls : call'[d].pin = n  BY <1>3
  <2>2. CASE d = c  BY <2>1, <2>2, Numbers
  <2>3. CASE d # c  BY <2>1, <2>3, InUseMeans
  <2> QED  BY <2>2, <2>3
<1> QED  BY <1>1, <1>2, <1>3, InUseThen

----------------------------------------------------------------------------
(* A step by one request. *)

Frame(c) ==
    /\ UNCHANGED <<rec, pool, late, orphaned>>
    /\ \A d \in Calls : d # c => call'[d] = call[d] /\ at'[d] = at[d]
    /\ \A u \in Targets : u # TargetOf(c) =>
          mnt'[u] = mnt[u] /\ card'[u] = card[u] /\ last'[u] = last[u]

\* What a request found out about its target does not depend on clients that
\* nobody uses.
LEMMA LogicalStays ==
    ASSUME Kept, pool' = pool, NEW t \in Targets, NEW r,
           mnt'[t] = mnt[t], card'[t] = card[t],
           NEW n, mnt[t] = <<n>>, n \in Clients \/ n = Bare,
           SameLogical(r, t)
    PROVE  SameLogical(r, t)'
<1>1. Last(mnt[t]) = n /\ Last(mnt'[t]) = n  BY DEF Last
<1>2. n \in InUse /\ n \in InUse'  BY MountedInUse, MountedThen
<1>3. n \in Clients => client'[n].id = client[n].id  BY <1>2 DEF Kept
<1> QED  BY <1>1, <1>3 DEF SameLogical, CardMatches, LegacyFallback

\* What a step does to the calls and the targets it does not work on.
LEMMA OthersKeep ==
    ASSUME PluginInv, LockInv, Kept, NEW c \in Calls, Frame(c),
           at[c] = "working" \/ (UNCHANGED targetVars)
    PROVE  /\ \A n \in Clients : ClientOK(n)'
           /\ \A u \in Targets : u # TargetOf(c) => TargetOK(u)'
           /\ \A d \in Calls : d # c => CallOK(d)'
<1>1. rec' = rec /\ pool' = pool /\ Generation(rec)' = Generation(rec)
  BY DEF Frame, Generation
<1>2. \A n \in Clients : ClientOK(n)'
  BY <1>1 DEF PluginInv, ClientOK, Kept
<1>3. ASSUME NEW u \in Targets, u # TargetOf(c) PROVE TargetOK(u)'
  <2>1. mnt'[u] = mnt[u] /\ card'[u] = card[u] /\ last'[u] = last[u]
    BY <1>3 DEF Frame
  <2>2. \A n \in Clients : mnt[u] = <<n>> => client'[n].gen = client[n].gen
    BY <2>1, MountedInUse, MountedThen DEF Kept
  <2>3. MountOK(u)'  BY <1>1, <2>1, <2>2 DEF PluginInv, TargetOK, MountOK
  <2>4. Worked(u)' = Worked(u)  BY <1>3 DEF Worked, Frame
  <2>5. Told(u)' = Told(u)  BY <1>1, <2>1 DEF Told
  <2> QED  BY <2>3, <2>4, <2>5 DEF PluginInv, TargetOK
<1>4. ASSUME NEW d \in Calls, d # c PROVE CallOK(d)'
  <2>1. call'[d] = call[d] /\ at'[d] = at[d]  BY <1>4 DEF Frame
  <2>2. TargetOf(d) \in Targets /\ CallOK(d)  BY DEF TargetOf, Calls, PluginInv
  <2>3. CASE at[d] # "working"
    BY <1>1, <2>1, <2>2, <2>3 DEF CallOK, Publishing, Looking
  <2>4. CASE at[d] = "working"
    <3>1. mnt'[TargetOf(d)] = mnt[TargetOf(d)] /\ card'[TargetOf(d)] = card[TargetOf(d)]
      BY <1>4, <2>2, <2>4, LockInvExcludes DEF Frame, OneAtATime, targetVars
    <3>2. \A n \in Clients : mnt[TargetOf(d)] = <<n>> => client'[n].gen = client[n].gen
      BY <2>2, <3>1, MountedInUse, MountedThen DEF Kept
    <3>3. call[d].pc = "clear" => SameLogical(call[d].rec, TargetOf(d))'
      BY <1>1, <2>1, <2>2, <3>1, LogicalStays DEF PluginInv, TargetOK, MountOK, CallOK
    <3>4. \A r : Generation(r)' = Generation(r)  BY DEF Generation
    <3>5. LabelOK(call[d].id)' = LabelOK(call[d].id)  BY <1>1, <2>1 DEF LabelOK
    <3> QED  BY <1>1, <2>1, <2>2, <3>1, <3>2, <3>3, <3>4, <3>5 DEF CallOK
  <2> QED  BY <2>3, <2>4
<1> QED  BY <1>2, <1>3, <1>4

LEMMA FrameSuffices ==
    ASSUME PluginInv, LockInv, Kept, NEW c \in Calls, Frame(c),
           at[c] = "working" \/ (UNCHANGED targetVars),
           PluginTypes', LaunchOK', MountOK(TargetOf(c))',
           Worked(TargetOf(c))' \/ Told(TargetOf(c))', CallOK(c)'
    PROVE  PluginInv'
<1>1. RecordOK'  BY DEF PluginInv, RecordOK, Frame
<1>2. TargetOK(TargetOf(c))'  BY DEF TargetOK
<1> QED  BY <1>1, <1>2, OthersKeep DEF PluginInv

\* A handler goes on to its next step.
Moved(c, pc, id, pin) ==
    /\ call' = [call EXCEPT ![c] = [op |-> call[c].op, pc |-> pc, rec |-> call[c].rec,
                                    id |-> id, pin |-> pin]]
    /\ Stay

LEMMA GotoMoves ==
    ASSUME PluginTypes, NEW c \in Calls, NEW pc, Goto(c, pc)
    PROVE  Moved(c, pc, call[c].id, call[c].pin)
<1>1. call[c] \in CallTypes  BY DEF PluginTypes
<1>2. [call[c] EXCEPT !.pc = pc] = [op |-> call[c].op, pc |-> pc, rec |-> call[c].rec,
                                   id |-> call[c].id, pin |-> call[c].pin]
  BY <1>1 DEF CallTypes
<1>3. call' = [call EXCEPT ![c] = [call[c] EXCEPT !.pc = pc]] /\ Stay  BY DEF Goto
<1> QED  BY <1>2, <1>3 DEF Moved

\* With the pool mounted a request forgets the label it was to launch with.
LEMMA MountedMoves ==
    ASSUME PluginTypes, NEW c \in Calls, Stay,
           call' = [call EXCEPT ![c].id = NoId, ![c].pc = Mounted]
    PROVE  Moved(c, Mounted, NoId, call[c].pin)
<1>1. call[c] \in CallTypes  BY DEF PluginTypes
<1>2. PICK pc : pc = Mounted  OBVIOUS
<1>3. PICK k : k = [call[c] EXCEPT !.id = NoId]  OBVIOUS
<1>4. k = [op |-> call[c].op, pc |-> call[c].pc, rec |-> call[c].rec,
           id |-> NoId, pin |-> call[c].pin]
  BY <1>1, <1>3 DEF CallTypes
<1>5. [k EXCEPT !.pc = pc] = [op |-> call[c].op, pc |-> pc, rec |-> call[c].rec,
                              id |-> NoId, pin |-> call[c].pin]
  BY <1>4
<1>6. call' = [call EXCEPT ![c] = [[call[c] EXCEPT !.id = NoId] EXCEPT !.pc = pc]]
  BY <1>2 DEF PluginTypes
<1> QED  BY <1>2, <1>3, <1>5, <1>6 DEF Moved

LEMMA CallIsTyped ==
    ASSUME PluginTypes, NEW c \in Calls
    PROVE  /\ call[c].op \in {"none", "publish", "unpublish"} /\ call[c].pc \in Steps
           /\ call[c].rec \in [g : 0..2, c : 0..2] /\ call[c].id \in IdTypes
           /\ call[c].pin \in Clients \cup {Bare, Unpinned}
           /\ TargetOf(c) \in Targets
BY DEF PluginTypes, CallTypes, TargetOf, Calls

LEMMA PinInUse ==
    ASSUME NEW c \in Calls
    PROVE  call[c].pin \in InUse
BY InUseMeans

\* Of all targets, a step changes at most t.
OnlyOn(t) ==
    /\ mnt' \in [Targets -> Seq(Clients \cup {Bare})] /\ card' \in [Targets -> IdTypes]
    /\ \A u \in Targets : u # t => mnt'[u] = mnt[u] /\ card'[u] = card[u]
    /\ \A i \in DOMAIN mnt'[t] : mnt'[t][i] \in InUse \cup {Bare}

LEMMA Untouched ==
    ASSUME PluginTypes, NEW t \in Targets, UNCHANGED targetVars
    PROVE  OnlyOn(t) /\ mnt'[t] = mnt[t] /\ card'[t] = card[t]
BY InUseMeans DEF PluginTypes, OnlyOn, targetVars

LEMMA CallTyped ==
    ASSUME PluginTypes, NEW c \in Calls, NEW k \in CallTypes,
           call' = [call EXCEPT ![c] = k]
    PROVE  /\ call' \in [Calls -> CallTypes] /\ call'[c] = k
           /\ \A d \in Calls : d # c => call'[d] = call[d]
BY DEF PluginTypes

\* What every step of a handler leaves alone, and the clients.
Plain == /\ Quietly /\ UNCHANGED <<stack, mutex>>
         /\ Keep(client) \/ client' = client
         /\ faults' \in 0..MaxFaults

LEMMA PlainLaunch ==
    ASSUME PluginInv, NEW c \in Calls, Frame(c), UNCHANGED <<stack, mutex>>,
           call[c].pc # "launch", call'[c].pc # "launch"
    PROVE  LaunchOK'
<1>1. \A d \in Calls : call'[d].pc = "launch" => d # c /\ call[d].pc = "launch"
  BY DEF Frame
<1>2. mutex # NoCall => mutex \in Calls /\ mutex # c /\ call'[mutex] = call[mutex]
  BY DEF Frame, PluginInv, LaunchOK, PluginTypes
<1>3. LabelOK(late[1])' = LabelOK(late[1])  BY DEF LabelOK, Frame, Generation
<1> QED  BY <1>1, <1>2, <1>3 DEF PluginInv, LaunchOK, Frame

\* The summary of a step that goes on: what remains to be shown of it.
LEMMA MoveSuffices ==
    ASSUME PluginInv, LockInv, NEW c \in Calls, at[c] = "working", call[c].pc # "launch",
           NEW pc \in Steps \ {"launch"}, NEW id \in IdTypes,
           NEW pin \in Clients \cup {Bare, Unpinned}, pin \in InUse \cup {Bare, Unpinned},
           Moved(c, pc, id, pin), Plain,
           OnlyOn(TargetOf(c))
    PROVE  /\ Kept
           /\ at'[c] = "working"
           /\ call'[c] = [op |-> call[c].op, pc |-> pc, rec |-> call[c].rec,
                          id |-> id, pin |-> pin]
           /\ rec' = rec /\ pool' = pool
           /\ MountOK(TargetOf(c))' /\ CallOK(c)' => PluginInv'
<1>1. PluginTypes /\ TargetOf(c) \in Targets  BY CallIsTyped DEF PluginInv
<1>2. [op |-> call[c].op, pc |-> pc, rec |-> call[c].rec, id |-> id, pin |-> pin] \in CallTypes
  BY <1>1, CallIsTyped DEF CallTypes
<1>3. /\ call' \in [Calls -> CallTypes]
      /\ call'[c] = [op |-> call[c].op, pc |-> pc, rec |-> call[c].rec, id |-> id, pin |-> pin]
      /\ \A d \in Calls : d # c => call'[d] = call[d]
  BY <1>1, <1>2, CallTyped DEF Moved
<1>4. /\ mnt' \in [Targets -> Seq(Clients \cup {Bare})]
      /\ \A u \in Targets : u # TargetOf(c) => mnt'[u] = mnt[u]
      /\ \A i \in DOMAIN mnt'[TargetOf(c)] : mnt'[TargetOf(c)][i] \in InUse \cup {Bare}
  BY DEF OnlyOn
<1>5. /\ card' \in [Targets -> IdTypes]
      /\ \A u \in Targets : u # TargetOf(c) => card'[u] = card[u]
  BY DEF OnlyOn
<1>6. UNCHANGED <<rec, pool, edits, late, orphaned, want, at, last, stack, mutex>>
  BY DEF Moved, Stay, lockVars, Plain, Quietly, poolVars
<1>7. Frame(c)  BY <1>3, <1>4, <1>5, <1>6 DEF Frame
<1>8. \A i \in DOMAIN stack' : stack'[i] \in InUse  BY <1>1, <1>6, StackInUse
<1>9. \A n \in Clients : n \in InUse' => n \in InUse
  BY <1>3, <1>4, <1>8, NothingNew
<1>10. Kept /\ client' \in [Clients -> [id : IdTypes, gen : 0..2, up : BOOLEAN]]
  BY <1>1, <1>9, KeepIsKept DEF Plain
<1>11. PluginTypes'
  BY <1>1, <1>3, <1>4, <1>5, <1>6, <1>10 DEF PluginTypes, Plain
<1>12. LaunchOK'  BY <1>3, <1>6, <1>7, PlainLaunch
<1>13. Worked(TargetOf(c))'  BY <1>6 DEF Worked
<1>14. MountOK(TargetOf(c))' /\ CallOK(c)' => PluginInv'
  BY <1>7, <1>10, <1>11, <1>12, <1>13, FrameSuffices
<1> QED  BY <1>3, <1>4, <1>5, <1>6, <1>10, <1>14

\* ... and of one that answers.
LEMMA FinishFrame ==
    ASSUME PluginInv, LockInv, NEW c \in Calls, NEW ok \in BOOLEAN, Finish(c, ok)
    PROVE  /\ call' \in [Calls -> CallTypes] /\ call'[c] = NewCall
           /\ \A d \in Calls : d # c => call'[d] = call[d] /\ at'[d] = at[d]
           /\ at[c] = "working" /\ at'[c] = "released"
           /\ last' \in [Targets -> {"published", "unpublished", "failed"}]
           /\ \A u \in Targets : u # TargetOf(c) => last'[u] = last[u]
           /\ last'[TargetOf(c)] = IF ~ok THEN "failed"
                                   ELSE IF call[c].op = "publish" THEN "published"
                                   ELSE "unpublished"
<1>1. PluginTypes /\ TargetOf(c) \in Targets  BY CallIsTyped DEF PluginInv
<1>2. NewCall \in CallTypes
  BY DEF NewCall, CallTypes, Steps, NoId, IdTypes, Unpinned
<1>3. /\ call' \in [Calls -> CallTypes] /\ call'[c] = NewCall
      /\ \A d \in Calls : d # c => call'[d] = call[d]
  BY <1>1, <1>2, CallTyped DEF Finish
<1>4. /\ \A d \in Calls : d # c => at'[d] = at[d]
      /\ at[c] = "working" /\ at'[c] = "released"
  BY DEF Finish, Release, LockInv, LockTypeOK
<1>5. /\ last' \in [Targets -> {"published", "unpublished", "failed"}]
      /\ \A u \in Targets : u # TargetOf(c) => last'[u] = last[u]
      /\ last'[TargetOf(c)] = IF ~ok THEN "failed"
                              ELSE IF call[c].op = "publish" THEN "published"
                              ELSE "unpublished"
  BY <1>1 DEF Finish, PluginTypes
<1> QED  BY <1>3, <1>4, <1>5

LEMMA FinishCallOK ==
    ASSUME NEW c \in Calls, call'[c] = NewCall, at'[c] = "released"
    PROVE  CallOK(c)'
BY Numbers DEF CallOK, NewCall, Publishing, Looking

LEMMA FinishSuffices ==
    ASSUME PluginInv, LockInv, NEW c \in Calls, NEW ok \in BOOLEAN, Finish(c, ok),
           call[c].pc # "launch", Plain,
           OnlyOn(TargetOf(c))
    PROVE  /\ Kept
           /\ rec' = rec /\ pool' = pool
           /\ last'[TargetOf(c)] = IF ~ok THEN "failed"
                                   ELSE IF call[c].op = "publish" THEN "published"
                                   ELSE "unpublished"
           /\ MountOK(TargetOf(c))' /\ Told(TargetOf(c))' => PluginInv'
<1>1. PluginTypes /\ TargetOf(c) \in Targets  BY CallIsTyped DEF PluginInv
<1>4. /\ mnt' \in [Targets -> Seq(Clients \cup {Bare})]
      /\ \A u \in Targets : u # TargetOf(c) => mnt'[u] = mnt[u]
      /\ \A i \in DOMAIN mnt'[TargetOf(c)] : mnt'[TargetOf(c)][i] \in InUse \cup {Bare}
  BY DEF OnlyOn
<1>5. /\ card' \in [Targets -> IdTypes]
      /\ \A u \in Targets : u # TargetOf(c) => card'[u] = card[u]
  BY DEF OnlyOn
<1>6. UNCHANGED <<rec, pool, edits, late, orphaned, want, stack, mutex>>
  BY DEF Plain, Quietly, poolVars
<1>7. Frame(c)  BY <1>4, <1>5, <1>6, FinishFrame DEF Frame
<1>8. \A i \in DOMAIN stack' : stack'[i] \in InUse  BY <1>1, <1>6, StackInUse
<1>9. \A n \in Clients : n \in InUse' => n \in InUse
  BY <1>4, <1>8, FinishFrame, NothingNew DEF NewCall
<1>10. Kept /\ client' \in [Clients -> [id : IdTypes, gen : 0..2, up : BOOLEAN]]
  BY <1>1, <1>9, KeepIsKept DEF Plain
<1>11. PluginTypes'
  BY <1>1, <1>4, <1>5, <1>6, <1>10, FinishFrame DEF PluginTypes, Plain
<1>12. LaunchOK'  BY <1>6, <1>7, FinishFrame, PlainLaunch DEF NewCall
<1>13. CallOK(c)'  BY FinishFrame, FinishCallOK
<1>14. MountOK(TargetOf(c))' /\ Told(TargetOf(c))' => PluginInv'
  BY <1>7, <1>10, <1>11, <1>12, <1>13, FrameSuffices, FinishFrame
<1> QED  BY <1>4, <1>5, <1>6, <1>10, <1>14, FinishFrame

LEMMA MountStays ==
    ASSUME PluginInv, Kept, NEW t \in Targets, rec' = rec, pool' = pool,
           mnt'[t] = mnt[t] \/ mnt'[t] = <<>>, card'[t] = card[t] \/ card'[t] = NoId
    PROVE  MountOK(t)'
<1>1. MountOK(t)  BY DEF PluginInv, TargetOK
<1>2. \A n \in Clients : mnt'[t] = <<n>> => mnt[t] = <<n>>  OBVIOUS
<1>3. \A n \in Clients : mnt'[t] = <<n>> => client'[n].gen = client[n].gen
  BY <1>2, MountedInUse, MountedThen DEF Kept
<1>4. Generation(rec)' = Generation(rec) /\ Generation(rec) \in Nat /\ NoId.g = 0
  BY DEF Generation, NoId
<1>5. \A n \in Clients : mnt'[t] = <<n>> => client[n].gen \in 0..2
  BY DEF PluginInv, PluginTypes
<1>6. \A n \in Clients : mnt'[t] = <<n>> => card'[t].g <= client'[n].gen
  BY <1>1, <1>2, <1>3, <1>4, <1>5 DEF MountOK
<1> QED  BY <1>1, <1>2, <1>4, <1>6 DEF MountOK

\* An error leaves the target as it was.
LEMMA RefusalKeeps ==
    ASSUME PluginInv, LockInv, NEW c \in Calls, Finish(c, FALSE), call[c].pc # "launch",
           Plain, UNCHANGED targetVars
    PROVE  PluginInv'
<1> DEFINE t == TargetOf(c)
<1>1. PluginTypes /\ t \in Targets  BY CallIsTyped DEF PluginInv
<1>2. OnlyOn(t) /\ mnt'[t] = mnt[t] /\ card'[t] = card[t]  BY <1>1, Untouched
<1>3. Kept /\ rec' = rec /\ pool' = pool /\ last'[t] = "failed" /\ mnt'[t] = mnt[t]
      /\ card'[t] = card[t] /\ (MountOK(t)' /\ Told(t)' => PluginInv')
  BY <1>2, FinishSuffices
<1>4. Told(t)'  BY <1>3 DEF Told
<1>5. MountOK(t)'  BY <1>1, <1>3, MountStays
<1> QED  BY <1>3, <1>4, <1>5

\* A request that has not bound anything yet goes on looking.
LEMMA LooksOn ==
    ASSUME PluginInv, LockInv, NEW c \in Calls, at[c] = "working",
           call[c].pc \in Looking \ {"launch"},
           NEW pc \in {"lock", "claim", "pin", "target"}, NEW id \in IdTypes,
           NEW pin \in Clients \cup {Bare, Unpinned}, pin \in InUse \cup {Bare, Unpinned},
           Moved(c, pc, id, pin), Plain, UNCHANGED targetVars,
           pc = "lock" => LabelOK(id), pin = Bare => pool = "single"
    PROVE  PluginInv'
<1> DEFINE t == TargetOf(c)
<1>1. PluginTypes /\ t \in Targets /\ CallOK(c)  BY CallIsTyped DEF PluginInv
<1>2. OnlyOn(t) /\ mnt'[t] = mnt[t] /\ card'[t] = card[t]  BY <1>1, Untouched
<1>3. pc \in Steps \ {"launch"}  BY DEF Steps
<1>4. /\ Kept /\ rec' = rec /\ pool' = pool /\ mnt'[t] = mnt[t] /\ card'[t] = card[t]
      /\ at'[c] = "working"
      /\ call'[c] = [op |-> call[c].op, pc |-> pc, rec |-> call[c].rec,
                     id |-> id, pin |-> pin]
      /\ MountOK(t)' /\ CallOK(c)' => PluginInv'
  BY <1>2, <1>3, MoveSuffices
<1>5. MountOK(t)'  BY <1>1, <1>4, MountStays
<1>6. \A n \in Clients : mnt'[t] = <<n>> => client'[n].gen = client[n].gen
  BY <1>1, <1>4, MountedInUse, MountedThen DEF Kept
<1>7. LabelOK(id)' = LabelOK(id) /\ Generation(call[c].rec)' = Generation(call[c].rec)
  BY <1>4 DEF LabelOK, Generation
<1>8. CallOK(c)'  BY <1>1, <1>4, <1>6, <1>7 DEF CallOK, Looking, Publishing
<1> QED  BY <1>4, <1>5, <1>8

----------------------------------------------------------------------------
(* The steps of NodePublishVolume. *)

LEMMA FaultsTyped ==
    ASSUME PluginInv, Calm \/ Trouble
    PROVE  faults' \in 0..MaxFaults
BY NodeAssumption DEF PluginInv, PluginTypes, Calm, Trouble

LEMMA IdentityIsLabel ==
    ASSUME PluginInv
    PROVE  Identity(rec) \in IdTypes /\ LabelOK(Identity(rec)) /\ LabelOK(Identity(rec)) \in BOOLEAN
BY DEF PluginInv, PluginTypes, RecordOK, Identity, IdTypes, LabelOK, Generation, NoId

LEMMA Relabelled ==
    ASSUME NEW r \in CallTypes, NEW id, NEW pc
    PROVE  [[r EXCEPT !.id = id] EXCEPT !.pc = pc]
             = [op |-> r.op, pc |-> pc, rec |-> r.rec, id |-> id, pin |-> r.pin]
<1>1. PICK k : k = [r EXCEPT !.id = id]  OBVIOUS
<1>2. k = [op |-> r.op, pc |-> r.pc, rec |-> r.rec, id |-> id, pin |-> r.pin]
  BY <1>1 DEF CallTypes
<1>3. [k EXCEPT !.pc = pc] = [op |-> r.op, pc |-> pc, rec |-> r.rec, id |-> id, pin |-> r.pin]
  BY <1>2
<1> QED  BY <1>1, <1>3

LEMMA MountPoolKeeps ==
    ASSUME PluginInv, LockInv, NEW c \in Calls, MountPool(c)
    PROVE  PluginInv'
<1>1. /\ at[c] = "working" /\ call[c].pc = "mount" /\ call[c].pc \in Looking \ {"launch"}
      /\ UNCHANGED targetVars /\ Quietly /\ UNCHANGED <<stack, mutex>> /\ client' = client
  BY DEF MountPool, Work, Looking, mountVars
<1>2. Calm \/ Trouble  BY DEF MountPool, Failed
<1>3. Plain  BY <1>1, <1>2, FaultsTyped DEF Plain
<1>4. PluginTypes /\ call[c].pin \in Clients \cup {Bare, Unpinned} /\ call[c].pin \in InUse
      /\ call[c].id \in IdTypes /\ (call[c].pin = Bare => pool = "single")
  BY CallIsTyped, PinInUse DEF PluginInv, CallOK
<1>5. Mounted \in {"claim", "pin"}  BY DEF Mounted
<1>6. CASE Goto(c, Mounted)
  <2>1. Moved(c, Mounted, call[c].id, call[c].pin)  BY <1>4, <1>6, GotoMoves
  <2> QED  BY <1>1, <1>3, <1>4, <1>5, <2>1, LooksOn
<1>7. CASE call' = [call EXCEPT ![c].id = Identity(rec), ![c].pc = "lock"] /\ Stay
  <2>1. call[c] \in CallTypes  BY <1>4 DEF PluginTypes
  <2>2. Moved(c, "lock", Identity(rec), call[c].pin)
    <3>1. call' = [call EXCEPT ![c] = [[call[c] EXCEPT !.id = Identity(rec)] EXCEPT !.pc = "lock"]]
      BY <1>4, <1>7 DEF PluginTypes
    <3>3. [[call[c] EXCEPT !.id = Identity(rec)] EXCEPT !.pc = "lock"]
            = [op |-> call[c].op, pc |-> "lock", rec |-> call[c].rec,
               id |-> Identity(rec), pin |-> call[c].pin]
      BY <2>1, Relabelled
    <3>4. call' = [call EXCEPT ![c] = [op |-> call[c].op, pc |-> "lock", rec |-> call[c].rec,
                                       id |-> Identity(rec), pin |-> call[c].pin]]
      BY <3>1, <3>3
    <3> QED  BY <1>7, <3>4 DEF Moved
  <2> QED  BY <1>1, <1>3, <1>4, <2>2, LooksOn, IdentityIsLabel
<1>8. CASE Failed(c)  BY <1>1, <1>3, <1>8, RefusalKeeps DEF Failed
<1> QED  BY <1>6, <1>7, <1>8 DEF MountPool

LEMMA CheckClaimKeeps ==
    ASSUME PluginInv, LockInv, NEW c \in Calls, CheckClaim(c)
    PROVE  PluginInv'
<1>1. /\ at[c] = "working" /\ call[c].pc \in Looking \ {"launch"}
      /\ UNCHANGED targetVars /\ Quietly /\ UNCHANGED <<stack, mutex>> /\ client' = client
      /\ Calm /\ (Goto(c, "pin") \/ Finish(c, FALSE)) /\ call[c].pc # "launch"
  BY DEF CheckClaim, Work, Looking, mountVars
<1>2. Plain  BY <1>1, FaultsTyped DEF Plain
<1>3. PluginTypes /\ call[c].pin \in Clients \cup {Bare, Unpinned} /\ call[c].pin \in InUse
      /\ call[c].id \in IdTypes /\ (call[c].pin = Bare => pool = "single")
  BY CallIsTyped, PinInUse DEF PluginInv, CallOK
<1>4. CASE Goto(c, "pin")
  <2>1. Moved(c, "pin", call[c].id, call[c].pin)  BY <1>3, <1>4, GotoMoves
  <2> QED  BY <1>1, <1>2, <1>3, <2>1, LooksOn
<1>5. CASE Finish(c, FALSE)  BY <1>1, <1>2, <1>5, RefusalKeeps
<1> QED  BY <1>1, <1>4, <1>5

LEMMA PinSourceKeeps ==
    ASSUME PluginInv, LockInv, NEW c \in Calls, PinSource(c)
    PROVE  PluginInv'
<1>1. /\ at[c] = "working" /\ call[c].pc \in Looking \ {"launch"} /\ call[c].pc # "launch"
      /\ UNCHANGED targetVars /\ Quietly /\ UNCHANGED <<stack, mutex>> /\ client' = client
      /\ Calm
  BY DEF PinSource, Work, Looking, mountVars
<1>2. Plain  BY <1>1, FaultsTyped DEF Plain
<1>3. PluginTypes /\ call[c] \in CallTypes /\ call[c].id \in IdTypes
  BY CallIsTyped DEF PluginInv, PluginTypes
<1>4. CASE /\ call' = [call EXCEPT ![c].pin = TopOfPool, ![c].pc = "target"] /\ Stay
           /\ Answers(TopOfPool) \/ (pool = "single" /\ stack = <<>>)
  <2>1. TopOfPool \in Clients \cup {Bare, Unpinned} /\ TopOfPool \in InUse \cup {Bare, Unpinned}
    BY <1>3, TopInUse DEF TopOfPool
  <2>2. TopOfPool = Bare => pool = "single"
    BY <1>4, Numbers DEF Answers
  <2>3. Moved(c, "target", call[c].id, TopOfPool)
    <3>1. call' = [call EXCEPT ![c] = [[call[c] EXCEPT !.pin = TopOfPool] EXCEPT !.pc = "target"]]
      BY <1>3, <1>4 DEF PluginTypes
    <3>2. [call[c] EXCEPT !.pin = TopOfPool]
            = [op |-> call[c].op, pc |-> call[c].pc, rec |-> call[c].rec,
               id |-> call[c].id, pin |-> TopOfPool]
      BY <1>3 DEF CallTypes
    <3> QED  BY <1>4, <3>1, <3>2 DEF Moved
  <2> QED  BY <1>1, <1>2, <1>3, <2>1, <2>2, <2>3, LooksOn
<1>5. CASE Finish(c, FALSE)  BY <1>1, <1>2, <1>5, RefusalKeeps
<1> QED  BY <1>4, <1>5 DEF PinSource

LEMMA GotoSuffices ==
    ASSUME PluginInv, LockInv, NEW c \in Calls, at[c] = "working", call[c].pc # "launch",
           NEW pc \in Steps \ {"launch"}, Goto(c, pc), Plain, OnlyOn(TargetOf(c))
    PROVE  /\ Kept
           /\ rec' = rec /\ pool' = pool
           /\ at'[c] = "working" /\ call'[c].op = call[c].op /\ call'[c].pc = pc
           /\ call'[c].rec = call[c].rec /\ call'[c].pin = call[c].pin
           /\ MountOK(TargetOf(c))' /\ CallOK(c)' => PluginInv'
<1>1. PluginTypes /\ call[c].pin \in Clients \cup {Bare, Unpinned} /\ call[c].pin \in InUse
      /\ call[c].id \in IdTypes
  BY CallIsTyped, PinInUse DEF PluginInv
<1>2. Moved(c, pc, call[c].id, call[c].pin)  BY <1>1, GotoMoves
<1>3. /\ Kept
      /\ at'[c] = "working"
      /\ call'[c] = [op |-> call[c].op, pc |-> pc, rec |-> call[c].rec,
                     id |-> call[c].id, pin |-> call[c].pin]
      /\ rec' = rec /\ pool' = pool
      /\ MountOK(TargetOf(c))' /\ CallOK(c)' => PluginInv'
  BY <1>1, <1>2, MoveSuffices
<1> QED  BY <1>3

\* The mount of a target, when there is one.
LEMMA TheMount ==
    ASSUME PluginInv, NEW t \in Targets, mnt[t] # <<>>
    PROVE  \E n \in Clients \cup {Bare} : /\ mnt[t] = <<n>> /\ Last(mnt[t]) = n
                                          /\ Front(mnt[t]) = <<>> /\ n \in InUse
<1>1. PICK n \in Clients \cup {Bare} : mnt[t] = <<n>>
  BY DEF PluginInv, TargetOK, MountOK
<1>2. Last(mnt[t]) = n  BY <1>1 DEF Last
<1>3. Front(mnt[t]) = <<>>  BY <1>1 DEF Front
<1> QED  BY <1>1, <1>2, <1>3, MountedInUse

\* A client that answers is of the record's generation.
LEMMA AnswersNow ==
    ASSUME PluginInv, NEW c \in Calls, call[c].pc \in Publishing, NEW n, Answers(n)
    PROVE  n \in Clients /\ call[c].rec.g <= client[n].gen /\ client[n].gen = Generation(rec)
<1>1. CallOK(c) /\ rec \in [g : 0..2, c : 1..2] /\ call[c].rec \in [g : 0..2, c : 0..2]
  BY CallIsTyped DEF PluginInv, PluginTypes
<1> QED  BY <1>1 DEF CallOK, Answers, Generation

LEMMA InspectKeeps ==
    ASSUME PluginInv, LockInv, NEW c \in Calls, Inspect(c)
    PROVE  PluginInv'
<1> DEFINE t == TargetOf(c)
<1>1. /\ at[c] = "working" /\ call[c].op = "publish" /\ call[c].pc = "target"
      /\ UNCHANGED targetVars /\ Plain /\ call[c].pc # "launch" /\ call[c].pc \in Publishing
  BY FaultsTyped DEF Inspect, Work, Plain, targetVars, Publishing, Looking
<1>2. PluginTypes /\ t \in Targets /\ CallOK(c)  BY CallIsTyped DEF PluginInv
<1>3. OnlyOn(t) /\ mnt'[t] = mnt[t] /\ card'[t] = card[t]  BY <1>1, <1>2, Untouched
<1>4. "bind" \in Steps \ {"launch"} /\ "record" \in Steps \ {"launch"}
      /\ "clear" \in Steps \ {"launch"}
  BY DEF Steps
<1>5. Kept /\ rec' = rec /\ pool' = pool => MountOK(t)'  BY <1>2, <1>3, MountStays
<1>6. CASE Finish(c, FALSE)  BY <1>1, <1>6, RefusalKeeps
<1>7. CASE mnt[t] = <<>> /\ Goto(c, "bind")
  <2>1. /\ Kept /\ rec' = rec /\ pool' = pool
        /\ at'[c] = "working" /\ call'[c].op = call[c].op /\ call'[c].pc = "bind"
        /\ call'[c].rec = call[c].rec /\ call'[c].pin = call[c].pin
        /\ MountOK(t)' /\ CallOK(c)' => PluginInv'
    BY <1>1, <1>3, <1>4, <1>7, GotoSuffices
  <2>2. CallOK(c)'  BY <1>1, <1>2, <1>3, <1>7, <2>1 DEF CallOK, Publishing, Looking
  <2> QED  BY <1>5, <2>1, <2>2
<1>8. CASE mnt[t] # <<>> /\ SameSource(c, t) /\ Goto(c, "record")
  <2>1. /\ Kept /\ rec' = rec /\ pool' = pool
        /\ at'[c] = "working" /\ call'[c].op = call[c].op /\ call'[c].pc = "record"
        /\ call'[c].rec = call[c].rec /\ call'[c].pin = call[c].pin
        /\ MountOK(t)' /\ CallOK(c)' => PluginInv'
    BY <1>1, <1>3, <1>4, <1>8, GotoSuffices
  <2>2. PICK n \in Clients \cup {Bare} : mnt[t] = <<n>> /\ Last(mnt[t]) = n /\ n \in InUse
    BY <1>2, <1>8, TheMount
  <2>3. n \in Clients /\ call[c].rec.g <= client[n].gen
    BY <1>1, <1>8, <2>2, AnswersNow DEF SameSource
  <2>4. client'[n].gen = client[n].gen
    BY <1>2, <1>3, <2>1, <2>2, <2>3, MountedThen DEF Kept
  <2>5. \A m : mnt'[t] = <<m>> => m = n  BY <1>3, <2>2
  <2>6. CallOK(c)'
    BY <1>1, <1>2, <1>3, <1>8, <2>1, <2>3, <2>4, <2>5 DEF CallOK, Publishing, Looking
  <2> QED  BY <1>5, <2>1, <2>6
<1>9. CASE mnt[t] # <<>> /\ SameLogical(call[c].rec, t) /\ Goto(c, "clear")
  <2>1. /\ Kept /\ rec' = rec /\ pool' = pool
        /\ at'[c] = "working" /\ call'[c].op = call[c].op /\ call'[c].pc = "clear"
        /\ call'[c].rec = call[c].rec /\ call'[c].pin = call[c].pin
        /\ MountOK(t)' /\ CallOK(c)' => PluginInv'
    BY <1>1, <1>3, <1>4, <1>9, GotoSuffices
  <2>2. PICK n \in Clients \cup {Bare} : mnt[t] = <<n>> /\ Last(mnt[t]) = n /\ n \in InUse
    BY <1>2, <1>9, TheMount
  <2>3. n \in Clients => client'[n].gen = client[n].gen
    BY <1>2, <1>3, <2>1, <2>2, MountedThen DEF Kept
  <2>4. \A m : mnt'[t] = <<m>> => m = n  BY <1>3, <2>2
  <2>5. SameLogical(call[c].rec, t)'
    BY <1>2, <1>3, <1>9, <2>1, <2>2, LogicalStays
  <2>6. Generation(call[c].rec)' = Generation(call[c].rec)  BY <2>1 DEF Generation
  <2>7. CallOK(c)'
    BY <1>1, <1>2, <1>3, <1>9, <2>1, <2>2, <2>3, <2>4, <2>5, <2>6
    DEF CallOK, Publishing, Looking
  <2> QED  BY <1>5, <2>1, <2>7
<1>10. \/ Finish(c, FALSE)
       \/ mnt[t] = <<>> /\ Goto(c, "bind")
       \/ mnt[t] # <<>> /\ SameSource(c, t) /\ Goto(c, "record")
       \/ mnt[t] # <<>> /\ SameLogical(call[c].rec, t) /\ Goto(c, "clear")
  BY DEF Inspect
<1> QED  BY <1>6, <1>7, <1>8, <1>9, <1>10

\* Taking the mount off a target.
LEMMA UmountFacts ==
    ASSUME PluginInv, LockInv, NEW c \in Calls, NEW pc, Umount(c, pc),
           mnt[TargetOf(c)] # <<>>
    PROVE  /\ Plain /\ card' = card
           /\ \/ OnlyOn(TargetOf(c)) /\ mnt'[TargetOf(c)] = <<>> /\ Goto(c, pc)
              \/ UNCHANGED targetVars /\ Finish(c, FALSE)
<1> DEFINE t == TargetOf(c)
<1>1. PluginTypes /\ t \in Targets  BY CallIsTyped DEF PluginInv
<1>2. Plain /\ card' = card  BY FaultsTyped DEF Umount, Plain, Failed
<1>3. Front(mnt[t]) = <<>>  BY <1>1, TheMount
<1>4. CASE mnt' = [mnt EXCEPT ![t] = Front(@)] /\ Goto(c, pc)
  <2>1. mnt' = [mnt EXCEPT ![t] = <<>>]  BY <1>3, <1>4
  <2>2. OnlyOn(t) /\ mnt'[t] = <<>>  BY <1>1, <1>2, <2>1 DEF OnlyOn, PluginTypes
  <2> QED  BY <1>2, <1>4, <2>2
<1>5. CASE Failed(c) /\ mnt' = mnt  BY <1>2, <1>5 DEF Failed, targetVars
<1> QED  BY <1>4, <1>5 DEF Umount

LEMMA ClearStaleKeeps ==
    ASSUME PluginInv, LockInv, NEW c \in Calls, ClearStale(c)
    PROVE  PluginInv'
<1> DEFINE t == TargetOf(c)
<1>1. /\ at[c] = "working" /\ call[c].pc = "clear" /\ call[c].op = "publish"
      /\ call[c].pc # "launch" /\ Umount(c, "clean")
  BY DEF ClearStale, Work
<1>2. PluginTypes /\ t \in Targets /\ CallOK(c)  BY CallIsTyped DEF PluginInv
<1>3. mnt[t] # <<>>  BY <1>1, <1>2 DEF CallOK
<1>4. Plain /\ card' = card  BY <1>1, <1>3, UmountFacts
<1>5. CASE OnlyOn(t) /\ mnt'[t] = <<>> /\ Goto(c, "clean")
  <2>1. "clean" \in Steps \ {"launch"}  BY DEF Steps
  <2>2. /\ Kept /\ rec' = rec /\ pool' = pool
        /\ at'[c] = "working" /\ call'[c].op = call[c].op /\ call'[c].pc = "clean"
        /\ call'[c].rec = call[c].rec /\ call'[c].pin = call[c].pin
        /\ MountOK(t)' /\ CallOK(c)' => PluginInv'
    BY <1>1, <1>4, <1>5, <2>1, GotoSuffices
  <2>3. MountOK(t)'  BY <1>2, <1>4, <1>5, <2>2, MountStays
  <2>4. CallOK(c)'  BY <1>1, <1>2, <2>2 DEF CallOK, Publishing, Looking
  <2> QED  BY <2>2, <2>3, <2>4
<1>6. CASE UNCHANGED targetVars /\ Finish(c, FALSE)
  BY <1>1, <1>4, <1>6, RefusalKeeps
<1> QED  BY <1>1, <1>3, <1>5, <1>6, UmountFacts

LEMMA RemovedFacts ==
    ASSUME PluginInv, NEW t \in Targets, Removed(t), mnt' = mnt
    PROVE  OnlyOn(t) /\ mnt'[t] = <<>> /\ mnt'[t] = mnt[t] /\ card'[t] = NoId
BY DEF PluginInv, PluginTypes, Removed, OnlyOn, IdTypes

LEMMA CleanStaleKeeps ==
    ASSUME PluginInv, LockInv, NEW c \in Calls, CleanStale(c)
    PROVE  PluginInv'
<1> DEFINE t == TargetOf(c)
<1>1. /\ at[c] = "working" /\ call[c].pc = "clean" /\ call[c].op = "publish"
      /\ call[c].pc # "launch" /\ mnt' = mnt /\ Plain
  BY FaultsTyped DEF CleanStale, Work, Plain, Failed
<1>2. PluginTypes /\ t \in Targets /\ CallOK(c)  BY CallIsTyped DEF PluginInv
<1>3. CASE Removed(t) /\ Goto(c, "bind")
  <2>1. "bind" \in Steps \ {"launch"}  BY DEF Steps
  <2>2. OnlyOn(t) /\ mnt'[t] = <<>> /\ mnt'[t] = mnt[t] /\ card'[t] = NoId
    BY <1>1, <1>2, <1>3, RemovedFacts
  <2>3. /\ Kept /\ rec' = rec /\ pool' = pool
        /\ at'[c] = "working" /\ call'[c].op = call[c].op /\ call'[c].pc = "bind"
        /\ call'[c].rec = call[c].rec /\ call'[c].pin = call[c].pin
        /\ MountOK(t)' /\ CallOK(c)' => PluginInv'
    BY <1>1, <1>3, <2>1, <2>2, GotoSuffices
  <2>4. MountOK(t)'  BY <1>2, <2>2, <2>3, MountStays
  <2>5. CallOK(c)'  BY <1>1, <1>2, <2>2, <2>3 DEF CallOK, Publishing, Looking
  <2> QED  BY <2>3, <2>4, <2>5
<1>4. CASE Finish(c, FALSE) /\ card' = card
  BY <1>1, <1>4, RefusalKeeps DEF targetVars
<1> QED  BY <1>3, <1>4 DEF CleanStale, Failed

\* What the call binds is not older than what it asked for.
LEMMA BoundFacts ==
    ASSUME PluginInv, NEW c \in Calls, call[c].pc = "bind",
           Answers(call[c].pin) \/ call[c].pin = Bare,
           mnt' = [mnt EXCEPT ![TargetOf(c)] = Append(@, call[c].pin)], card' = card
    PROVE  /\ OnlyOn(TargetOf(c)) /\ mnt'[TargetOf(c)] = <<call[c].pin>>
           /\ Kept /\ rec' = rec /\ pool' = pool
                => /\ MountOK(TargetOf(c))'
                   /\ \A n \in Clients : mnt'[TargetOf(c)] = <<n>>
                         => call[c].rec.g <= client'[n].gen
<1> DEFINE t == TargetOf(c)
           n == call[c].pin
<1>1. PluginTypes /\ t \in Targets /\ CallOK(c) /\ MountOK(t) /\ n \in InUse
  BY CallIsTyped, PinInUse DEF PluginInv, TargetOK
<1>2. mnt[t] = <<>>  BY <1>1 DEF CallOK
<1>3. n \in Clients \cup {Bare}  BY DEF Answers
<1>4. mnt'[t] = <<n>> /\ \A u \in Targets : u # t => mnt'[u] = mnt[u]
  BY <1>1, <1>2 DEF PluginTypes
<1>5. mnt' \in [Targets -> Seq(Clients \cup {Bare})]  BY <1>1, <1>2, <1>3 DEF PluginTypes
<1>6. OnlyOn(t)  BY <1>1, <1>4, <1>5 DEF OnlyOn, PluginTypes
<1>7. call[c].pc \in Publishing  BY DEF Publishing
<1>8. ASSUME Kept, rec' = rec, pool' = pool
      PROVE  /\ MountOK(t)'
             /\ \A m \in Clients : mnt'[t] = <<m>> => call[c].rec.g <= client'[m].gen
  <2>1. \A m : mnt'[t] = <<m>> => m = n  BY <1>4
  <2>2. pool # "single" => n # Bare  BY <1>1 DEF CallOK
  <2>3. n \in Clients => call[c].rec.g <= client[n].gen /\ client[n].gen = Generation(rec)
    BY <1>7, AnswersNow, Numbers
  <2>4. n \in Clients => client'[n].gen = client[n].gen
    BY <1>1, <1>4, <1>8, MountedThen DEF Kept
  <2>5. card'[t] = card[t] /\ Generation(rec)' = Generation(rec)  BY <1>8 DEF Generation
  <2>6. MountOK(t)'
    BY <1>1, <1>3, <1>4, <1>8, <2>1, <2>2, <2>3, <2>4, <2>5 DEF MountOK
  <2> QED  BY <2>1, <2>3, <2>4, <2>6
<1> QED  BY <1>4, <1>6, <1>8

LEMMA BindKeeps ==
    ASSUME PluginInv, LockInv, NEW c \in Calls, Bind(c)
    PROVE  PluginInv'
<1> DEFINE t == TargetOf(c)
<1>1. /\ at[c] = "working" /\ call[c].pc = "bind" /\ call[c].op = "publish"
      /\ call[c].pc # "launch" /\ card' = card /\ Plain
  BY FaultsTyped DEF Bind, Work, Plain, Failed
<1>2. PluginTypes /\ t \in Targets /\ CallOK(c)  BY CallIsTyped DEF PluginInv
<1>3. ASSUME Answers(call[c].pin) \/ call[c].pin = Bare,
             mnt' = [mnt EXCEPT ![t] = Append(@, call[c].pin)], Goto(c, "record")
      PROVE  PluginInv'
  <2>1. "record" \in Steps \ {"launch"}  BY DEF Steps
  <2>2. OnlyOn(t) /\ mnt'[t] = <<call[c].pin>> /\ mnt'[t] # <<>>
    <3>1. OnlyOn(t) /\ mnt'[t] = <<call[c].pin>>  BY <1>1, <1>3, BoundFacts
    <3>2. <<call[c].pin>> # <<>>  OBVIOUS
    <3> QED  BY <3>1, <3>2
  <2>3. /\ Kept /\ rec' = rec /\ pool' = pool
        /\ at'[c] = "working" /\ call'[c].op = call[c].op /\ call'[c].pc = "record"
        /\ call'[c].rec = call[c].rec /\ call'[c].pin = call[c].pin
        /\ MountOK(t)' /\ CallOK(c)' => PluginInv'
    BY <1>1, <1>3, <2>1, <2>2, GotoSuffices
  <2>4. /\ MountOK(t)'
        /\ \A n \in Clients : mnt'[t] = <<n>> => call[c].rec.g <= client'[n].gen
    BY <1>1, <1>3, <2>3, BoundFacts
  <2>5. CallOK(c)'  BY <1>1, <1>2, <2>2, <2>3, <2>4 DEF CallOK, Publishing, Looking
  <2> QED  BY <2>3, <2>4, <2>5
<1>4. ASSUME Answers(call[c].pin) \/ call[c].pin = Bare,
             mnt' = [mnt EXCEPT ![t] = Append(@, call[c].pin)], Finish(c, FALSE)
      PROVE  PluginInv'
  <2>1. OnlyOn(t)  BY <1>1, <1>4, BoundFacts
  <2>2. /\ Kept /\ rec' = rec /\ pool' = pool /\ last'[t] = "failed"
        /\ MountOK(t)' /\ Told(t)' => PluginInv'
    BY <1>1, <1>4, <2>1, FinishSuffices
  <2>3. MountOK(t)'  BY <1>1, <1>4, <2>2, BoundFacts
  <2> QED  BY <2>2, <2>3 DEF Told
<1>5. CASE Finish(c, FALSE) /\ mnt' = mnt
  BY <1>1, <1>5, RefusalKeeps DEF targetVars
<1> QED  BY <1>3, <1>4, <1>5 DEF Bind, Failed

LEMMA RecordKeeps ==
    ASSUME PluginInv, LockInv, NEW c \in Calls, Record(c)
    PROVE  PluginInv'
<1> DEFINE t == TargetOf(c)
           r == call[c].rec
<1>1. /\ at[c] = "working" /\ call[c].pc = "record" /\ call[c].op = "publish"
      /\ call[c].pc # "launch" /\ mnt' = mnt /\ Plain
  BY FaultsTyped DEF Record, Work, Plain, Failed
<1>2. PluginTypes /\ t \in Targets /\ CallOK(c) /\ MountOK(t) /\ r \in [g : 0..2, c : 0..2]
  BY CallIsTyped DEF PluginInv, TargetOK
<1>3. CASE card' = Recorded(r, t) /\ Finish(c, TRUE)
  <2>1. r.g # 0 => r \in IdTypes
    BY <1>1, <1>2 DEF CallOK, IdTypes, Publishing
  <2>2. card'[t] = (IF r.g = 0 THEN card[t] ELSE r) /\ card' \in [Targets -> IdTypes]
        /\ \A u \in Targets : u # t => card'[u] = card[u]
    BY <1>2, <1>3, <2>1 DEF Recorded, PluginTypes
  <2>3. OnlyOn(t) /\ mnt'[t] = mnt[t]
    BY <1>1, <1>2, <2>2, InUseMeans DEF OnlyOn, PluginTypes
  <2>4. /\ Kept /\ rec' = rec /\ pool' = pool /\ last'[t] = "published"
        /\ MountOK(t)' /\ Told(t)' => PluginInv'
    BY <1>1, <1>3, <2>3, FinishSuffices
  <2>5. /\ mnt[t] # <<>> /\ r.g <= rec.g /\ (r.g = 0 => pool = "legacy")
        /\ \A n \in Clients : mnt[t] = <<n>> => r.g <= client[n].gen
    BY <1>1, <1>2 DEF CallOK, Publishing
  <2>6. \A n \in Clients : mnt'[t] = <<n>> => client'[n].gen = client[n].gen
    BY <1>1, <1>2, <2>4, MountedInUse, MountedThen DEF Kept
  <2>7. NoId.g = 0  BY DEF NoId
  <2>8. Told(t)'  BY <2>2, <2>3, <2>4, <2>5, <2>7 DEF Told
  <2>9. Generation(rec)' = Generation(rec) /\ r.g <= Generation(rec)
    BY <1>2, <2>4, <2>5 DEF Generation, PluginTypes
  <2>10. MountOK(t)'
    BY <1>2, <2>2, <2>3, <2>4, <2>5, <2>6, <2>7, <2>9 DEF MountOK
  <2> QED  BY <2>4, <2>8, <2>10
<1>4. CASE Finish(c, FALSE) /\ card' = card
  BY <1>1, <1>4, RefusalKeeps DEF targetVars
<1> QED  BY <1>3, <1>4 DEF Record, Failed

----------------------------------------------------------------------------
(* The steps of NodeUnpublishVolume. *)

LEMMA UnmountKeeps ==
    ASSUME PluginInv, LockInv, NEW c \in Calls, Unmount(c)
    PROVE  PluginInv'
<1> DEFINE t == TargetOf(c)
<1>1. /\ at[c] = "working" /\ call[c].pc = "unmount" /\ call[c].op = "unpublish"
      /\ call[c].pc # "launch"
  BY DEF Unmount, Work
<1>2. PluginTypes /\ t \in Targets /\ CallOK(c)  BY CallIsTyped DEF PluginInv
<1>3. \/ Plain /\ card' = card /\ OnlyOn(t) /\ Goto(c, "unlink")
         /\ (mnt'[t] = <<>> \/ mnt'[t] = mnt[t])
      \/ Plain /\ UNCHANGED targetVars /\ Finish(c, FALSE)
  <2>1. CASE mnt[t] # <<>>
    <3>1. Umount(c, "unlink")  BY <2>1 DEF Unmount
    <3> QED  BY <2>1, <3>1, UmountFacts
  <2>2. CASE mnt[t] = <<>>
    <3>1. Goto(c, "unlink") /\ Plain /\ UNCHANGED targetVars
      BY <2>2, FaultsTyped DEF Unmount, Plain, mountVars
    <3> QED  BY <1>2, <3>1, Untouched DEF targetVars
  <2> QED  BY <2>1, <2>2
<1>4. CASE Plain /\ card' = card /\ OnlyOn(t) /\ Goto(c, "unlink")
           /\ (mnt'[t] = <<>> \/ mnt'[t] = mnt[t])
  <2>1. "unlink" \in Steps \ {"launch"}  BY DEF Steps
  <2>2. /\ Kept /\ rec' = rec /\ pool' = pool
        /\ at'[c] = "working" /\ call'[c].op = call[c].op /\ call'[c].pc = "unlink"
        /\ call'[c].rec = call[c].rec /\ call'[c].pin = call[c].pin
        /\ MountOK(t)' /\ CallOK(c)' => PluginInv'
    BY <1>1, <1>4, <2>1, GotoSuffices
  <2>3. MountOK(t)'  BY <1>2, <1>4, <2>2, MountStays
  <2>4. CallOK(c)'  BY <1>1, <1>2, <2>2 DEF CallOK, Publishing, Looking
  <2> QED  BY <2>2, <2>3, <2>4
<1>5. CASE Plain /\ UNCHANGED targetVars /\ Finish(c, FALSE)
  BY <1>1, <1>5, RefusalKeeps
<1> QED  BY <1>3, <1>4, <1>5

LEMMA UnlinkKeeps ==
    ASSUME PluginInv, LockInv, NEW c \in Calls, Unlink(c)
    PROVE  PluginInv'
<1> DEFINE t == TargetOf(c)
<1>1. /\ at[c] = "working" /\ call[c].pc = "unlink" /\ call[c].op = "unpublish"
      /\ call[c].pc # "launch" /\ mnt' = mnt /\ Plain
  BY FaultsTyped DEF Unlink, Work, Plain, Failed, mountVars
<1>2. PluginTypes /\ t \in Targets  BY CallIsTyped DEF PluginInv
<1>3. CASE Removed(t) /\ Finish(c, TRUE)
  <2>1. OnlyOn(t) /\ mnt'[t] = <<>> /\ mnt'[t] = mnt[t] /\ card'[t] = NoId
    BY <1>1, <1>2, <1>3, RemovedFacts
  <2>2. /\ Kept /\ rec' = rec /\ pool' = pool /\ last'[t] = "unpublished"
        /\ MountOK(t)' /\ Told(t)' => PluginInv'
    BY <1>1, <1>3, <2>1, FinishSuffices
  <2>3. MountOK(t)'  BY <1>2, <2>1, <2>2, MountStays
  <2>4. Told(t)'  BY <2>1, <2>2 DEF Told
  <2> QED  BY <2>2, <2>3, <2>4
<1>4. CASE Finish(c, FALSE) /\ card' = card
  BY <1>1, <1>4, RefusalKeeps DEF targetVars
<1> QED  BY <1>3, <1>4 DEF Unlink, Failed

----------------------------------------------------------------------------
(* The shared client: one launch at a time, onto an empty mountpoint. *)

LEMMA OneLauncher ==
    ASSUME PluginInv, NEW c \in Calls, call[c].pc = "launch"
    PROVE  mutex = c /\ \A d \in Calls : d # c => call[d].pc # "launch"
BY DEF PluginInv, LaunchOK

LEMMA NoLauncher ==
    ASSUME PluginInv, mutex = NoCall
    PROVE  \A d \in Calls : call[d].pc # "launch"
BY LockAssumption DEF PluginInv, LaunchOK

LEMMA UnstackTyped ==
    ASSUME PluginTypes, stack' = IF stack = <<>> THEN <<>> ELSE Front(stack)
    PROVE  /\ stack' \in Seq(Clients)
           /\ \A i \in DOMAIN stack' : stack'[i] \in InUse
           /\ Len(stack) <= 1 => stack' = <<>>
<1>1. CASE stack = <<>>  BY <1>1
<1>2. CASE stack # <<>>
  <2>1. stack \in Seq(Clients) /\ Len(stack) \in Nat /\ Len(stack) >= 1
    BY <1>2 DEF PluginTypes
  <2>2. /\ stack' \in Seq(Clients) /\ Len(stack') = Len(stack) - 1
        /\ \A i \in 1..Len(stack') : stack'[i] = stack[i]
    <3>1. \A i \in 1 .. Len(stack) - 1 : stack[i] \in Clients  BY <2>1
    <3>2. stack' = SubSeq(stack, 1, Len(stack) - 1)  BY <1>2 DEF Front
    <3> QED  BY <2>1, <3>1, <3>2, SubSeqProperties
  <2>3. \A i \in DOMAIN stack' : i \in DOMAIN stack /\ stack'[i] = stack[i]
    BY <2>1, <2>2
  <2> QED  BY <2>1, <2>2, <2>3, StackInUse
<1> QED  BY <1>1, <1>2

LEMMA DetachStaleKeeps ==
    ASSUME PluginInv, LockInv, NEW c \in Calls, DetachStale(c)
    PROVE  PluginInv'
<1> DEFINE t == TargetOf(c)
<1>1. /\ at[c] = "working" /\ call[c].pc = "lock" /\ call[c].op = "publish" /\ mutex = NoCall
      /\ call[c].pc \in Looking \ {"launch"} /\ call[c].pc # "launch"
      /\ UNCHANGED targetVars /\ Quietly /\ Keep(client) /\ faults' \in 0..MaxFaults
  BY FaultsTyped DEF DetachStale, Work, Looking, MountLockFree, Failed
<1>2. /\ PluginTypes /\ t \in Targets /\ CallOK(c) /\ call[c].id \in IdTypes
      /\ call[c] \in CallTypes
      /\ call[c].pin \in Clients \cup {Bare, Unpinned} /\ call[c].pin \in InUse
  BY CallIsTyped, PinInUse DEF PluginInv, PluginTypes
<1>3. CASE /\ call' = [call EXCEPT ![c].id = NoId, ![c].pc = Mounted] /\ Stay
           /\ UNCHANGED <<stack, mutex>>
  <2>3. Moved(c, Mounted, NoId, call[c].pin)  BY <1>2, <1>3, MountedMoves
  <2>4. Mounted \in {"claim", "pin"} /\ NoId \in IdTypes  BY DEF Mounted, IdTypes
  <2>5. Plain  BY <1>1, <1>3 DEF Plain
  <2>6. call[c].pin = Bare => pool = "single"  BY <1>2 DEF CallOK
  <2> QED  BY <1>1, <1>2, <2>3, <2>4, <2>5, <2>6, LooksOn
<1>4. CASE /\ Goto(c, "launch") /\ mutex' = c
           /\ stack' = IF stack = <<>> THEN <<>> ELSE Front(stack)
  <2> DEFINE k == [op |-> call[c].op, pc |-> "launch", rec |-> call[c].rec,
                   id |-> call[c].id, pin |-> call[c].pin]
  <2>1. Moved(c, "launch", call[c].id, call[c].pin)  BY <1>2, <1>4, GotoMoves
  <2>2. k \in CallTypes  BY <1>2, CallIsTyped DEF CallTypes, Steps
  <2>3. /\ call' \in [Calls -> CallTypes] /\ call'[c] = k
        /\ \A d \in Calls : d # c => call'[d] = call[d]
    BY <1>2, <2>1, <2>2, CallTyped DEF Moved
  <2>4. UNCHANGED <<rec, pool, edits, late, orphaned, want, at, last, mnt, card>>
    BY <1>1, <2>1 DEF Moved, Stay, lockVars, Quietly, poolVars, targetVars
  <2>5. Frame(c)  BY <2>3, <2>4 DEF Frame
  <2>6. /\ stack' \in Seq(Clients) /\ \A i \in DOMAIN stack' : stack'[i] \in InUse
        /\ Len(stack) <= 1 => stack' = <<>>
    BY <1>2, <1>4, UnstackTyped
  <2>7. OnlyOn(t) /\ mnt'[t] = mnt[t] /\ card'[t] = card[t]  BY <1>1, <1>2, Untouched
  <2>8. \A n \in Clients : n \in InUse' => n \in InUse
    <3>1. call'[c].pin \in InUse  BY <1>2, <2>3
    <3> QED  BY <1>2, <2>3, <2>4, <2>6, <2>7, <3>1, NothingNew DEF OnlyOn
  <2>9. Kept /\ client' \in [Clients -> [id : IdTypes, gen : 0..2, up : BOOLEAN]]
    BY <1>1, <1>2, <2>8, KeepIsKept
  <2>10. PluginTypes'
    BY <1>1, <1>2, <1>4, <2>3, <2>4, <2>6, <2>9 DEF PluginTypes
  <2>11. LaunchOK'
    <3>1. \A d \in Calls : call'[d].pc = "launch" => mutex' = d
      BY <1>1, <1>4, <2>3, NoLauncher
    <3>2. call'[mutex'].pc = "launch"  BY <1>4, <2>3
    <3>3. LabelOK(late[1])' = LabelOK(late[1])  BY <2>4 DEF LabelOK, Generation
    <3>4. ~orphaned => stack' = <<>> /\ Len(stack') <= 1
      BY <2>6 DEF PluginInv, LaunchOK
    <3> QED  BY <2>4, <3>1, <3>2, <3>3, <3>4 DEF PluginInv, LaunchOK
  <2>12. MountOK(t)'  BY <1>2, <2>4, <2>7, <2>9, MountStays
  <2>13. \A n \in Clients : mnt'[t] = <<n>> => client'[n].gen = client[n].gen
    BY <1>2, <2>7, <2>9, MountedInUse, MountedThen DEF Kept
  <2>14. LabelOK(call[c].id)' = LabelOK(call[c].id)
         /\ Generation(call[c].rec)' = Generation(call[c].rec)
    BY <2>3, <2>4 DEF LabelOK, Generation
  <2>15. CallOK(c)'
    BY <1>1, <1>2, <2>3, <2>4, <2>13, <2>14 DEF CallOK, Looking, Publishing
  <2>16. Worked(t)'  BY <1>1, <2>4 DEF Worked
  <2> QED  BY <1>1, <2>5, <2>9, <2>10, <2>11, <2>12, <2>15, <2>16, FrameSuffices
<1>5. CASE Failed(c) /\ UNCHANGED <<stack, mutex>>
  BY <1>1, <1>5, RefusalKeeps DEF Failed, Plain
<1> QED  BY <1>3, <1>4, <1>5 DEF DetachStale

\* A client that starts is labelled with no more than the record.
LEMMA StartedKept ==
    ASSUME PluginInv, Free # {}, NEW id \in IdTypes, LabelOK(id),
           Started(NewClient, id), UNCHANGED <<rec, pool>>,
           \A d \in Calls : call'[d].pin = call[d].pin
    PROVE  /\ Kept /\ client' \in [Clients -> [id : IdTypes, gen : 0..2, up : BOOLEAN]]
           /\ stack' \in Seq(Clients) /\ Len(stack') = Len(stack) + 1
<1>1. PICK n : n = NewClient  OBVIOUS
<1>2. n \in Clients /\ n \notin InUse  BY <1>1 DEF NewClient, Free
<1>3. PluginTypes /\ Generation(rec) \in 1..2 /\ Generation(rec)' = Generation(rec)
  BY DEF PluginInv, Generation
<1>4. stack' = Append(stack, n) /\ mnt' = mnt  BY <1>1 DEF Started, targetVars
<1>5. /\ stack' \in Seq(Clients) /\ Len(stack') = Len(stack) + 1
      /\ \A i \in DOMAIN stack' : stack'[i] = n \/ \E j \in DOMAIN stack : stack'[i] = stack[j]
  BY <1>2, <1>3, <1>4 DEF PluginTypes
<1>6. \A m \in Clients : m \in InUse' => m \in InUse \/ m = n
  BY <1>3, <1>4, <1>5, InUseMeans, InUseThen
<1>7. client' = [m \in Clients |-> IF m \in InUse'
                    THEN [client EXCEPT ![n] = [id |-> id, gen |-> Generation(rec), up |-> TRUE]][m]
                    ELSE Gone]
  BY <1>1 DEF Started, Keep
<1>8. client' \in [Clients -> [id : IdTypes, gen : 0..2, up : BOOLEAN]]
  BY <1>2, <1>3, <1>7 DEF PluginTypes, Gone, IdTypes
<1>9. ASSUME NEW m \in Clients, m \in InUse', m \in InUse
      PROVE  client'[m] = client[m]
  BY <1>2, <1>3, <1>7, <1>9 DEF PluginTypes
<1>10. n \in InUse' => client'[n] = [id |-> id, gen |-> Generation(rec), up |-> TRUE]
  BY <1>2, <1>3, <1>7 DEF PluginTypes
<1>11. ClientOK(n)'  BY <1>3, <1>10 DEF ClientOK, LabelOK
<1>12. Kept  BY <1>6, <1>9, <1>11 DEF Kept
<1> QED  BY <1>5, <1>8, <1>12

LEMMA LaunchedOK ==
    ASSUME PluginInv, NEW c \in Calls, Frame(c), call[c].pc = "launch",
           call'[c].pc # "launch", mutex' = NoCall,
           ~orphaned => Len(stack') <= 1
    PROVE  LaunchOK'
<1>1. \A d \in Calls : call'[d].pc # "launch"  BY OneLauncher DEF Frame
<1>2. LabelOK(late[1])' = LabelOK(late[1])  BY DEF LabelOK, Frame, Generation
<1> QED  BY <1>1, <1>2 DEF PluginInv, LaunchOK, Frame

LEMMA LaunchKeeps ==
    ASSUME PluginInv, LockInv, NEW c \in Calls, Launch(c)
    PROVE  PluginInv'
<1> DEFINE t == TargetOf(c)
<1>1. /\ at[c] = "working" /\ call[c].pc = "launch" /\ call[c].op = "publish"
      /\ UNCHANGED targetVars /\ Quietly /\ mutex' = NoCall /\ faults' \in 0..MaxFaults
  BY FaultsTyped DEF Launch, Work, Started, Failed, LockAfter
<1>2. /\ PluginTypes /\ t \in Targets /\ CallOK(c) /\ call[c].id \in IdTypes
      /\ call[c] \in CallTypes /\ LabelOK(call[c].id)
      /\ call[c].pin \in Clients \cup {Bare, Unpinned} /\ call[c].pin \in InUse
  BY <1>1, CallIsTyped, PinInUse DEF PluginInv, PluginTypes, CallOK
<1>3. ~orphaned => stack = <<>>  BY <1>1 DEF PluginInv, LaunchOK
<1>4. OnlyOn(t) /\ mnt'[t] = mnt[t] /\ card'[t] = card[t]  BY <1>1, <1>2, Untouched
<1>5. UNCHANGED <<rec, pool, edits, late, orphaned, want, mnt, card>>
  BY <1>1 DEF Quietly, poolVars, targetVars
<1>6. ASSUME call' = [call EXCEPT ![c].id = NoId, ![c].pc = Mounted], Stay,
             \/ UNCHANGED mountVars
             \/ Free # {} /\ Started(NewClient, call[c].id)
      PROVE  PluginInv'
  <2> DEFINE k == [op |-> call[c].op, pc |-> Mounted, rec |-> call[c].rec,
                   id |-> NoId, pin |-> call[c].pin]
  <2>3. call' = [call EXCEPT ![c] = k]  BY <1>2, <1>6, MountedMoves DEF Moved
  <2>4. Mounted \in {"claim", "pin"} /\ NoId \in IdTypes  BY DEF Mounted, IdTypes
  <2>5. k \in CallTypes  BY <1>2, <2>4, CallIsTyped DEF CallTypes, Steps
  <2>6. /\ call' \in [Calls -> CallTypes] /\ call'[c] = k
        /\ \A d \in Calls : d # c => call'[d] = call[d]
    BY <1>2, <2>3, <2>5, CallTyped
  <2>7. at' = at /\ last' = last  BY <1>6 DEF Stay, lockVars
  <2>8. Frame(c)  BY <1>5, <2>6, <2>7 DEF Frame
  <2>9. \A d \in Calls : call'[d].pin = call[d].pin  BY <2>6
  <2>10. /\ Kept /\ client' \in [Clients -> [id : IdTypes, gen : 0..2, up : BOOLEAN]]
         /\ stack' \in Seq(Clients) /\ (~orphaned => Len(stack') <= 1)
    <3>1. CASE Free # {} /\ Started(NewClient, call[c].id)
      <4>1. /\ Kept /\ client' \in [Clients -> [id : IdTypes, gen : 0..2, up : BOOLEAN]]
            /\ stack' \in Seq(Clients) /\ Len(stack') = Len(stack) + 1
        BY <1>2, <1>5, <2>9, <3>1, StartedKept
      <4> QED  BY <1>3, <4>1
    <3>2. CASE UNCHANGED mountVars
      <4>1. \A i \in DOMAIN stack' : stack'[i] \in InUse
        BY <1>2, <3>2, StackInUse DEF mountVars
      <4>2. \A n \in Clients : n \in InUse' => n \in InUse
        BY <1>2, <1>4, <2>6, <4>1, NothingNew DEF OnlyOn
      <4> QED  BY <1>2, <1>3, <3>2, <4>2, KeepIsKept DEF mountVars, PluginTypes
    <3> QED  BY <1>6, <3>1, <3>2
  <2>11. PluginTypes'
    BY <1>1, <1>2, <1>5, <2>6, <2>7, <2>10 DEF PluginTypes
  <2>12. LaunchOK'  BY <1>1, <2>4, <2>6, <2>8, <2>10, LaunchedOK
  <2>13. MountOK(t)'  BY <1>2, <1>4, <1>5, <2>10, MountStays
  <2>14. \A n \in Clients : mnt'[t] = <<n>> => client'[n].gen = client[n].gen
    BY <1>2, <1>4, <2>10, MountedInUse, MountedThen DEF Kept
  <2>15. Generation(call[c].rec)' = Generation(call[c].rec)
    BY <2>6 DEF Generation
  <2>16. CallOK(c)'
    BY <1>1, <1>2, <1>5, <2>4, <2>6, <2>7, <2>14, <2>15 DEF CallOK, Looking, Publishing
  <2>17. Worked(t)'  BY <1>1, <2>7 DEF Worked
  <2> QED  BY <1>1, <2>8, <2>10, <2>11, <2>12, <2>13, <2>16, <2>17, FrameSuffices
<1>7. CASE Finish(c, FALSE) /\ UNCHANGED mountVars
  <2>1. Frame(c)  BY <1>5, <1>7, FinishFrame DEF Frame
  <2>2. \A i \in DOMAIN stack' : stack'[i] \in InUse
    BY <1>2, <1>7, StackInUse DEF mountVars
  <2>3. \A n \in Clients : n \in InUse' => n \in InUse
    <3>1. call'[c].pin = Unpinned /\ \A d \in Calls : d # c => call'[d] = call[d]
      <4>1. call'[c] = NewCall /\ \A d \in Calls : d # c => call'[d] = call[d]
        BY <1>7, FinishFrame
      <4> QED  BY <4>1 DEF NewCall
    <3> QED  BY <1>4, <1>5, <2>2, <3>1, NothingNew DEF OnlyOn
  <2>4. Kept  BY <1>2, <1>7, <2>3, KeepIsKept DEF mountVars
  <2>5. PluginTypes'
    BY <1>1, <1>2, <1>5, <1>7, FinishFrame DEF PluginTypes, mountVars
  <2>6. Len(stack') = Len(stack)  BY <1>7 DEF mountVars
  <2>7. LaunchOK'
    <3>1. call'[c].pc # "launch"
      <4>1. call'[c] = NewCall  BY <1>7, FinishFrame
      <4> QED  BY <4>1 DEF NewCall
    <3>2. ~orphaned => Len(stack') <= 1  BY <1>3, <2>6
    <3> QED  BY <1>1, <2>1, <3>1, <3>2, LaunchedOK
  <2>8. MountOK(t)'  BY <1>2, <1>4, <1>5, <2>4, MountStays
  <2>9. Told(t)'  BY <1>7, FinishFrame DEF Told
  <2>10. CallOK(c)'  BY <1>7, FinishFrame, FinishCallOK
  <2> QED  BY <1>1, <2>1, <2>4, <2>5, <2>7, <2>8, <2>9, <2>10, FrameSuffices
<1> QED  BY <1>6, <1>7 DEF Launch, Failed

----------------------------------------------------------------------------
(* Kubelet's requests and their locks. *)

\* A step at which nothing is mounted, unmounted or answered.
LEMMA AsideSuffices ==
    ASSUME PluginInv, LockInv, NEW c \in Calls, NEW k \in CallTypes,
           call' = [call EXCEPT ![c] = k], k.pc # "launch", call[c].pc # "launch",
           k.pin \in InUse \cup {Bare, Unpinned},
           \A d \in Calls : d # c => at'[d] = at[d],
           Elsewhere, UNCHANGED last, want' \in [Targets -> BOOLEAN],
           faults' \in 0..MaxFaults,
           at[c] # "working" \/ at'[c] = "working",
           CallOK(c)'
    PROVE  PluginInv'
<1> DEFINE t == TargetOf(c)
<1>1. PluginTypes /\ t \in Targets /\ TargetOK(t)  BY CallIsTyped DEF PluginInv
<1>2. /\ call' \in [Calls -> CallTypes] /\ call'[c] = k
      /\ \A d \in Calls : d # c => call'[d] = call[d]
  BY <1>1, CallTyped
<1>3. UNCHANGED <<rec, pool, edits, stack, client, mnt, card, mutex, late, orphaned, last>>
  BY DEF Elsewhere, poolVars, mountVars, targetVars
<1>4. Frame(c)  BY <1>2, <1>3 DEF Frame
<1>5. OnlyOn(t) /\ mnt'[t] = mnt[t] /\ card'[t] = card[t]
  BY <1>1, <1>3, Untouched DEF targetVars
<1>6. \A i \in DOMAIN stack' : stack'[i] \in InUse  BY <1>1, <1>3, StackInUse
<1>7. \A n \in Clients : n \in InUse' => n \in InUse
  BY <1>2, <1>5, <1>6, NothingNew DEF OnlyOn
<1>8. Kept  BY <1>1, <1>3, <1>7, KeepIsKept
<1>9. PluginTypes'  BY <1>1, <1>2, <1>3 DEF PluginTypes
<1>10. LaunchOK'  BY <1>2, <1>3, <1>4, PlainLaunch
<1>11. MountOK(t)'  BY <1>1, <1>3, <1>5, <1>8, MountStays
<1>12. Worked(t) => Worked(t)'  BY DEF Worked
<1>13. Told(t) => Told(t)'  BY <1>3 DEF Told
<1>14. Worked(t)' \/ Told(t)'  BY <1>1, <1>12, <1>13 DEF TargetOK
<1>15. UNCHANGED targetVars  BY <1>3 DEF targetVars
<1> QED  BY <1>4, <1>8, <1>9, <1>10, <1>11, <1>14, <1>15, FrameSuffices

LEMMA AskKeeps ==
    ASSUME PluginInv, LockInv, NEW c \in Calls, Retry(c) \/ Repeat(c) \/ ChangeMind(c)
    PROVE  PluginInv'
<1> DEFINE o == IF want'[TargetOf(c)] THEN "publish" ELSE "unpublish"
           k == [op |-> o, pc |-> "none", rec |-> NoId, id |-> NoId, pin |-> Unpinned]
<1>1. Ask(c) /\ (Calm \/ Trouble)  BY DEF Retry, Repeat, ChangeMind
<1>2. PluginTypes /\ TargetOf(c) \in Targets /\ CallOK(c)  BY CallIsTyped DEF PluginInv
<1>3. want' \in [Targets -> BOOLEAN]
  BY <1>2 DEF Retry, Repeat, ChangeMind, PluginTypes
<1>4. /\ at[c] = "idle" /\ at'[c] = "waiting" /\ \A d \in Calls : d # c => at'[d] = at[d]
  BY <1>1 DEF Ask, Enter, LockInv, LockTypeOK
<1>5. [NewCall EXCEPT !.op = o] = k  BY DEF NewCall
<1>6. call' = [call EXCEPT ![c] = k] /\ Elsewhere /\ UNCHANGED last
  BY <1>1, <1>5 DEF Ask
<1>7. k \in CallTypes  BY DEF CallTypes, Steps, NoId, IdTypes
<1>8. call[c].pc # "launch"  BY <1>2, <1>4 DEF CallOK
<1>9. faults' \in 0..MaxFaults  BY <1>1, FaultsTyped
<1>10. call'[c] = k  BY <1>2, <1>6 DEF PluginTypes
<1>11. o # "none" /\ k.op = o /\ k.pc = "none" /\ k.pin = Unpinned /\ k \in CallTypes
  BY <1>7
<1> HIDE DEF k, o
<1>12. CallOK(c)'
  BY <1>4, <1>10, <1>11, Numbers DEF CallOK, Publishing, Looking
<1> QED  BY <1>3, <1>4, <1>6, <1>8, <1>9, <1>11, <1>12, AsideSuffices

LEMMA StartKeeps ==
    ASSUME PluginInv, LockInv, NEW c \in Calls, Start(c)
    PROVE  PluginInv'
<1> DEFINE t == TargetOf(c)
<1>1. /\ PluginTypes /\ t \in Targets /\ CallOK(c) /\ call[c] \in CallTypes /\ MountOK(t)
      /\ call[c].pin \in InUse
  BY CallIsTyped, PinInUse DEF PluginInv, PluginTypes, TargetOK
<1>2. /\ at[c] = "waiting" /\ at'[c] = "working" /\ \A d \in Calls : d # c => at'[d] = at[d]
      /\ Elsewhere /\ faults' \in 0..MaxFaults /\ UNCHANGED <<want, last>>
  BY FaultsTyped DEF Start, Acquire, LockInv, LockTypeOK
<1>3. call[c].pc = "none" /\ call[c].pin = Unpinned /\ call[c].op \in {"publish", "unpublish"}
  BY <1>1, <1>2 DEF CallOK, CallTypes
<1>4. UNCHANGED <<rec, pool, client, mnt>>
  BY <1>2 DEF Elsewhere, poolVars, mountVars, targetVars
<1>5. PICK k \in CallTypes :
        /\ call' = [call EXCEPT ![c] = k] /\ k.op = call[c].op /\ k.pin = Unpinned
        /\ \/ k.op = "publish" /\ k.pc = "mount" /\ k.rec = rec
           \/ k.op = "unpublish" /\ k.pc = "unmount"
  <2>1. CASE call[c].op = "publish"
    <3>1. PICK k : k = [call[c] EXCEPT !.rec = rec, !.pc = "mount"]  OBVIOUS
    <3>2. k = [op |-> call[c].op, pc |-> "mount", rec |-> rec, id |-> call[c].id,
               pin |-> call[c].pin]
      BY <1>1, <3>1 DEF CallTypes
    <3>3. k \in CallTypes  BY <1>1, <3>2 DEF CallTypes, Steps, PluginTypes
    <3>4. call' = [call EXCEPT ![c] = k]  BY <2>1, <3>1 DEF Start
    <3> QED  BY <1>3, <2>1, <3>2, <3>3, <3>4
  <2>2. CASE call[c].op = "unpublish"
    <3>1. PICK k : k = [call[c] EXCEPT !.pc = "unmount"]  OBVIOUS
    <3>2. k = [op |-> call[c].op, pc |-> "unmount", rec |-> call[c].rec, id |-> call[c].id,
               pin |-> call[c].pin]
      BY <1>1, <3>1 DEF CallTypes
    <3>3. k \in CallTypes  BY <1>1, <3>2 DEF CallTypes, Steps
    <3>4. call' = [call EXCEPT ![c] = k]  BY <2>2, <3>1 DEF Start
    <3> QED  BY <1>3, <2>2, <3>2, <3>3, <3>4
  <2> QED  BY <1>3, <2>1, <2>2
<1>6. call'[c] = k  BY <1>1, <1>5 DEF PluginTypes
<1>7. \A n \in Clients : mnt[t] = <<n>> => client[n].gen <= Generation(rec)
  BY <1>1, MountedInUse DEF PluginInv, ClientOK
<1>8. rec.g \in 0..2 /\ rec.c # 0 /\ (rec.g = 0 => pool = "legacy")
  BY <1>1 DEF PluginInv, RecordOK, PluginTypes
<1>9. CallOK(c)'
  BY <1>2, <1>4, <1>5, <1>6, <1>7, <1>8, Numbers DEF CallOK, Publishing, Looking, Generation
<1> QED  BY <1>1, <1>2, <1>3, <1>5, <1>9, AsideSuffices DEF PluginTypes

LEMMA DepartKeeps ==
    ASSUME PluginInv, LockInv, NEW c \in Calls, Depart(c)
    PROVE  PluginInv'
<1>1. /\ PluginTypes /\ CallOK(c) /\ call[c] \in CallTypes /\ call[c].pin \in InUse
  BY PinInUse DEF PluginInv, PluginTypes
<1>2. /\ at[c] = "released" /\ at'[c] = "idle" /\ \A d \in Calls : d # c => at'[d] = at[d]
      /\ Elsewhere /\ faults' \in 0..MaxFaults /\ UNCHANGED <<call, want, last>>
  BY FaultsTyped DEF Depart, Leave, LockInv, LockTypeOK
<1>3. PICK k \in CallTypes : k = call[c]  BY <1>1
<1>4. call' = [call EXCEPT ![c] = k]  BY <1>1, <1>2, <1>3 DEF PluginTypes
<1>5. call[c].pc = "none" /\ call[c].pin = Unpinned  BY <1>1, <1>2 DEF CallOK
<1>6. CallOK(c)'  BY <1>2, <1>5, Numbers DEF CallOK, Publishing, Looking
<1> QED  BY <1>1, <1>2, <1>3, <1>4, <1>5, <1>6, AsideSuffices DEF PluginTypes

----------------------------------------------------------------------------
(* What happens without the handlers. *)

\* The record may only grow newer, and nothing of the requests changes.
LEMMA AroundSuffices ==
    ASSUME PluginInv, Kept, UNCHANGED <<call, at, mnt, card, last, pool>>,
           rec.g <= rec'.g, PluginTypes', RecordOK', LaunchOK'
    PROVE  PluginInv'
<1>1. PluginTypes  BY DEF PluginInv
<1>2. Generation(rec) <= Generation(rec)' /\ Generation(rec) \in Nat /\ Generation(rec)' \in Nat
      /\ rec.g \in Nat /\ rec'.g \in Nat
  BY <1>1 DEF Generation, PluginTypes
<1>3. ASSUME NEW n \in Clients PROVE ClientOK(n)'
  <2>1. client[n].gen \in Nat /\ client[n].id.g \in Nat
    BY <1>1 DEF PluginTypes, IdTypes, NoId
  <2>2. CASE n \in InUse' /\ n \in InUse
    BY <1>2, <2>1, <2>2 DEF PluginInv, ClientOK, Kept
  <2>3. CASE n \in InUse' /\ n \notin InUse  BY <2>3 DEF Kept
  <2> QED  BY <2>2, <2>3 DEF ClientOK
<1>4. ASSUME NEW t \in Targets, NEW n \in Clients, mnt[t] = <<n>>
      PROVE  client'[n].gen = client[n].gen /\ client'[n].id = client[n].id
  BY <1>4, MountedInUse, MountedThen DEF Kept
<1>5. ASSUME NEW t \in Targets PROVE TargetOK(t)'
  <2>1. TargetOK(t) /\ card[t].g \in Nat  BY <1>1 DEF PluginInv, PluginTypes, IdTypes, NoId
  <2>2. MountOK(t)'  BY <1>2, <1>4, <2>1 DEF TargetOK, MountOK
  <2>3. Worked(t)' = Worked(t) /\ Told(t)' = Told(t)  BY DEF Worked, Told
  <2> QED  BY <2>1, <2>2, <2>3 DEF TargetOK
<1>6. ASSUME NEW c \in Calls PROVE CallOK(c)'
  <2> DEFINE t == TargetOf(c)
  <2>1. t \in Targets /\ CallOK(c) /\ call[c].rec.g \in Nat /\ call[c].id.g \in Nat
    BY <1>1, CallIsTyped DEF PluginInv, IdTypes, NoId
  <2>2. LabelOK(call[c].id) => LabelOK(call[c].id)'  BY <1>2, <2>1 DEF LabelOK
  <2>3. call[c].pc = "clear" => SameLogical(call[c].rec, t)'
    <3> SUFFICES ASSUME call[c].pc = "clear" PROVE SameLogical(call[c].rec, t)'  OBVIOUS
    <3>1. PICK n \in Clients \cup {Bare} : mnt[t] = <<n>>
      BY <2>1, TheMount DEF CallOK
    <3>2. SameLogical(call[c].rec, t)  BY <2>1 DEF CallOK
    <3>3. PICK r : r = call[c].rec /\ r = call'[c].rec  OBVIOUS
    <3>4. SameLogical(r, t)'  BY <2>1, <3>1, <3>2, <3>3, LogicalStays
    <3> QED  BY <3>3, <3>4
  <2>4. Generation(call[c].rec)' = Generation(call[c].rec)  BY DEF Generation
  <2> QED  BY <1>2, <1>4, <2>1, <2>2, <2>3, <2>4 DEF CallOK
<1> QED  BY <1>3, <1>5, <1>6 DEF PluginInv

LEMMA SameLaunch ==
    ASSUME PluginInv, UNCHANGED <<call, mutex, late, orphaned, stack, pool>>, rec.g <= rec'.g,
           rec' \in [g : 0..2, c : 1..2]
    PROVE  LaunchOK'
<1>1. PluginTypes  BY DEF PluginInv
<1>2. late # <<>> => late[1] \in IdTypes  BY <1>1 DEF PluginTypes
<1>3. late # <<>> => late[1].g \in Nat  BY <1>2 DEF IdTypes, NoId
<1>4. late # <<>> /\ LabelOK(late[1]) => LabelOK(late[1])'
  BY <1>1, <1>3 DEF LabelOK, Generation, PluginTypes
<1> QED  BY <1>4 DEF PluginInv, LaunchOK

LEMMA EditPoolKeeps ==
    ASSUME PluginInv, EditPool
    PROVE  PluginInv'
<1>1. PluginTypes /\ rec \in [g : 0..2, c : 1..2]  BY DEF PluginInv, PluginTypes
<1>2. rec' \in [g : 0..2, c : 1..2] /\ rec.g <= rec'.g /\ (rec'.g = 0 => rec.g = 0)
  BY <1>1 DEF EditPool
<1>3. UNCHANGED <<pool, client, stack, mnt, card, call, mutex, late, orphaned, want, last, at,
                  faults>>
  BY DEF EditPool, lockVars, mountVars, targetVars, Calm
<1>4. edits' \in 0..MaxEdits  BY <1>1, NodeAssumption DEF EditPool, PluginTypes
<1>5. Kept
  <2>1. InUse' = InUse  BY <1>3 DEF InUse
  <2> QED  BY <1>3, <2>1 DEF Kept
<1>6. PluginTypes'  BY <1>1, <1>2, <1>3, <1>4 DEF PluginTypes
<1>7. RecordOK'  BY <1>2, <1>3 DEF PluginInv, RecordOK
<1>8. LaunchOK'  BY <1>2, <1>3, SameLaunch
<1> QED  BY <1>2, <1>3, <1>5, <1>6, <1>7, <1>8, AroundSuffices

LEMMA ClientDiesKeeps ==
    ASSUME PluginInv, NEW n \in Clients, ClientDies(n)
    PROVE  PluginInv'
<1>1. PluginTypes  BY DEF PluginInv
<1>2. /\ UNCHANGED <<rec, pool, edits, stack, mnt, card, call, mutex, late, orphaned, want, last, at>>
      /\ faults' \in 0..MaxFaults
  BY FaultsTyped DEF ClientDies, lockVars, poolVars, targetVars
<1>3. /\ client' \in [Clients -> [id : IdTypes, gen : 0..2, up : BOOLEAN]]
      /\ \A m \in Clients : client'[m].id = client[m].id /\ client'[m].gen = client[m].gen
  <2>1. client[n] \in [id : IdTypes, gen : 0..2, up : BOOLEAN]  BY <1>1 DEF PluginTypes
  <2>2. PICK k : k = [client[n] EXCEPT !.up = FALSE]  OBVIOUS
  <2>3. k \in [id : IdTypes, gen : 0..2, up : BOOLEAN] /\ k.id = client[n].id
        /\ k.gen = client[n].gen
    BY <2>1, <2>2
  <2>4. client' = [client EXCEPT ![n] = k]  BY <2>2 DEF ClientDies
  <2> QED  BY <1>1, <2>3, <2>4 DEF PluginTypes
<1>4. Kept
  <2>1. InUse' = InUse  BY <1>2 DEF InUse
  <2> QED  BY <1>3, <2>1 DEF Kept
<1>5. PluginTypes'  BY <1>1, <1>2, <1>3 DEF PluginTypes
<1>6. RecordOK'  BY <1>2 DEF PluginInv, RecordOK
<1>7. rec.g <= rec'.g /\ rec' \in [g : 0..2, c : 1..2]  BY <1>1, <1>2 DEF PluginTypes
<1>8. LaunchOK'  BY <1>2, <1>7, SameLaunch
<1> QED  BY <1>2, <1>4, <1>5, <1>6, <1>7, <1>8, AroundSuffices

LEMMA LateLaunchKeeps ==
    ASSUME PluginInv, LateLaunch
    PROVE  PluginInv'
<1>1. PluginTypes  BY DEF PluginInv
<1>2. late # <<>> /\ late[1] \in IdTypes /\ LabelOK(late[1]) /\ orphaned
  BY <1>1 DEF LateLaunch, PluginTypes, PluginInv, LaunchOK
<1>3. /\ UNCHANGED <<rec, pool, edits, mnt, card, call, mutex, orphaned, want, last, at, faults>>
      /\ late' = <<>> /\ Free # {} /\ Started(NewClient, late[1])
  BY DEF LateLaunch, Started, lockVars, poolVars, targetVars, Calm
<1>4. /\ Kept /\ client' \in [Clients -> [id : IdTypes, gen : 0..2, up : BOOLEAN]]
      /\ stack' \in Seq(Clients)
  BY <1>2, <1>3, StartedKept
<1>5. PluginTypes'  BY <1>1, <1>3, <1>4 DEF PluginTypes
<1>6. RecordOK'  BY <1>3 DEF PluginInv, RecordOK
<1>7. LaunchOK'  BY <1>2, <1>3 DEF PluginInv, LaunchOK
<1>8. rec.g <= rec'.g  BY <1>1, <1>3 DEF PluginTypes
<1> QED  BY <1>3, <1>4, <1>5, <1>6, <1>7, <1>8, AroundSuffices

\* A death ends every request; the targets are mounts of the host.
LEMMA InterruptedSuffices ==
    ASSUME PluginInv, LockInv, Interrupted,
           stack' = stack \/ stack' = <<>>,
           Keep(client) \/ Keep([n \in Clients |-> [client[n] EXCEPT !.up = FALSE]]),
           late' \in {<<>>} \cup {<<i>> : i \in IdTypes}, orphaned' \in BOOLEAN,
           late' # <<>> => orphaned' /\ LabelOK(late'[1]),
           ~orphaned' => Len(stack') <= 1
    PROVE  PluginInv'
<1>1. PluginTypes  BY DEF PluginInv
<1>2. /\ UNCHANGED <<rec, pool, edits, mnt, card, want>> /\ mutex' = NoCall
      /\ faults' \in 0..MaxFaults
      /\ \A c \in Calls : call'[c] = NewCall /\ at'[c] = "idle"
      /\ last' = [t \in Targets |-> IF Busy(t) THEN "failed" ELSE last[t]]
  BY FaultsTyped DEF Interrupted, Forget, poolVars, targetVars
<1>3. call' \in [Calls -> CallTypes]
  BY DEF Interrupted, NewCall, CallTypes, Steps, NoId, IdTypes
<1>4. \A n \in Clients : n \in InUse' => n \in InUse
  BY <1>1, <1>2, Numbers, InUseMeans, InUseThen DEF NewCall
<1>5. Kept /\ client' \in [Clients -> [id : IdTypes, gen : 0..2, up : BOOLEAN]]
  BY <1>1, <1>4, KeepIsKept
<1>6. PluginTypes'
  <2>1. stack' \in Seq(Clients)
    <3>1. stack \in Seq(Clients) /\ <<>> \in Seq(Clients)  BY <1>1 DEF PluginTypes
    <3> QED  BY <3>1
  <2>2. last' \in [Targets -> {"published", "unpublished", "failed"}]
    BY <1>1, <1>2 DEF PluginTypes
  <2>3. mutex' \in Calls \cup {NoCall}  BY <1>2
  <2> QED  BY <1>1, <1>2, <1>3, <1>5, <2>1, <2>2, <2>3 DEF PluginTypes
<1>7. RecordOK' /\ Generation(rec)' = Generation(rec)
  BY <1>2 DEF PluginInv, RecordOK, Generation
<1>8. LabelOK(late[1])' = LabelOK(late'[1])  BY <1>2, <1>7 DEF LabelOK
<1>9. LaunchOK'
  BY <1>2, <1>8 DEF LaunchOK, NewCall
<1>10. ASSUME NEW n \in Clients PROVE ClientOK(n)'
  BY <1>2, <1>5, <1>7 DEF PluginInv, ClientOK, Kept
<1>11. ASSUME NEW t \in Targets PROVE TargetOK(t)'
  <2>1. MountOK(t)'  BY <1>2, <1>5, MountStays
  <2>2. Told(t)'
    <3>1. CASE Busy(t)  BY <1>2, <3>1 DEF Told
    <3>2. CASE ~Busy(t)
      <4>1. ~Worked(t)  BY <3>2 DEF Busy, Worked
      <4>2. Told(t)  BY <4>1 DEF PluginInv, TargetOK
      <4> QED  BY <1>2, <3>2, <4>2 DEF Told
    <3> QED  BY <3>1, <3>2
  <2> QED  BY <2>1, <2>2 DEF TargetOK
<1>12. ASSUME NEW c \in Calls PROVE CallOK(c)'
  BY <1>2, Numbers DEF CallOK, NewCall, Publishing, Looking
<1> QED  BY <1>6, <1>7, <1>9, <1>10, <1>11, <1>12 DEF PluginInv

LEMMA CsiDiesKeeps ==
    ASSUME PluginInv, LockInv, CsiDies
    PROVE  PluginInv'
<1>1. PluginTypes /\ Interrupted /\ stack' = stack /\ Keep(client)
  BY DEF PluginInv, CsiDies
<1>2. CASE UNCHANGED <<late, orphaned>>
  <2>1. /\ late' \in {<<>>} \cup {<<i>> : i \in IdTypes} /\ orphaned' \in BOOLEAN
        /\ late' # <<>> => orphaned' /\ LabelOK(late'[1])
        /\ ~orphaned' => Len(stack') <= 1
    BY <1>1, <1>2 DEF PluginTypes, PluginInv, LaunchOK
  <2> QED  BY <1>1, <2>1, InterruptedSuffices
<1>3. CASE mutex # NoCall /\ late' = <<call[mutex].id>> /\ orphaned' = TRUE
  <2>1. mutex \in Calls /\ call[mutex].pc = "launch"
    BY <1>1, <1>3 DEF PluginTypes, PluginInv, LaunchOK
  <2>2. call[mutex].id \in IdTypes /\ LabelOK(call[mutex].id)
    BY <2>1, CallIsTyped DEF PluginInv, CallOK
  <2>3. late'[1] = call[mutex].id  BY <1>3
  <2>4. /\ late' \in {<<>>} \cup {<<i>> : i \in IdTypes} /\ orphaned' \in BOOLEAN
        /\ late' # <<>> => orphaned' /\ LabelOK(late'[1])
        /\ ~orphaned' => Len(stack') <= 1
    BY <1>3, <2>2, <2>3
  <2> QED  BY <1>1, <2>4, InterruptedSuffices
<1> QED  BY <1>2, <1>3 DEF CsiDies

LEMMA PodDiesKeeps ==
    ASSUME PluginInv, LockInv, PodDies
    PROVE  PluginInv'
<1>1. /\ Interrupted /\ stack' = <<>> /\ late' = <<>> /\ orphaned' = FALSE
      /\ Keep([n \in Clients |-> [client[n] EXCEPT !.up = FALSE]])
  BY DEF PodDies
<1>2. Len(stack') <= 1  BY <1>1
<1> QED  BY <1>1, <1>2, InterruptedSuffices

LEMMA InitHolds == Init => PluginInv
<1> SUFFICES ASSUME Init PROVE PluginInv  OBVIOUS
<1>1. /\ rec \in [g : 0..2, c : 1..2] /\ (rec.g = 0 => pool = "legacy") /\ pool \in Pools
      /\ \A c \in Calls : call[c] = NewCall /\ at[c] = "idle"
      /\ \A t \in Targets : mnt[t] = <<>> /\ card[t] = NoId /\ last[t] # "published"
      /\ stack = <<>> /\ late = <<>> /\ mutex = NoCall
  BY DEF Init, LockInit
<1>2. NewCall \in CallTypes  BY DEF NewCall, CallTypes, Steps, NoId, IdTypes
<1>3. PluginTypes
  <2>1. stack \in Seq(Clients)  BY <1>1
  <2>2. mnt \in [Targets -> Seq(Clients \cup {Bare})]  BY DEF Init
  <2>3. card \in [Targets -> IdTypes] /\ call \in [Calls -> CallTypes]
    BY <1>2 DEF Init, IdTypes
  <2>4. client \in [Clients -> [id : IdTypes, gen : 0..2, up : BOOLEAN]]
    BY DEF Init, Gone, IdTypes
  <2>5. want \in [Targets -> BOOLEAN]  BY DEF Init
  <2>6. last \in [Targets -> {"published", "unpublished", "failed"}]  BY DEF Init
  <2>7. faults \in 0..MaxFaults /\ edits \in 0..MaxEdits /\ orphaned \in BOOLEAN
    <3>1. faults = 0 /\ edits = 0 /\ orphaned = FALSE  BY DEF Init
    <3>2. 0 \in 0..MaxFaults /\ 0 \in 0..MaxEdits  BY NodeAssumption
    <3>3. FALSE \in BOOLEAN  OBVIOUS
    <3> QED  BY <3>1, <3>2, <3>3, Zenon
  <2> QED  BY <1>1, <2>1, <2>2, <2>3, <2>4, <2>5, <2>6, <2>7 DEF PluginTypes
<1>4. RecordOK /\ LaunchOK  BY <1>1 DEF RecordOK, LaunchOK, NewCall
<1>5. ASSUME NEW n \in Clients PROVE ClientOK(n)
  BY <1>1, Numbers, InUseMeans DEF ClientOK, NewCall
<1>6. ASSUME NEW t \in Targets PROVE TargetOK(t)
  <2>1. NoId.g = 0 /\ Generation(rec) \in Nat  BY DEF NoId, Generation
  <2>2. \A n : mnt[t] # <<n>>
    <3>1. \A n : <<>> # <<n>>  OBVIOUS
    <3> QED  BY <1>1, <3>1
  <2> QED  BY <1>1, <2>1, <2>2 DEF TargetOK, MountOK, Told
<1>7. ASSUME NEW c \in Calls PROVE CallOK(c)
  BY <1>1, Numbers DEF CallOK, NewCall, Publishing, Looking
<1> QED  BY <1>3, <1>4, <1>5, <1>6, <1>7 DEF PluginInv

LEMMA StepKeepsPlugin ==
    ASSUME PluginInv, LockInv, [Next]_vars
    PROVE  PluginInv'
<1>1. CASE \E c \in Calls : Retry(c) \/ Repeat(c) \/ ChangeMind(c)
  BY <1>1, AskKeeps
<1>2. CASE \E c \in Calls : Step(c)
  BY <1>2, StartKeeps, MountPoolKeeps, DetachStaleKeeps, LaunchKeeps, CheckClaimKeeps,
     PinSourceKeeps, InspectKeeps, ClearStaleKeeps, CleanStaleKeeps, BindKeeps,
     RecordKeeps, UnmountKeeps, UnlinkKeeps, DepartKeeps DEF Step
<1>3. CASE EditPool  BY <1>3, EditPoolKeeps
<1>4. CASE \E n \in Clients : ClientDies(n)  BY <1>4, ClientDiesKeeps
<1>5. CASE CsiDies  BY <1>5, CsiDiesKeeps
<1>6. CASE LateLaunch  BY <1>6, LateLaunchKeeps
<1>7. CASE PodDies  BY <1>7, PodDiesKeeps
<1>8. CASE UNCHANGED vars
  <2>1. UNCHANGED <<rec, pool, edits, client, stack, mnt, card, call, mutex, late, orphaned,
                    want, last, faults, at>>
    BY <1>8 DEF vars, lockVars, poolVars, mountVars, targetVars
  <2>2. Kept
    <3>1. InUse' = InUse  BY <2>1 DEF InUse
    <3> QED  BY <2>1, <3>1 DEF Kept
  <2>3. PluginTypes' /\ RecordOK'  BY <2>1 DEF PluginInv, PluginTypes, RecordOK
  <2>4. rec.g <= rec'.g /\ rec' \in [g : 0..2, c : 1..2]
    BY <2>1 DEF PluginInv, PluginTypes
  <2>5. LaunchOK'  BY <2>1, <2>4, SameLaunch
  <2> QED  BY <2>1, <2>2, <2>3, <2>4, <2>5, AroundSuffices
<1> QED  BY <1>1, <1>2, <1>3, <1>4, <1>5, <1>6, <1>7, <1>8 DEF Next

----------------------------------------------------------------------------
LEMMA Invariant == Spec => [](PluginInv /\ LockInv)
<1>1. Init => PluginInv /\ LockInv
  BY InitHolds, EmptyTable DEF Init, LockInit
<1>2. PluginInv /\ LockInv /\ [Next]_vars => (PluginInv /\ LockInv)'
  BY StepKeepsPlugin, PluginUsesLocks, StepKeepsLockInv
<1> QED  BY <1>1, <1>2, PTL DEF Spec

LEMMA SoundTypes == PluginInv /\ LockInv => TypeOK
<1> SUFFICES ASSUME PluginInv, LockInv PROVE TypeOK  OBVIOUS
<1>1. \A c \in Calls :
         /\ call[c].op \in {"none", "publish", "unpublish"}
         /\ call[c].pin \in Clients \cup {Bare, Unpinned}
  BY CallIsTyped DEF PluginInv
<1>2. \A c \in Calls :
         /\ at[c] # "working" => call[c].pin = Unpinned
         /\ call[c].pc \in {"lock", "launch"} => at[c] = "working"
  BY DEF PluginInv, CallOK
<1>3. mutex # NoCall => call[mutex].pc = "launch"  BY DEF PluginInv, LaunchOK
<1> QED  BY <1>1, <1>2, <1>3 DEF TypeOK, LockInv, PluginInv, PluginTypes

LEMMA SoundAnswers == PluginInv => AnswersStayTrue
<1> SUFFICES ASSUME PluginInv, NEW t \in Targets, Quiet(t)
             PROVE  /\ last[t] = "published" =>
                         /\ Len(mnt[t]) = 1
                         /\ card[t] = NoId => pool = "legacy"
                         /\ pool # "single" => mnt[t][1] # Bare
                    /\ last[t] = "unpublished" => mnt[t] = <<>> /\ card[t] = NoId
  BY DEF AnswersStayTrue
<1>1. Told(t) /\ MountOK(t)
  BY DEF PluginInv, TargetOK, Worked, Quiet, Busy
<1>2. ASSUME NEW n, mnt[t] = <<n>> PROVE Len(mnt[t]) = 1 /\ mnt[t][1] = n
  BY <1>2
<1>3. mnt[t] # <<>> => Len(mnt[t]) = 1 /\ mnt[t] = <<mnt[t][1]>>
  BY <1>1, <1>2 DEF MountOK
<1> QED  BY <1>1, <1>3 DEF Told, MountOK

LEMMA SoundRecovery == PluginInv => PublishedIsRecoverable
<1> SUFFICES ASSUME PluginInv, NEW t \in Targets, Quiet(t), last[t] = "published",
                    pool # "legacy", rec.g = 1, mnt[t][1] # Bare
             PROVE  SameLogical(rec, t)
  BY DEF PublishedIsRecoverable
<1>1. Told(t) /\ MountOK(t)
  BY DEF PluginInv, TargetOK, Worked, Quiet, Busy
<1>2. mnt[t] # <<>> /\ card[t] # NoId /\ card[t].g # 0 /\ card[t].g <= 1
  BY <1>1 DEF Told, MountOK, Generation
<1>3. card[t].g \in Nat  BY DEF PluginInv, PluginTypes, IdTypes, NoId
<1>4. CardMatches(rec, t)  BY <1>2, <1>3 DEF CardMatches
<1>5. PICK n \in Clients \cup {Bare} : mnt[t] = <<n>> /\ Last(mnt[t]) = n /\ n \in InUse
  BY <1>2, TheMount
<1>6. mnt[t][1] = n  BY <1>5
<1>7. n # Bare /\ ClientOK(n) /\ client[n] \in [id : IdTypes, gen : 0..2, up : BOOLEAN]
  BY <1>5, <1>6 DEF PluginInv, PluginTypes
<1>8. client[n].id.g \in Nat /\ client[n].gen \in Nat  BY <1>7 DEF IdTypes, NoId
<1>9. client[n].id.g = 1  BY <1>5, <1>7, <1>8 DEF ClientOK, Generation
<1> QED  BY <1>4, <1>5, <1>7, <1>9 DEF SameLogical

----------------------------------------------------------------------------
(***************************************************************************)
(* The state of the node plugin has the types of its variables; a request  *)
(* holds a source open and the launch lock only while it works             *)
(* (nodeserver.py NodePublishVolume, volumeutils.py mount_glusterfs).      *)
(***************************************************************************)
THEOREM TypeCorrect == Spec => []TypeOK
BY Invariant, SoundTypes, PTL

(***************************************************************************)
(* What the last request on a target was told stays true until the next    *)
(* one (mount_volume, unmount_volume).                                     *)
(***************************************************************************)
THEOREM AnswersAreTrue == Spec => []AnswersStayTrue
BY Invariant, SoundAnswers, PTL

(***************************************************************************)
(* A published target of a pool that has kept its identity is recognised   *)
(* by the next publish, whatever happened to the clients and to the        *)
(* configuration (_same_logical_stale_source).                             *)
(***************************************************************************)
THEOREM TargetsAreRecoverable == Spec => []PublishedIsRecoverable
BY Invariant, SoundRecovery, PTL

(***************************************************************************)
(* The pool's mountpoint carries one client, however many requests find it *)
(* missing, unless a launch outlived the process that had started it       *)
(* (mount_lock).                                                           *)
(***************************************************************************)
THEOREM PoolHasOneClient == Spec => []OneClient
<1>1. PluginInv => OneClient  BY DEF PluginInv, LaunchOK, OneClient
<1> QED  BY <1>1, Invariant, PTL

(***************************************************************************)
(* A publish request takes a mount off its target only when it is one of   *)
(* the pool generation the request was made for (mount_volume).            *)
(***************************************************************************)
THEOREM GenerationsAreKept == Spec => RebuildKeepsGeneration
<1>1. ASSUME PluginInv, LockInv, [Next]_vars, NEW c \in Calls, ClearStale(c)
      PROVE  client[Last(mnt[TargetOf(c)])].gen = Generation(call[c].rec)
  <2> DEFINE t == TargetOf(c)
             r == call[c].rec
  <2>1. t \in Targets /\ CallOK(c) /\ MountOK(t) /\ call[c].pc = "clear"
        /\ r \in [g : 0..2, c : 0..2]
    BY <1>1, CallIsTyped DEF PluginInv, TargetOK, ClearStale, Work
  <2>2. /\ mnt[t] # <<>> /\ SameLogical(r, t) /\ (r.g = 0 => pool = "legacy")
        /\ \A n \in Clients : mnt[t] = <<n>> => client[n].gen <= Generation(r)
    BY <2>1 DEF CallOK, Publishing, Looking
  <2>3. PICK n \in Clients \cup {Bare} : mnt[t] = <<n>> /\ Last(mnt[t]) = n /\ n \in InUse
    BY <1>1, <2>1, <2>2, TheMount
  <2>4. n # Bare
    BY <2>1, <2>2, <2>3 DEF SameLogical, MountOK
  <2>5. ClientOK(n) /\ client[n] \in [id : IdTypes, gen : 0..2, up : BOOLEAN]
        /\ card[t] \in IdTypes
    BY <1>1, <2>1, <2>3, <2>4 DEF PluginInv, PluginTypes
  <2>6. /\ client[n].gen \in 1..2 /\ client[n].gen <= Generation(r)
        /\ client[n].id.g <= client[n].gen /\ card[t].g <= client[n].gen
        /\ client[n].id.g \in Nat /\ card[t].g \in Nat
    BY <2>1, <2>2, <2>3, <2>4, <2>5 DEF ClientOK, MountOK, IdTypes, NoId
  <2>7. \/ r.g = 0 \/ client[n].id.g = r.g \/ card[t].g = r.g
        \/ client[n].id = NoId /\ LegacyFallback(r)
    BY <2>2, <2>3, <2>4 DEF SameLogical, CardMatches
  <2> QED  BY <2>1, <2>3, <2>6, <2>7 DEF Generation, LegacyFallback
<1>2. PluginInv /\ LockInv /\ [Next]_vars
        => [\A c \in Calls : ClearStale(c) /\ mnt'[TargetOf(c)] # mnt[TargetOf(c)] =>
               client[Last(mnt[TargetOf(c)])].gen = Generation(call[c].rec)]_vars
  BY <1>1
<1> QED  BY <1>2, Invariant, PTL DEF Spec, RebuildKeepsGeneration

(***************************************************************************)
(* No request takes away a live client with the identity it needs itself   *)
(* (the second look in mount_glusterfs).                                   *)
(***************************************************************************)
THEOREM LiveClientsAreKept == Spec => LiveClientKept
<1>1. ASSUME PluginInv, NEW c \in Calls, DetachStale(c), stack # <<>>, stack' # stack
      PROVE  ~ (client[Last(stack)].up /\ Matches(client[Last(stack)].id, call[c].id))
  <2>1. ~Established(call[c].id)  BY <1>1 DEF DetachStale, Recheck
  <2>2. Last(stack) \in InUse \cap Clients  BY <1>1, TopInUse DEF PluginInv
  <2>3. Len(stack) \in DOMAIN stack /\ stack[Len(stack)] = Last(stack)
    BY <1>1 DEF Last, PluginInv, PluginTypes
  <2> QED  BY <2>1, <2>2, <2>3 DEF Established
<1>2. PluginInv /\ [Next]_vars
        => [\A c \in Calls : DetachStale(c) /\ stack # <<>> /\ stack' # stack =>
               ~ (client[Last(stack)].up /\ Matches(client[Last(stack)].id, call[c].id))]_vars
  BY <1>1
<1> QED  BY <1>2, Invariant, PTL DEF Spec, LiveClientKept
====
