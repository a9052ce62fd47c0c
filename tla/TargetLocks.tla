---- MODULE TargetLocks ----
(***************************************************************************)
(* The table of per-target locks of the node plugin (nodeserver.py).       *)
(* Every NodePublishVolume and NodeUnpublishVolume runs inside             *)
(* _target_operation_lock: under TARGET_LOCKS_GUARD it finds or makes the  *)
(* entry of its target path, a lock and a count of users, then it waits    *)
(* for the lock; afterwards it releases the lock and, under the guard      *)
(* again, counts itself out and deletes the entry when nobody is left.     *)
(* The guard is never held across two of these steps, so each of them is   *)
(* one action.  An entry is an object: a call that has it keeps it even if *)
(* the table forgets it.                                                   *)
(***************************************************************************)
EXTENDS Naturals, FiniteSets

CONSTANTS Targets,     \* target paths
          Threads,     \* numbers for the overlapping requests for one target
          Overlapping, \* targets for which requests may overlap
          Entries,     \* the lock objects there may be
          NoEntry, NoCall

Calls == {c \in Targets \X Threads : c[2] = 1 \/ c[1] \in Overlapping}
TargetOf(c) == c[1]

ASSUME LockAssumption ==
    /\ IsFiniteSet(Targets) /\ IsFiniteSet(Threads)
    /\ NoCall \notin Calls
    /\ NoEntry \notin Entries

VARIABLES table,       \* TARGET_LOCKS: the entry of each target, or NoEntry
          users,       \* entry[1], the count of each lock object
          holder,      \* which call holds entry[0]
          at,          \* how far each call is in _target_operation_lock
          mine         \* the entry each call took from the table

lockVars == <<table, users, holder, at, mine>>

Stages == {"idle", "waiting", "working", "released"}

LockTypeOK ==
    /\ table \in [Targets -> Entries \cup {NoEntry}]
    /\ users \in [Entries -> Nat]
    /\ holder \in [Entries -> Calls \cup {NoCall}]
    /\ at \in [Calls -> Stages]
    /\ mine \in [Calls -> Entries \cup {NoEntry}]

Busy(t) == \E c \in Calls : TargetOf(c) = t /\ at[c] # "idle"

LockInit ==
    /\ table = [t \in Targets |-> NoEntry]
    /\ users = [e \in Entries |-> 0]
    /\ holder = [e \in Entries |-> NoCall]
    /\ at = [c \in Calls |-> "idle"]
    /\ mine = [c \in Calls |-> NoEntry]

\* Objects nobody refers to: what a constructor can return.
Fresh == {e \in Entries : /\ \A t \in Targets : table[t] # e
                          /\ \A c \in Calls : mine[c] # e}

\* Faulty: whoever makes the entry is not counted.
Counted_Others(e, new) == IF new THEN 0 ELSE users[e] + 1

\* A new entry counts from 0, and every user counts itself.
Counted(e, new) == IF new THEN 1 ELSE users[e] + 1

\* Faulty: every request makes its own entry.
EntryOf_New(t) == CHOOSE e \in Fresh : TRUE

\* The entry of the target, or a new one.
EntryOf(t) == IF table[t] = NoEntry THEN CHOOSE e \in Fresh : TRUE ELSE table[t]

\* Under the guard: take the entry, count + 1.
Enter(c) ==
    LET t == TargetOf(c)
        e == EntryOf(t)
    IN  /\ at[c] = "idle"
        /\ table[t] # NoEntry \/ Fresh # {}
        /\ table' = [table EXCEPT ![t] = e]
        /\ users' = [users EXCEPT ![e] = Counted(e, table[t] = NoEntry)]
        /\ holder' = IF table[t] = NoEntry THEN [holder EXCEPT ![e] = NoCall] ELSE holder
        /\ mine' = [mine EXCEPT ![c] = e]
        /\ at' = [at EXCEPT ![c] = "waiting"]

\* target_lock.acquire()
Acquire(c) ==
    /\ at[c] = "waiting"
    /\ holder[mine[c]] = NoCall
    /\ holder' = [holder EXCEPT ![mine[c]] = c]
    /\ at' = [at EXCEPT ![c] = "working"]
    /\ UNCHANGED <<table, users, mine>>

\* The handler has returned: target_lock.release()
Release(c) ==
    /\ at[c] = "working"
    /\ holder' = [holder EXCEPT ![mine[c]] = NoCall]
    /\ at' = [at EXCEPT ![c] = "released"]
    /\ UNCHANGED <<table, users, mine>>

\* Under the guard: count - 1, and the last user removes its own entry.
Forgotten(c) == users[mine[c]] = 1 /\ table[TargetOf(c)] = mine[c]

Leave(c) ==
    /\ at[c] = "released"
    /\ users' = [users EXCEPT ![mine[c]] = @ - 1]
    /\ table' = IF Forgotten(c) THEN [table EXCEPT ![TargetOf(c)] = NoEntry] ELSE table
    /\ mine' = [mine EXCEPT ![c] = NoEntry]
    /\ at' = [at EXCEPT ![c] = "idle"]
    /\ UNCHANGED holder

\* The process dies: the table and every thread go with it.
Forget ==
    /\ table' = [t \in Targets |-> NoEntry]
    /\ users' = [e \in Entries |-> 0]
    /\ holder' = [e \in Entries |-> NoCall]
    /\ at' = [c \in Calls |-> "idle"]
    /\ mine' = [c \in Calls |-> NoEntry]

\* The table on its own, in whatever order requests come and end.
LockNext ==
    \/ \E c \in Calls : Enter(c) \/ Acquire(c) \/ Release(c) \/ Leave(c)
    \/ Forget

LockSpec == LockInit /\ [][LockNext]_lockVars

(***************************************************************************)
(* Two handlers are never at work on one target path at the same time,     *)
(* however many callers come and go while the entry of the path is created,*)
(* counted and deleted (nodeserver.py _target_operation_lock).             *)
(***************************************************************************)
OneAtATime ==
    \A c, d \in Calls :
        at[c] = "working" /\ at[d] = "working" /\ TargetOf(c) = TargetOf(d) => c = d
====
