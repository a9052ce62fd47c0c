---------------------------- MODULE ManagedVolumes ----------------------------
(***************************************************************************)
(* What the volumes of a pool are to those who own them, with nothing said *)
(* of intents, metadata files, renames, locks, retries or crashes: a       *)
(* volume ID is free, or stands for one generation of a volume, which is   *)
(* created, committed with its data, grows, and leaves only when its       *)
(* caller has asked for that; what left for the archive stays there until  *)
(* it is purged.                                                           *)
(***************************************************************************)
EXTENDS Integers

CONSTANTS
    Vols,      \* CSI volume IDs
    Sizes,     \* sizes a caller may ask for
    MaxGen     \* BOUND: generations of one volume ID

VARIABLES
    volume,    \* state, size and generation of what an ID stands for
    data,      \* generation of the data in the volume's place; 0 is none
    shelf,     \* archives (ID and generation) whose data is there
    archived,  \* size of each finished archive; 0 is none
    told,      \* what the caller was told of the volume, or has asked
    fresh      \* the next generation of each ID

managed == <<volume, data, shelf, archived, told, fresh>>

Archives == Vols \X (1..MaxGen)

As(s, z, i) == [state |-> s, size |-> z, inc |-> i]
Free        == As("absent", 0, 0)

Init ==
    /\ volume = [v \in Vols |-> Free]
    /\ data = [v \in Vols |-> 0]
    /\ shelf = {}
    /\ archived = [a \in Archives |-> 0]
    /\ told = [v \in Vols |-> Free]
    /\ fresh = [v \in Vols |-> 1]

Is(v, s)    == volume[v].state = s
Unwanted(v) == told[v].state = "deleting"

\* A free ID is given to a generation that there has never been.
Reserve(v, z) ==
    /\ volume[v] = Free
    /\ fresh[v] <= MaxGen
    /\ volume' = [volume EXCEPT ![v] = As("creating", z, fresh[v])]
    /\ fresh' = [fresh EXCEPT ![v] = @ + 1]
    /\ UNCHANGED <<data, shelf, archived, told>>

Fill(v) ==
    /\ Is(v, "creating") /\ data[v] = 0
    /\ data' = [data EXCEPT ![v] = volume[v].inc]
    /\ UNCHANGED <<volume, shelf, archived, told, fresh>>

\* It becomes a volume with the data that was made for it.
Commit(v) ==
    /\ Is(v, "creating") /\ data[v] = volume[v].inc
    /\ volume' = [volume EXCEPT ![v].state = "live"]
    /\ UNCHANGED <<data, shelf, archived, told, fresh>>

Grow(v, z) ==
    /\ Is(v, "live") /\ z > volume[v].size
    /\ volume' = [volume EXCEPT ![v].size = z]
    /\ UNCHANGED <<data, shelf, archived, told, fresh>>

\* The caller learns of a committed volume: no more than is there, no less
\* than it was told before, and nothing of what it has asked to be deleted.
Tell(v, z) ==
    /\ Is(v, "live") /\ z <= volume[v].size
    /\ told[v].inc = volume[v].inc => told[v].state = "live" /\ told[v].size <= z
    /\ told' = [told EXCEPT ![v] = As("live", z, volume[v].inc)]
    /\ UNCHANGED <<volume, data, shelf, archived, fresh>>

Ask(v) ==
    /\ told' = [told EXCEPT ![v] = As("deleting", 0, volume[v].inc)]
    /\ UNCHANGED <<volume, data, shelf, archived, fresh>>

\* What was never committed is given up, empty.
Cancel(v) ==
    /\ Is(v, "creating") /\ Unwanted(v) /\ data[v] = 0
    /\ volume' = [volume EXCEPT ![v] = Free]
    /\ UNCHANGED <<data, shelf, archived, told, fresh>>

\* A volume begins to leave, one way or the other.  The other way may still
\* be taken when a delete has begun.
Withdraw(v, way) ==
    /\ Unwanted(v)
    /\ Is(v, "live") \/ (Is(v, "deleting") /\ way = "archiving")
    /\ volume' = [volume EXCEPT ![v].state = way]
    /\ UNCHANGED <<data, shelf, archived, told, fresh>>

\* Data is destroyed of what leaves to be deleted, or was never committed.
Destroy(v) ==
    /\ data[v] # 0
    /\ Is(v, "deleting") \/ (Is(v, "creating") /\ Unwanted(v))
    /\ data' = [data EXCEPT ![v] = 0]
    /\ UNCHANGED <<volume, shelf, archived, told, fresh>>

Forget(v) ==
    /\ Is(v, "deleting") /\ data[v] = 0
    /\ volume' = [volume EXCEPT ![v] = Free]
    /\ UNCHANGED <<data, shelf, archived, told, fresh>>

\* The data of what leaves for the archive is moved, not copied.
Shelve(v) ==
    LET a == <<v, volume[v].inc>>
    IN  /\ Is(v, "archiving") /\ data[v] = volume[v].inc /\ a \notin shelf
        /\ shelf' = shelf \cup {a}
        /\ data' = [data EXCEPT ![v] = 0]
        /\ UNCHANGED <<volume, archived, told, fresh>>

\* An archive is finished with all its data and under its whole size.
File(v) ==
    LET a == <<v, volume[v].inc>>
    IN  /\ Is(v, "archiving") /\ data[v] = 0 /\ a \in shelf
        /\ archived' = [archived EXCEPT ![a] = volume[v].size]
        /\ volume' = [volume EXCEPT ![v] = Free]
        /\ UNCHANGED <<data, shelf, told, fresh>>

\* An archive is given up before its data goes, and no archive that is still
\* being filled is emptied.
Purge(a) ==
    /\ archived[a] # 0
    /\ archived' = [archived EXCEPT ![a] = 0]
    /\ UNCHANGED <<volume, data, shelf, told, fresh>>

Empty(a) ==
    /\ a \in shelf /\ archived[a] = 0 /\ volume[a[1]].inc # a[2]
    /\ shelf' = shelf \ {a}
    /\ UNCHANGED <<volume, data, archived, told, fresh>>

Next ==
    \/ \E v \in Vols, z \in Sizes : Reserve(v, z) \/ Grow(v, z) \/ Tell(v, z)
    \/ \E v \in Vols : \/ Fill(v) \/ Commit(v) \/ Ask(v) \/ Cancel(v)
                       \/ Destroy(v) \/ Forget(v) \/ Shelve(v) \/ File(v)
                       \/ \E way \in {"deleting", "archiving"} : Withdraw(v, way)
    \/ \E a \in Archives : Purge(a) \/ Empty(a)

Spec == Init /\ [][Next]_managed
=============================================================================
