---- MODULE ProvisionerProofs ----
(***************************************************************************)
(* A name has one home, and answers about it stay true, for any number of  *)
(* pools, drivers and surprises, as long as what cannot be read is not     *)
(* taken for what is not there; and every variable keeps its type.         *)
(*                                                                         *)
(* Only a create brings a record into being, and there is one create of a  *)
(* name at a time.  So what its last search has passed over stays empty    *)
(* until it makes its own choice; and what it is about to build cannot be  *)
(* purged behind its look, since it has the lifecycle lock.                *)
(*                                                                         *)
(* A call promises something only if no call for the opposite ran beside   *)
(* it.  Then what its search saw of a pool is still so when the search     *)
(* ends, long after it left that pool: IInv says what calls rely on        *)
(* whatever runs beside them, AInv what they rely on while they are alone. *)
(***************************************************************************)
EXTENDS Provisioner, TLAPS

Hits == [pool : Pools, rec : RecTypes]

CallTypes == [op     : {None, "create", "delete"},
              alone  : BOOLEAN,
              at     : {"idle", "search", "lock", "select", "admitted", "build", "purge"},
              search : {None, "first", "locked", "method", "verify"},
              todo   : SUBSET Pools,
              half   : Pools \cup {None},
              hit    : Hits \cup {None},
              was    : Hits \cup {None},
              pool   : Pools \cup {None}]

Typed ==
    /\ rec \in [Pools -> RecTypes]
    /\ available \subseteq Pools /\ roomy \subseteq Pools /\ open \subseteq Pools
    /\ drv \in [Drivers -> CallTypes]
    /\ identity \in Drivers \cup {None}
    /\ lock \in [Pools -> Drivers \cup {None}]
    /\ births \in 0..MaxBirths /\ told \in Pools \cup {None, "deleted"}
    /\ surprises \in 0..MaxSurprises

Searching(c, which) == c.at = "search" /\ c.search = which

\* Which calls are where, and which locks they have.
Placed(c, d) ==
    /\ c.op = "create" => identity = d
    /\ \/ c.at \in {"select", "admitted", "build"}
       \/ Searching(c, "method") \/ Searching(c, "verify")
       => c.op = "create"
    /\ c.at \in {"lock", "admitted"} => c.pool \in Pools
    /\ \/ c.at \in {"build", "purge"}
       \/ Searching(c, "locked") \/ Searching(c, "verify")
       => c.pool \in Pools /\ lock[c.pool] = d
    /\ c.at = "purge" => c.op = "delete"

\* The last search of a create has not missed anything.
Scanned(c) ==
    /\ Searching(c, "method") /\ c.hit = None =>
         /\ \A p \in Pools \ c.todo : rec[p].state = "none"
         /\ c.half # None => rec[c.half].state \notin {"live", "deleting"}
    /\ c.at = "select" => \A p \in Pools : rec[p].state = "none"

\* What a create is about to build is there.
Verified(c) ==
    /\ /\ Searching(c, "verify") /\ c.hit # None
       /\ c.hit.pool = c.pool /\ c.hit.rec.state \in {"creating", "live"}
       => rec[c.pool].state # "none"
    /\ c.at = "build" => rec[c.pool].state # "none"

CallOK(c, d) == Placed(c, d) /\ Scanned(c) /\ Verified(c)

IInv == Typed /\ (\A d \in Drivers : CallOK(drv[d], d)) /\ OneHome

\* A call that runs alone: no call for the opposite is there.
Apart == \A d, e \in Drivers :
            drv[d].alone /\ drv[d].op # None => drv[e].op \in {None, drv[d].op}

\* An answer is true, and nothing under way can make it false.
Kept ==
    /\ told \in Pools => /\ rec[told].state = "live"
                         /\ \A d \in Drivers : drv[d].op # "delete"
    /\ told = "deleted" => /\ \A p \in Pools : rec[p].state = "none"
                           /\ \A d \in Drivers : drv[d].op # "create"

\* What a delete has passed over stays empty while no create runs beside it.
Missed(c) ==
    c.op = "delete" /\ c.alone /\ c.at = "search" /\ c.hit = None =>
       /\ \A p \in Pools \ c.todo : rec[p].state = "none"
       /\ c.half # None => rec[c.half].state \notin {"live", "deleting"}

\* The volume a create has found stays while no delete runs beside it.
Found(c) ==
    /\ c.op = "create" /\ c.alone /\ Searching(c, "method")
    /\ c.hit # None /\ c.hit.rec.state = "live"
    => rec[c.hit.pool].state = "live"

\* What a delete is about to purge is there.
Caught(c) ==
    /\ Searching(c, "locked") /\ c.hit # None /\ c.hit.pool = c.pool
       => rec[c.pool].state # "none"
    /\ c.at = "purge" => rec[c.pool].state # "none"

Grounded(c) == Missed(c) /\ Found(c) /\ Caught(c)

AInv == Apart /\ Kept /\ \A d \in Drivers : Grounded(drv[d])

----------------------------------------------------------------------------
USE SelectAssumption

LEMMA NoCallTyped == NoCall \in CallTypes
BY DEF NoCall, CallTypes

LEMMA NoCallOK ==
    ASSUME NEW d  PROVE CallOK(NoCall, d)
BY DEF NoCall, CallOK, Placed, Scanned, Verified, Searching

\* A step that changes no record, and no lock of another call.
LEMMA StepKeeps ==
    ASSUME IInv, NEW d \in Drivers, NEW c \in CallTypes, Set(d, c),
           UNCHANGED <<files, pools>>, surprises' \in 0..MaxSurprises,
           told' \in Pools \cup {None, "deleted"},
           identity' \in Drivers \cup {None}, lock' \in [Pools -> Drivers \cup {None}],
           \A e \in Drivers \ {d} : identity = e => identity' = e,
           \A p \in Pools : lock[p] \in Drivers \ {d} => lock'[p] = lock[p],
           Placed(c, d)', Scanned(c), Verified(c)
    PROVE  IInv'
<1>1. Typed'
  BY DEF IInv, Typed, files, pools, Set
<1>2. \A e \in Drivers : CallOK(drv[e], e)'
  <2> SUFFICES ASSUME NEW e \in Drivers PROVE CallOK(drv[e], e)'
    OBVIOUS
  <2>1. CASE e = d
    BY <2>1 DEF IInv, Typed, Set, CallOK, Scanned, Verified, files
  <2>2. CASE e # d
    <3>1. drv'[e] = drv[e] /\ CallOK(drv[e], e)
      BY <2>2 DEF IInv, Typed, Set
    <3>2. Placed(drv[e], e)'
      BY <3>1, <2>2 DEF CallOK, Placed, Searching
    <3> QED
      BY <3>1, <3>2 DEF CallOK, Scanned, Verified, files
  <2> QED  BY <2>1, <2>2
<1>3. OneHome'
  BY DEF IInv, OneHome, files
<1> QED  BY <1>1, <1>2, <1>3 DEF IInv

LEMMA MoveKeeps ==
    ASSUME IInv, NEW d \in Drivers, NEW c \in CallTypes, Set(d, c), Working,
           UNCHANGED <<files, pools>>, surprises' \in 0..MaxSurprises, CallOK(c, d)
    PROVE  IInv'
<1>1. Placed(c, d)'
  BY DEF CallOK, Placed, Working, locks
<1> QED
  BY <1>1, StepKeeps DEF CallOK, Working, locks, IInv, Typed

LEMMA AnswerKeeps ==
    ASSUME IInv, NEW d \in Drivers, NEW about \in Pools \cup {None, "deleted"},
           Answer(d, about), UNCHANGED <<files, pools>>, surprises' \in 0..MaxSurprises
    PROVE  IInv'
<1>1. Placed(NoCall, d)'
  BY DEF NoCall, Placed, Searching
<1>2. told' \in Pools \cup {None, "deleted"}
  BY DEF Answer, IInv, Typed
<1>3. /\ identity' \in Drivers \cup {None} /\ lock' \in [Pools -> Drivers \cup {None}]
      /\ \A e \in Drivers \ {d} : identity = e => identity' = e
      /\ \A p \in Pools : lock[p] \in Drivers \ {d} => lock'[p] = lock[p]
  BY DEF Answer, Release, IInv, Typed
<1>4. Set(d, NoCall)
  BY DEF Answer
<1> QED
  BY <1>1, <1>2, <1>3, <1>4, NoCallTyped, NoCallOK, StepKeeps DEF CallOK

\* A new search knows nothing yet.
LEMMA SearchKeeps ==
    ASSUME IInv, NEW d \in Drivers, NEW which \in {"first", "locked", "method", "verify"},
           Search(d, which), UNCHANGED <<files, pools, identity, told>>,
           surprises' \in 0..MaxSurprises,
           lock' \in [Pools -> Drivers \cup {None}],
           \A p \in Pools : lock[p] \in Drivers \ {d} => lock'[p] = lock[p],
           which \in {"method", "verify"} => drv[d].op = "create",
           which \in {"locked", "verify"} => drv[d].pool \in Pools /\ lock'[drv[d].pool] = d
    PROVE  IInv'
<1>1. drv[d] \in CallTypes /\ CallOK(drv[d], d)
  BY DEF IInv, Typed
<1>2. PICK c \in CallTypes :
         /\ Set(d, c)
         /\ c.at = "search" /\ c.search = which /\ c.todo = Pools /\ c.half = None
         /\ c.hit = None /\ c.op = drv[d].op /\ c.pool = drv[d].pool
  <2> DEFINE n == [drv[d] EXCEPT !.at = "search", !.search = which, !.todo = Pools,
                                 !.half = None, !.hit = None]
  <2>1. Set(d, n)
    BY DEF Search
  <2>2. /\ n \in CallTypes
        /\ n.at = "search" /\ n.search = which /\ n.todo = Pools /\ n.half = None
        /\ n.hit = None /\ n.op = drv[d].op /\ n.pool = drv[d].pool
    BY <1>1 DEF CallTypes
  <2> HIDE DEF n
  <2> QED  BY <2>1, <2>2
<1>3. identity' = identity
  OBVIOUS
<1>4. Placed(c, d)'
  BY <1>1, <1>2, <1>3 DEF Placed, CallOK, Searching
<1>5. Scanned(c) /\ Verified(c)
  BY <1>2 DEF Scanned, Verified, Searching
<1> QED
  BY <1>2, <1>4, <1>5, StepKeeps DEF IInv, Typed

----------------------------------------------------------------------------
LEMMA BeginKeeps ==
    ASSUME IInv, NEW d \in Drivers, StartCreate(d) \/ StartDelete(d)
    PROVE  IInv'
<1> PICK op \in {"create", "delete"} :
         /\ Begin(d, op)
         /\ \/ StartCreate(d) /\ op = "create"
            \/ StartDelete(d) /\ op = "delete"
  BY DEF StartCreate, StartDelete
<1>1. UNCHANGED <<files, pools, lock, surprises>>
  BY DEF StartCreate, StartDelete, AsUsual, locks
<1>2. identity' \in Drivers \cup {None} /\ told' \in Pools \cup {None, "deleted"}
  BY DEF StartCreate, StartDelete, IInv, Typed, locks
<1>3. /\ \A e \in Drivers \ {d} : identity = e => identity' = e
      /\ op = "create" => identity' = d
  BY DEF StartCreate, StartDelete, locks
<1>4. \A e \in Drivers \ {d} :
         /\ drv'[e] \in CallTypes
         /\ drv'[e].op = drv[e].op /\ drv'[e].at = drv[e].at /\ drv'[e].search = drv[e].search
         /\ drv'[e].todo = drv[e].todo /\ drv'[e].half = drv[e].half
         /\ drv'[e].hit = drv[e].hit /\ drv'[e].pool = drv[e].pool
  <2> TAKE e \in Drivers \ {d}
  <2>1. drv[e] \in CallTypes
    BY DEF IInv, Typed
  <2>2. drv'[e] = [drv[e] EXCEPT !.alone = FALSE] \/ drv'[e] = drv[e]
    BY DEF Begin
  <2> QED
    BY <2>1, <2>2 DEF CallTypes
<1>5. /\ drv'[d] \in CallTypes /\ drv'[d].op = op /\ Searching(drv'[d], "first")
  BY DEF Begin, NoCall, CallTypes, Searching
<1>6. Typed'
  <2>1. drv' \in [Drivers -> CallTypes]
    BY <1>4, <1>5 DEF Begin
  <2> QED
    BY <1>1, <1>2, <2>1 DEF IInv, Typed, files, pools
<1>7. \A e \in Drivers : CallOK(drv[e], e)'
  <2> SUFFICES ASSUME NEW e \in Drivers PROVE CallOK(drv[e], e)'
    OBVIOUS
  <2>1. CASE e = d
    BY <2>1, <1>3, <1>5 DEF CallOK, Placed, Scanned, Verified, Searching
  <2>2. CASE e # d
    <3>1. CallOK(drv[e], e) /\ drv[e] \in CallTypes
      BY DEF IInv, Typed
    <3>3. Placed(drv[e], e)'
      BY <2>2, <1>1, <1>3, <1>4, <3>1 DEF CallOK, Placed, Searching
    <3> QED
      BY <2>2, <1>1, <1>4, <3>1, <3>3 DEF CallOK, Scanned, Verified, Searching, files
  <2> QED  BY <2>1, <2>2
<1>8. OneHome'
  BY <1>1 DEF IInv, OneHome, files
<1> QED  BY <1>6, <1>7, <1>8 DEF IInv

\* What is found is there.
LEMMA TakeKeeps ==
    ASSUME IInv, NEW d \in Drivers, drv[d].at = "search", NEW p \in Pools, Take(d, p),
           rec[p].state # "none", UNCHANGED <<files, pools, surprises>>
    PROVE  IInv'
<1>1. CASE drv[d].hit # None
  BY <1>1, AnswerKeeps DEF Take, IInv, Typed
<1>2. CASE drv[d].hit = None
  <2>1. drv[d] \in CallTypes /\ CallOK(drv[d], d) /\ rec[p] \in RecTypes
    BY DEF IInv, Typed
  <2>2. PICK n \in Hits : n = [pool |-> p, rec |-> rec[p]]
    BY <2>1 DEF Hits
  <2>3. n # None
    BY DEF Hits
  <2>4. Set(d, [drv[d] EXCEPT !.todo = @ \ {p}, !.half = None, !.hit = n]) /\ Working
    BY <1>2, <2>2 DEF Take
  <2>5. PICK c \in CallTypes :
           /\ Set(d, c)
           /\ c.op = drv[d].op /\ c.at = "search" /\ c.search = drv[d].search
           /\ c.pool = drv[d].pool /\ c.hit = n /\ n.pool = p /\ n.rec = rec[p]
    BY <2>1, <2>2, <2>4 DEF CallTypes
  <2>6. CallOK(c, d)
    BY <2>1, <2>3, <2>5 DEF CallOK, Placed, Scanned, Verified, Searching
  <2> QED
    BY <2>4, <2>5, <2>6, MoveKeeps DEF IInv, Typed
<1> QED  BY <1>1, <1>2

LEMMA MetadataKeeps ==
    ASSUME IInv, NEW d \in Drivers, LookForMetadata(d)
    PROVE  IInv'
<1>1. PICK p \in drv[d].todo :
         IF Barred(p) THEN Answer(d, None)
         ELSE IF StateIn(p) \in {"live", "deleting"} THEN Take(d, p)
         ELSE Set(d, [drv[d] EXCEPT !.half = p]) /\ Working
  BY DEF LookForMetadata
<1>2. /\ drv[d].at = "search" /\ drv[d].half = None /\ UNCHANGED <<files, pools, surprises>>
      /\ drv[d] \in CallTypes /\ CallOK(drv[d], d) /\ p \in Pools
  BY DEF LookForMetadata, On, AsUsual, IInv, Typed, CallTypes
<1>3. CASE Barred(p)
  BY <1>1, <1>2, <1>3, AnswerKeeps DEF IInv, Typed
<1>4. CASE ~Barred(p) /\ StateIn(p) \in {"live", "deleting"}
  BY <1>1, <1>2, <1>4, TakeKeeps DEF StateIn, Barred
<1>5. CASE ~Barred(p) /\ StateIn(p) \notin {"live", "deleting"}
  <2> DEFINE c == [drv[d] EXCEPT !.half = p]
  <2>1. /\ c \in CallTypes /\ c.op = drv[d].op /\ c.at = drv[d].at /\ c.search = drv[d].search
        /\ c.pool = drv[d].pool /\ c.hit = drv[d].hit /\ c.todo = drv[d].todo /\ c.half = p
    BY <1>2 DEF CallTypes
  <2>2. Set(d, c) /\ Working
    BY <1>1, <1>5
  <2> HIDE DEF c
  <2>3. rec[p].state \notin {"live", "deleting"}
    BY <1>5 DEF StateIn, Barred
  <2>4. CallOK(c, d)
    BY <1>2, <2>1, <2>3 DEF CallOK, Placed, Scanned, Verified, Searching
  <2> QED
    BY <1>2, <2>1, <2>2, <2>4, MoveKeeps DEF IInv, Typed
<1> QED  BY <1>3, <1>4, <1>5

LEMMA PendingKeeps ==
    ASSUME BlindLooks = FALSE, IInv, NEW d \in Drivers, LookForPending(d)
    PROVE  IInv'
<1> DEFINE p == drv[d].half
<1>1. /\ drv[d].at = "search" /\ p # None /\ UNCHANGED <<files, pools, surprises>>
      /\ drv[d] \in CallTypes /\ CallOK(drv[d], d) /\ p \in Pools
  BY DEF LookForPending, On, AsUsual, IInv, Typed, CallTypes
<1>2. \/ rec[p].state = "creating" /\ Take(d, p)
      \/ /\ rec[p].state # "creating"
         /\ Set(d, [drv[d] EXCEPT !.todo = @ \ {p}, !.half = None]) /\ Working
  BY DEF LookForPending, PendingSeen
<1>3. CASE rec[p].state = "creating" /\ Take(d, p)
  BY <1>1, <1>3, TakeKeeps
<1>4. CASE /\ rec[p].state # "creating"
           /\ Set(d, [drv[d] EXCEPT !.todo = @ \ {p}, !.half = None]) /\ Working
  <2> DEFINE c == [drv[d] EXCEPT !.todo = @ \ {p}, !.half = None]
  <2>1. /\ c \in CallTypes /\ c.op = drv[d].op /\ c.at = drv[d].at /\ c.search = drv[d].search
        /\ c.pool = drv[d].pool /\ c.hit = drv[d].hit /\ c.todo = drv[d].todo \ {p}
        /\ c.half = None
    BY <1>1 DEF CallTypes
  <2> HIDE DEF c
  <2>2. rec[p].state \in {"none", "creating", "live", "deleting"}
    BY <1>1 DEF IInv, Typed, RecTypes
  <2>3. Scanned(c)
    BY <1>1, <1>4, <2>1, <2>2 DEF CallOK, Scanned, Searching
  <2>4. CallOK(c, d)
    BY <1>1, <2>1, <2>3 DEF CallOK, Placed, Verified, Searching
  <2>5. Set(d, c) /\ Working
    BY <1>4 DEF c
  <2> QED
    BY <1>1, <2>1, <2>4, <2>5, MoveKeeps DEF IInv, Typed
<1> QED  BY <1>2, <1>3, <1>4

----------------------------------------------------------------------------
LEMMA FirstKeeps ==
    ASSUME IInv, NEW d \in Drivers, AfterFirstSearch(d)
    PROVE  IInv'
<1> DEFINE hit == drv[d].hit
<1>1. /\ drv[d].at = "search" /\ drv[d].search = "first"
      /\ UNCHANGED <<files, pools, surprises>> /\ surprises' \in 0..MaxSurprises
      /\ drv[d] \in CallTypes /\ CallOK(drv[d], d)
  BY DEF AfterFirstSearch, Searched, On, AsUsual, IInv, Typed
<1>2. CASE /\ hit # None
           /\ Set(d, [drv[d] EXCEPT !.at = "lock", !.was = Evidence(hit), !.pool = hit.pool])
           /\ Working
  <2> DEFINE c == [drv[d] EXCEPT !.at = "lock", !.was = Evidence(hit), !.pool = hit.pool]
  <2>1. hit \in Hits
    BY <1>1, <1>2 DEF CallTypes
  <2>2. Evidence(hit) \in Hits
    <3>1. rec[hit.pool] \in RecTypes /\ NoRec \in RecTypes /\ hit.pool \in Pools
      BY <2>1 DEF IInv, Typed, Hits, RecTypes, NoRec
    <3> QED  BY <2>1, <3>1 DEF Evidence, Hits
  <2>3. hit.pool \in Pools
    BY <2>1 DEF Hits
  <2>4. /\ c \in CallTypes /\ c.op = drv[d].op /\ c.at = "lock" /\ c.pool = hit.pool
    BY <1>1, <2>2, <2>3 DEF CallTypes
  <2>5. Set(d, c) /\ Working
    BY <1>2
  <2> HIDE DEF c
  <2>6. CallOK(c, d)
    BY <1>1, <2>3, <2>4 DEF CallOK, Placed, Scanned, Verified, Searching
  <2> QED  BY <1>1, <2>4, <2>5, <2>6, MoveKeeps
<1>3. CASE hit = None /\ drv[d].op = "create" /\ Search(d, "method") /\ Working
  BY <1>1, <1>3, SearchKeeps DEF Working, locks, IInv, Typed
<1>4. CASE hit = None /\ drv[d].op = "delete" /\ Answer(d, "deleted")
  BY <1>1, <1>4, AnswerKeeps
<1> QED  BY <1>2, <1>3, <1>4 DEF AfterFirstSearch

LEMMA LockKeeps ==
    ASSUME IInv, NEW d \in Drivers, LockFound(d)
    PROVE  IInv'
<1> DEFINE p == drv[d].pool
<1>1. /\ drv[d].at = "lock" /\ UNCHANGED <<files, pools, surprises>>
      /\ surprises' \in 0..MaxSurprises
      /\ drv[d] \in CallTypes /\ CallOK(drv[d], d) /\ p \in Pools
  BY DEF LockFound, On, AsUsual, IInv, Typed, CallOK, Placed
<1>2. CASE /\ lock[p] = None /\ lock' = [lock EXCEPT ![p] = d]
           /\ Search(d, "locked") /\ UNCHANGED <<identity, told>>
  <2>1. /\ lock' \in [Pools -> Drivers \cup {None}] /\ lock'[p] = d
        /\ \A q \in Pools : lock[q] \in Drivers \ {d} => lock'[q] = lock[q]
    BY <1>1, <1>2 DEF IInv, Typed
  <2> QED  BY <1>1, <1>2, <2>1, SearchKeeps
<1>3. CASE lock[p] # None /\ Answer(d, None)
  BY <1>1, <1>3, AnswerKeeps
<1> QED  BY <1>2, <1>3 DEF LockFound

LEMMA LockedKeeps ==
    ASSUME IInv, NEW d \in Drivers, AfterLockedSearch(d)
    PROVE  IInv'
<1>1. /\ drv[d].at = "search" /\ drv[d].search = "locked"
      /\ UNCHANGED <<files, pools, surprises>> /\ surprises' \in 0..MaxSurprises
      /\ drv[d] \in CallTypes /\ CallOK(drv[d], d)
      /\ drv[d].pool \in Pools /\ lock[drv[d].pool] = d
  BY DEF AfterLockedSearch, Searched, On, AsUsual, IInv, Typed, CallOK, Placed, Searching
<1>2. CASE Same(d) /\ drv[d].op = "create" /\ Search(d, "method") /\ Working
  BY <1>1, <1>2, SearchKeeps DEF Working, locks, IInv, Typed
<1>3. CASE /\ drv[d].op = "delete"
           /\ Set(d, [drv[d] EXCEPT !.at = "purge"]) /\ Working
  <2> DEFINE c == [drv[d] EXCEPT !.at = "purge"]
  <2>1. /\ c \in CallTypes /\ c.op = "delete" /\ c.at = "purge" /\ c.pool = drv[d].pool
    BY <1>1, <1>3 DEF CallTypes
  <2>2. Set(d, c) /\ Working
    BY <1>3
  <2> HIDE DEF c
  <2>3. CallOK(c, d)
    BY <1>1, <2>1 DEF CallOK, Placed, Scanned, Verified, Searching
  <2> QED  BY <1>1, <2>1, <2>2, <2>3, MoveKeeps
<1>4. CASE Answer(d, "deleted") \/ Answer(d, None)
  BY <1>1, <1>4, AnswerKeeps
<1> QED  BY <1>2, <1>3, <1>4 DEF AfterLockedSearch

LEMMA MethodKeeps ==
    ASSUME IInv, NEW d \in Drivers, AfterMethodSearch(d)
    PROVE  IInv'
<1> DEFINE hit == drv[d].hit
<1>1. /\ drv[d].at = "search" /\ drv[d].search = "method" /\ drv[d].todo = {}
      /\ UNCHANGED <<files, pools, surprises>> /\ surprises' \in 0..MaxSurprises
      /\ drv[d] \in CallTypes /\ CallOK(drv[d], d) /\ drv[d].op = "create" /\ identity = d
  BY DEF AfterMethodSearch, Searched, On, AsUsual, IInv, Typed, CallOK, Placed, Searching
<1>2. CASE /\ hit # None /\ Set(d, [drv[d] EXCEPT !.at = "admitted", !.pool = hit.pool])
           /\ Working
  <2> DEFINE c == [drv[d] EXCEPT !.at = "admitted", !.pool = hit.pool]
  <2>1. hit.pool \in Pools
    BY <1>1, <1>2 DEF CallTypes, Hits
  <2>2. c \in CallTypes /\ c.op = "create" /\ c.at = "admitted" /\ c.pool = hit.pool
    BY <1>1, <2>1 DEF CallTypes
  <2>3. Set(d, c) /\ Working
    BY <1>2
  <2> HIDE DEF c
  <2>4. CallOK(c, d)
    BY <1>1, <2>1, <2>2 DEF CallOK, Placed, Scanned, Verified, Searching
  <2> QED  BY <1>1, <2>2, <2>3, <2>4, MoveKeeps
<1>3. CASE hit # None /\ Answer(d, hit.pool)
  <2>1. hit.pool \in Pools
    BY <1>1, <1>3 DEF CallTypes, Hits
  <2> QED  BY <1>1, <1>3, <2>1, AnswerKeeps
<1>4. CASE Answer(d, None)
  BY <1>1, <1>4, AnswerKeeps
<1>5. CASE hit = None /\ Set(d, [drv[d] EXCEPT !.at = "select", !.todo = open]) /\ Working
  <2> DEFINE c == [drv[d] EXCEPT !.at = "select", !.todo = open]
  <2>1. c \in CallTypes /\ c.op = "create" /\ c.at = "select"
    BY <1>1 DEF CallTypes, IInv, Typed
  <2>2. Set(d, c) /\ Working
    BY <1>5
  <2> HIDE DEF c
  <2>3. \A p \in Pools : rec[p].state = "none"
    BY <1>1, <1>5 DEF CallOK, Scanned, Searching
  <2>4. CallOK(c, d)
    BY <1>1, <2>1, <2>3 DEF CallOK, Placed, Scanned, Verified, Searching
  <2> QED  BY <1>1, <2>1, <2>2, <2>4, MoveKeeps
<1> QED  BY <1>2, <1>3, <1>4, <1>5 DEF AfterMethodSearch

LEMMA AdmittedKeeps ==
    ASSUME IInv, NEW d \in Drivers, LockAdmitted(d)
    PROVE  IInv'
<1> DEFINE p == drv[d].pool
<1>1. /\ drv[d].at = "admitted" /\ UNCHANGED <<files, pools, surprises>>
      /\ surprises' \in 0..MaxSurprises
      /\ drv[d] \in CallTypes /\ CallOK(drv[d], d) /\ p \in Pools /\ drv[d].op = "create"
  BY DEF LockAdmitted, On, AsUsual, IInv, Typed, CallOK, Placed
<1>2. CASE /\ LockFree(d, p) /\ lock' = [lock EXCEPT ![p] = d]
           /\ Search(d, "verify") /\ UNCHANGED <<identity, told>>
  <2>1. /\ lock' \in [Pools -> Drivers \cup {None}] /\ lock'[p] = d
        /\ \A q \in Pools : lock[q] \in Drivers \ {d} => lock'[q] = lock[q]
    BY <1>1, <1>2 DEF IInv, Typed, LockFree
  <2> QED  BY <1>1, <1>2, <2>1, SearchKeeps
<1>3. CASE Answer(d, None)
  BY <1>1, <1>3, AnswerKeeps
<1> QED  BY <1>2, <1>3 DEF LockAdmitted

LEMMA VerifyKeeps ==
    ASSUME IInv, NEW d \in Drivers, Verify(d)
    PROVE  IInv'
<1> DEFINE hit == drv[d].hit
<1>1. /\ drv[d].at = "search" /\ drv[d].search = "verify"
      /\ UNCHANGED <<files, pools, surprises>> /\ surprises' \in 0..MaxSurprises
      /\ drv[d] \in CallTypes /\ CallOK(drv[d], d)
  BY DEF Verify, Searched, On, AsUsual, IInv, Typed
<1>2. CASE /\ hit # None /\ hit.pool = drv[d].pool /\ hit.rec.state \in {"creating", "live"}
           /\ Set(d, [drv[d] EXCEPT !.at = "build"]) /\ Working
  <2> DEFINE c == [drv[d] EXCEPT !.at = "build"]
  <2>1. c \in CallTypes /\ c.op = drv[d].op /\ c.at = "build" /\ c.pool = drv[d].pool
    BY <1>1 DEF CallTypes
  <2>2. Set(d, c) /\ Working
    BY <1>2
  <2> HIDE DEF c
  <2>3. CallOK(c, d)
    BY <1>1, <1>2, <2>1 DEF CallOK, Placed, Scanned, Verified, Searching
  <2> QED  BY <1>1, <2>1, <2>2, <2>3, MoveKeeps
<1>3. CASE Answer(d, None)
  BY <1>1, <1>3, AnswerKeeps
<1> QED  BY <1>2, <1>3 DEF Verify

----------------------------------------------------------------------------
\* A call that ends; it has changed the record of pool p.
LEMMA EndKeeps ==
    ASSUME IInv, NEW d \in Drivers, NEW p \in Pools, NEW r \in RecTypes,
           NEW about \in Pools \cup {None, "deleted"}, Answer(d, about),
           rec' = [rec EXCEPT ![p] = r], births' \in 0..MaxBirths, UNCHANGED pools,
           surprises' \in 0..MaxSurprises,
           \A e \in Drivers \ {d} : (Scanned(drv[e]) /\ Verified(drv[e]))',
           OneHome'
    PROVE  IInv'
<1>1. /\ drv' \in [Drivers -> CallTypes] /\ drv'[d] = NoCall
      /\ \A e \in Drivers \ {d} : drv'[e] = drv[e]
  BY NoCallTyped DEF Answer, Set, IInv, Typed
<1>2. /\ identity' \in Drivers \cup {None} /\ lock' \in [Pools -> Drivers \cup {None}]
      /\ \A e \in Drivers \ {d} : identity = e => identity' = e
      /\ \A q \in Pools, e \in Drivers \ {d} : lock[q] = e => lock'[q] = e
  BY DEF Answer, Release, IInv, Typed
<1>3. told' \in Pools \cup {None, "deleted"}
  BY DEF Answer, IInv, Typed
<1>4. Typed'
  BY <1>1, <1>2, <1>3 DEF IInv, Typed, pools
<1>5. \A e \in Drivers : CallOK(drv[e], e)'
  <2> SUFFICES ASSUME NEW e \in Drivers PROVE CallOK(drv[e], e)'
    OBVIOUS
  <2>1. CASE e = d
    BY <2>1, <1>1 DEF NoCall, CallOK, Placed, Scanned, Verified, Searching
  <2>2. CASE e # d
    <3>1. CallOK(drv[e], e) /\ drv'[e] = drv[e]
      BY <2>2, <1>1 DEF IInv
    <3>2. Placed(drv[e], e)'
      BY <2>2, <3>1, <1>2 DEF CallOK, Placed, Searching
    <3> QED  BY <2>2, <3>2 DEF CallOK
  <2> QED  BY <2>1, <2>2
<1> QED  BY <1>4, <1>5 DEF IInv

\* A purge takes away what no other call counts on.
LEMMA PurgeKeeps ==
    ASSUME IInv, NEW d \in Drivers, Purge(d)
    PROVE  IInv'
<1> DEFINE p == drv[d].pool
<1>1. /\ drv[d].at = "purge" /\ UNCHANGED <<births, pools, surprises>>
      /\ surprises' \in 0..MaxSurprises /\ births' \in 0..MaxBirths
      /\ drv[d] \in CallTypes /\ CallOK(drv[d], d) /\ p \in Pools /\ lock[p] = d
      /\ rec[p] \in RecTypes /\ rec \in [Pools -> RecTypes]
  BY DEF Purge, On, AsUsual, IInv, Typed, CallOK, Placed
<1>2. PICK r \in RecTypes :
         /\ rec' = [rec EXCEPT ![p] = r]
         /\ \/ rec[p].state = "live" /\ r.state = "deleting" /\ UNCHANGED drv /\ Working
            \/ r.state = "none" /\ Answer(d, "deleted")
  <2>1. CASE rec[p].state = "live"
    <3> DEFINE n == [rec[p] EXCEPT !.state = "deleting"]
    <3>1. n \in RecTypes /\ n.state = "deleting"
      BY <1>1 DEF RecTypes
    <3>2. rec' = [rec EXCEPT ![p] = n] /\ UNCHANGED drv /\ Working
      BY <1>1, <2>1 DEF Purge
    <3> HIDE DEF n
    <3> QED  BY <2>1, <3>1, <3>2
  <2>2. CASE rec[p].state # "live"
    <3>1. NoRec \in RecTypes /\ NoRec.state = "none"
      BY DEF NoRec, RecTypes
    <3> QED  BY <2>2, <3>1 DEF Purge
  <2> QED  BY <2>1, <2>2
<1>3. \A e \in Drivers \ {d} : CallOK(drv[e], e) /\ drv'[e] = drv[e] /\ drv[e] \in CallTypes
  BY <1>2 DEF Answer, Set, IInv, Typed
<1>4. \A q \in Pools : rec'[q] = (IF q = p THEN r ELSE rec[q])
  BY <1>1, <1>2
<1>5. \A e \in Drivers \ {d} : (Scanned(drv[e]) /\ Verified(drv[e]))'
  <2> SUFFICES ASSUME NEW e \in Drivers \ {d} PROVE (Scanned(drv[e]) /\ Verified(drv[e]))'
    OBVIOUS
  <2>1. (Searching(drv[e], "verify") \/ drv[e].at = "build") => drv[e].pool \in Pools \ {p}
    BY <1>1, <1>3 DEF CallOK, Placed
  <2>2. \A q \in Pools : rec[q].state = "none" => rec'[q].state = "none"
    BY <1>2, <1>4
  <2>3. \A q \in Pools : rec'[q].state \in {"live", "deleting"}
                         => rec[q].state \in {"live", "deleting"}
    BY <1>2, <1>4
  <2>4. drv[e].half \in Pools \cup {None}
    BY <1>3 DEF CallTypes
  <2> QED
    BY <1>3, <1>4, <2>1, <2>2, <2>3, <2>4 DEF CallOK, Scanned, Verified, Searching
<1>6. OneHome'
  BY <1>2, <1>4 DEF IInv, OneHome
<1>7. CASE Answer(d, "deleted")
  BY <1>1, <1>2, <1>5, <1>6, <1>7, EndKeeps
<1>8. CASE UNCHANGED drv /\ Working
  <2>1. Typed'
    BY <1>1, <1>2, <1>8 DEF IInv, Typed, pools, Working, locks
  <2>2. \A e \in Drivers : CallOK(drv[e], e)'
    <3> SUFFICES ASSUME NEW e \in Drivers PROVE CallOK(drv[e], e)'
      OBVIOUS
    <3>1. Placed(drv[e], e)'
      BY <1>8 DEF IInv, CallOK, Placed, Searching, Working, locks
    <3>2. CASE e = d
      BY <1>1, <1>8, <3>1, <3>2 DEF CallOK, Scanned, Verified, Searching
    <3> QED  BY <1>5, <3>1, <3>2 DEF CallOK
  <2> QED  BY <1>6, <2>1, <2>2 DEF IInv
<1> QED  BY <1>2, <1>7, <1>8

\* Only one call creates.
LEMMA OnlyCreate ==
    ASSUME IInv, NEW d \in Drivers, drv[d].op = "create", NEW e \in Drivers \ {d}
    PROVE  /\ drv[e].op # "create" /\ drv[e].at \notin {"select", "admitted", "build"}
           /\ ~Searching(drv[e], "method") /\ ~Searching(drv[e], "verify")
BY DEF IInv, CallOK, Placed

\* The one place where a record comes into being.
LEMMA SelectKeeps ==
    ASSUME IInv, NEW d \in Drivers, Select(d)
    PROVE  IInv'
<1>1. /\ drv[d].at = "select" /\ UNCHANGED pools /\ surprises' \in 0..MaxSurprises
      /\ drv[d] \in CallTypes /\ CallOK(drv[d], d) /\ drv[d].op = "create" /\ identity = d
      /\ \A p \in Pools : rec[p].state = "none"
  <2>1. drv[d] \in CallTypes /\ CallOK(drv[d], d)
    BY DEF IInv, Typed
  <2>2. drv[d].at = "select" /\ UNCHANGED pools
    BY DEF Select, On
  <2>3. surprises' \in 0..MaxSurprises
    <3>1. AsUsual \/ Surprise
      BY DEF Select
    <3> QED
      BY <3>1 DEF AsUsual, Surprise, IInv, Typed
  <2> QED
    BY <2>1, <2>2, <2>3 DEF CallOK, Placed, Scanned
<1>2. ASSUME NEW p \in drv[d].todo, Skip(d, p), UNCHANGED files  PROVE IInv'
  <2> DEFINE c == [drv[d] EXCEPT !.todo = @ \ {p}]
  <2>1. c \in CallTypes /\ c.op = "create" /\ c.at = "select"
    BY <1>1 DEF CallTypes
  <2>2. Set(d, c) /\ Working
    BY <1>2 DEF Skip
  <2> HIDE DEF c
  <2>3. CallOK(c, d)
    BY <1>1, <2>1 DEF CallOK, Placed, Scanned, Verified, Searching
  <2> QED  BY <1>1, <1>2, <2>1, <2>2, <2>3, MoveKeeps
<1>3. ASSUME Answer(d, None), UNCHANGED files  PROVE IInv'
  BY <1>1, <1>3, AnswerKeeps
<1>4. ASSUME NEW p \in drv[d].todo, births < MaxBirths,
             rec' = [rec EXCEPT ![p] = Reserved(p)],
             births' = births + (IF rec[p].state = "none" THEN 1 ELSE 0),
             \/ Set(d, [drv[d] EXCEPT !.at = "admitted", !.pool = p]) /\ Working
             \/ Answer(d, None)
      PROVE  IInv'
  <2>1. p \in Pools /\ rec[p].state = "none" /\ rec \in [Pools -> RecTypes]
        /\ births \in Nat /\ births' \in 0..MaxBirths
    BY <1>1, <1>4 DEF CallTypes, IInv, Typed
  <2>2. PICK r \in RecTypes : r = Reserved(p) /\ r.state = "creating"
    BY <1>4, <2>1 DEF Reserved, RecTypes
  <2>3. rec' = [rec EXCEPT ![p] = r]
    BY <1>4, <2>2
  <2>4. \A q \in Pools : q # p => rec'[q].state = "none"
    BY <1>1, <2>1, <2>3
  <2>5. OneHome'
    BY <2>4 DEF OneHome
  <2>6. \A e \in Drivers \ {d} : drv'[e] = drv[e]
    BY <1>4 DEF Answer, Set, IInv, Typed
  <2>7. \A e \in Drivers \ {d} : (Scanned(drv[e]) /\ Verified(drv[e]))'
    BY <1>1, <2>6, OnlyCreate DEF Scanned, Verified, Searching
  <2>8. CASE Answer(d, None)
    BY <1>1, <2>1, <2>3, <2>5, <2>7, <2>8, EndKeeps
  <2>9. CASE Set(d, [drv[d] EXCEPT !.at = "admitted", !.pool = p]) /\ Working
    <3> DEFINE n == [drv[d] EXCEPT !.at = "admitted", !.pool = p]
    <3>1. n \in CallTypes /\ n.op = "create" /\ n.at = "admitted" /\ n.pool = p
      BY <1>1, <2>1 DEF CallTypes
    <3>2. Set(d, n) /\ Working
      BY <2>9
    <3> HIDE DEF n
    <3>3. drv' \in [Drivers -> CallTypes] /\ drv'[d] = n
      BY <3>1, <3>2 DEF Set, IInv, Typed
    <3>4. Typed'
      BY <1>1, <2>1, <2>3, <3>2, <3>3 DEF IInv, Typed, pools, Working, locks
    <3>5. \A e \in Drivers : CallOK(drv[e], e)'
      <4> SUFFICES ASSUME NEW e \in Drivers PROVE CallOK(drv[e], e)'
        OBVIOUS
      <4>1. CASE e = d
        BY <1>1, <2>1, <3>1, <3>2, <3>3, <4>1
           DEF CallOK, Placed, Scanned, Verified, Searching, Working, locks
      <4>2. CASE e # d
        <5>1. Placed(drv[e], e)'
          BY <2>6, <3>2, <4>2 DEF IInv, CallOK, Placed, Searching, Working, locks
        <5> QED  BY <2>7, <4>2, <5>1 DEF CallOK
      <4> QED  BY <4>1, <4>2
    <3> QED  BY <2>5, <3>4, <3>5 DEF IInv
  <2> QED  BY <1>4, <2>8, <2>9
<1> QED
  BY <1>2, <1>3, <1>4 DEF Select, AdmissionBroke

LEMMA BuildKeeps ==
    ASSUME IInv, NEW d \in Drivers, Build(d)
    PROVE  IInv'
<1> DEFINE p == drv[d].pool
<1>1. /\ drv[d].at = "build" /\ UNCHANGED <<births, pools>> /\ surprises' \in 0..MaxSurprises
      /\ births' \in 0..MaxBirths
      /\ drv[d].op = "create" /\ p \in Pools /\ rec[p].state # "none"
      /\ rec[p] \in RecTypes /\ rec \in [Pools -> RecTypes]
  BY DEF Build, On, AsUsual, Surprise, IInv, Typed, CallOK, Placed, Verified
<1>2. CASE rec' = [rec EXCEPT ![p].state = "live"] /\ Answer(d, p)
  <2> DEFINE n == [rec[p] EXCEPT !.state = "live"]
  <2>1. n \in RecTypes
    BY <1>1 DEF RecTypes
  <2>2. rec' = [rec EXCEPT ![p] = n]
    BY <1>1, <1>2
  <2> HIDE DEF n
  <2>3. \A e \in Drivers \ {d} : drv'[e] = drv[e]
    BY <1>2 DEF Answer, Set, IInv, Typed
  <2>4. \A e \in Drivers \ {d} : (Scanned(drv[e]) /\ Verified(drv[e]))'
    BY <1>1, <2>3, OnlyCreate DEF Scanned, Verified, Searching
  <2>5. OneHome'
    BY <1>1, <2>2 DEF IInv, OneHome
  <2> QED  BY <1>1, <1>2, <2>1, <2>2, <2>4, <2>5, EndKeeps
<1>3. CASE UNCHANGED rec /\ Answer(d, None)
  BY <1>1, <1>3, AnswerKeeps DEF files
<1> QED  BY <1>2, <1>3 DEF Build

LEMMA DieKeeps ==
    ASSUME IInv, NEW d \in Drivers, Die(d)
    PROVE  IInv'
<1>1. Answer(d, None)
  BY DEF Die, Answer
<1>2. UNCHANGED <<files, pools>> /\ surprises' \in 0..MaxSurprises
  BY DEF Die, Surprise, IInv, Typed
<1> QED  BY <1>1, <1>2, AnswerKeeps

LEMMA PoolsKeep ==
    ASSUME IInv, ChangePools  PROVE IInv'
<1>1. UNCHANGED <<rec, births, drv, identity, lock, told>> /\ surprises' \in 0..MaxSurprises
  BY DEF ChangePools, Surprise, files, locks, IInv, Typed
<1>2. /\ available' \subseteq Pools /\ roomy' \subseteq Pools /\ open' \subseteq Pools
  BY DEF ChangePools, IInv, Typed
<1>3. Typed' /\ OneHome'
  BY <1>1, <1>2 DEF IInv, Typed, OneHome
<1>4. \A e \in Drivers : CallOK(drv[e], e)'
  BY <1>1 DEF IInv, CallOK, Placed, Scanned, Verified, Searching
<1> QED  BY <1>3, <1>4 DEF IInv

LEMMA SelectNextKeeps ==
    ASSUME BlindLooks = FALSE, IInv, SelectNext  PROVE IInv'
<1>1. ASSUME NEW d \in Drivers, Driver(d)  PROVE IInv'
  BY <1>1, BeginKeeps, MetadataKeeps, PendingKeeps, FirstKeeps, LockKeeps, LockedKeeps,
     PurgeKeeps, MethodKeeps, SelectKeeps, AdmittedKeeps, VerifyKeeps, BuildKeeps, DieKeeps
     DEF Driver
<1> QED  BY <1>1, PoolsKeep DEF SelectNext

LEMMA IdleKeeps ==
    ASSUME IInv, UNCHANGED selectVars  PROVE IInv'
BY DEF selectVars, files, pools, locks, IInv, Typed, CallOK, Placed, Scanned, Verified,
       Searching, OneHome

LEMMA InitIInv == Init => IInv
<1> SUFFICES ASSUME SelectInit PROVE IInv
  BY DEF Init
<1>1. Typed
  BY NoCallTyped DEF SelectInit, Typed, NoRec, RecTypes
<1>2. \A d \in Drivers : CallOK(drv[d], d)
  BY NoCallOK DEF SelectInit
<1>3. OneHome
  BY DEF SelectInit, OneHome, NoRec
<1> QED  BY <1>1, <1>2, <1>3 DEF IInv

(***************************************************************************)
(* The invariant holds as long as a pool that cannot be read fails the     *)
(* search (search_volume).                                                 *)
(***************************************************************************)
LEMMA IInvHolds ==
    ASSUME BlindLooks = FALSE  PROVE Spec => []IInv
<1>1. IInv /\ [Next]_vars => IInv'
  BY SelectNextKeeps, IdleKeeps DEF Next, vars
<1> QED  BY <1>1, InitIInv, PTL DEF Spec

(***************************************************************************)
(* However many pools there are and however many processes create and      *)
(* delete the name, no pool has anything of it while another one has, as   *)
(* long as every look at a pool sees what is there (search_volume,         *)
(* serialized_volume_creation_identity, CreateVolume).                     *)
(***************************************************************************)
THEOREM HomeIsUnique ==
    ASSUME BlindLooks = FALSE  PROVE Spec => []OneHome
<1>1. IInv => OneHome
  BY DEF IInv
<1> QED  BY <1>1, IInvHolds, PTL

----------------------------------------------------------------------------
(* The answers *)

\* A step of one call; what it does to the records and to the answer is given.
LEMMA StepGrounds ==
    ASSUME IInv, AInv, NEW d \in Drivers, NEW c \in CallTypes, Set(d, c),
           c.op \in {None, drv[d].op}, c.op # None /\ c.alone => drv[d].alone,
           Grounded(c)', \A e \in Drivers \ {d} : Grounded(drv[e])',
           told' \in Pools => rec'[told'].state = "live",
           told' = "deleted" => \A p \in Pools : rec'[p].state = "none",
           \/ told' = told
           \/ told' \in Pools /\ drv[d].alone /\ drv[d].op = "create"
           \/ told' = "deleted" /\ drv[d].alone /\ drv[d].op = "delete"
    PROVE  AInv'
<1>1. \A e \in Drivers : drv'[e] = (IF e = d THEN c ELSE drv[e])
  BY DEF Set, IInv, Typed
<1>2. Apart'
  BY <1>1 DEF AInv, Apart
<1>3. \A e \in Drivers : drv'[e].op \in {None, drv[e].op}
  BY <1>1
<1>4. Kept'
  <2>1. CASE told' = told
    BY <1>3, <2>1 DEF AInv, Kept
  <2>2. CASE told' \in Pools /\ drv[d].alone /\ drv[d].op = "create"
    BY <1>3, <2>2 DEF AInv, Kept, Apart
  <2>3. CASE told' = "deleted" /\ drv[d].alone /\ drv[d].op = "delete"
    BY <1>3, <2>3 DEF AInv, Kept, Apart
  <2> QED  BY <2>1, <2>2, <2>3
<1>5. \A e \in Drivers : Grounded(drv[e])'
  BY <1>1
<1> QED  BY <1>2, <1>4, <1>5 DEF AInv

\* A step that changes no record and answers nothing.
LEMMA MoveGrounds ==
    ASSUME IInv, AInv, NEW d \in Drivers, NEW c \in CallTypes, Set(d, c),
           UNCHANGED <<files, told>>, c.op = drv[d].op, c.alone = drv[d].alone, Grounded(c)
    PROVE  AInv'
<1>1. \A e \in Drivers \ {d} : drv'[e] = drv[e]
  BY DEF Set, IInv, Typed
<1>2. \A e \in Drivers \ {d} : Grounded(drv[e])'
  BY <1>1 DEF AInv, Grounded, Missed, Found, Caught, files
<1>3. Grounded(c)'
  BY DEF Grounded, Missed, Found, Caught, files
<1>4. /\ told' \in Pools => rec'[told'].state = "live"
      /\ told' = "deleted" => \A p \in Pools : rec'[p].state = "none"
  BY DEF AInv, Kept, files
<1> QED
  BY <1>2, <1>3, <1>4, StepGrounds, Zenon DEF files

LEMMA NoCallGrounded == Grounded(NoCall)
BY DEF NoCall, Grounded, Missed, Found, Caught, Searching

\* An answer that changes no record promises only what is so.
LEMMA AnswerGrounds ==
    ASSUME IInv, AInv, NEW d \in Drivers, NEW about \in Pools \cup {None, "deleted"},
           Answer(d, about), UNCHANGED files,
           about \in Pools /\ drv[d].alone => drv[d].op = "create" /\ rec[about].state = "live",
           about = "deleted" /\ drv[d].alone =>
              drv[d].op = "delete" /\ \A p \in Pools : rec[p].state = "none"
    PROVE  AInv'
<1>1. Set(d, NoCall) /\ NoCall.op = None /\ NoCall \in CallTypes
  BY NoCallTyped DEF Answer, NoCall
<1>2. \A e \in Drivers \ {d} : drv'[e] = drv[e]
  BY <1>1 DEF Set, IInv, Typed
<1>3. \A e \in Drivers \ {d} : Grounded(drv[e])'
  BY <1>2 DEF AInv, Grounded, Missed, Found, Caught, files
<1>4. Grounded(NoCall)'
  BY DEF NoCall, Grounded, Missed, Found, Caught, Searching
<1>5. \/ told' = told
      \/ told' \in Pools /\ drv[d].alone /\ drv[d].op = "create" /\ rec[told'].state = "live"
      \/ /\ told' = "deleted" /\ drv[d].alone /\ drv[d].op = "delete"
         /\ \A p \in Pools : rec[p].state = "none"
  BY DEF Answer
<1>6. /\ told' \in Pools => rec'[told'].state = "live"
      /\ told' = "deleted" => \A p \in Pools : rec'[p].state = "none"
  BY <1>5 DEF AInv, Kept, files
<1> QED
  BY <1>1, <1>3, <1>4, <1>5, <1>6, StepGrounds

LEMMA SearchGrounds ==
    ASSUME IInv, AInv, NEW d \in Drivers, NEW which \in {"first", "locked", "method", "verify"},
           Search(d, which), UNCHANGED <<files, told>>
    PROVE  AInv'
<1> DEFINE c == [drv[d] EXCEPT !.at = "search", !.search = which, !.todo = Pools,
                               !.half = None, !.hit = None]
<1>1. drv[d] \in CallTypes
  BY DEF IInv, Typed
<1>2. /\ c \in CallTypes /\ c.op = drv[d].op /\ c.alone = drv[d].alone
      /\ c.at = "search" /\ c.search = which /\ c.todo = Pools /\ c.half = None /\ c.hit = None
  BY <1>1 DEF CallTypes
<1>3. Set(d, c)
  BY DEF Search
<1> HIDE DEF c
<1>4. Grounded(c)
  BY <1>2 DEF Grounded, Missed, Found, Caught
<1> QED  BY <1>2, <1>3, <1>4, MoveGrounds

LEMMA BeginGrounds ==
    ASSUME IInv, AInv, NEW d \in Drivers, StartCreate(d) \/ StartDelete(d)
    PROVE  AInv'
<1> PICK op \in {"create", "delete"} :
         /\ Begin(d, op)
         /\ op = "create" => told' = IF told = "deleted" THEN None ELSE told
         /\ op = "delete" => told' = None
  BY DEF StartCreate, StartDelete
<1>1. UNCHANGED files
  BY DEF StartCreate, StartDelete
<1>2. \A e \in Drivers \ {d} :
         /\ drv'[e].op = drv[e].op /\ drv'[e].at = drv[e].at /\ drv'[e].search = drv[e].search
         /\ drv'[e].todo = drv[e].todo /\ drv'[e].half = drv[e].half
         /\ drv'[e].hit = drv[e].hit /\ drv'[e].pool = drv[e].pool
         /\ drv'[e].alone => drv[e].alone
         /\ drv'[e].alone => drv[e].op \in {None, op}
  <2> TAKE e \in Drivers \ {d}
  <2>1. drv[e] \in CallTypes
    BY DEF IInv, Typed
  <2>2. drv'[e] = IF drv[e].op \notin {None, op} THEN [drv[e] EXCEPT !.alone = FALSE] ELSE drv[e]
    BY DEF Begin
  <2> QED
    BY <2>1, <2>2 DEF CallTypes
<1>3. /\ drv'[d].op = op /\ Searching(drv'[d], "first") /\ drv'[d].todo = Pools
      /\ drv'[d].half = None /\ drv'[d].hit = None
      /\ drv'[d].alone = ({e \in Drivers : drv[e].op \notin {None, op}} = {})
  BY DEF Begin, NoCall, Searching
<1>4. drv'[d].alone => \A e \in Drivers : drv[e].op \in {None, op}
  BY <1>3
<1>5. Apart'
  BY <1>2, <1>3, <1>4 DEF AInv, Apart
<1>6. Kept'
  BY <1>1, <1>2, <1>3 DEF AInv, Kept, files
<1>7. \A e \in Drivers : Grounded(drv[e])'
  <2> SUFFICES ASSUME NEW e \in Drivers PROVE Grounded(drv[e])'
    OBVIOUS
  <2>1. CASE e = d
    BY <2>1, <1>3 DEF Grounded, Missed, Found, Caught, Searching
  <2>2. CASE e # d
    BY <2>2, <1>1, <1>2 DEF AInv, Grounded, Missed, Found, Caught, Searching, files
  <2> QED  BY <2>1, <2>2
<1> QED  BY <1>5, <1>6, <1>7 DEF AInv

LEMMA TakeGrounds ==
    ASSUME IInv, AInv, NEW d \in Drivers, drv[d].at = "search", NEW p \in Pools, Take(d, p),
           rec[p].state # "none", UNCHANGED files
    PROVE  AInv'
<1>1. CASE drv[d].hit # None
  BY <1>1, AnswerGrounds DEF Take
<1>2. CASE drv[d].hit = None
  <2>1. drv[d] \in CallTypes /\ rec[p] \in RecTypes
    BY DEF IInv, Typed
  <2>2. PICK n \in Hits : n = [pool |-> p, rec |-> rec[p]]
    BY <2>1 DEF Hits
  <2>3. n # None
    BY DEF Hits
  <2>4. Set(d, [drv[d] EXCEPT !.todo = @ \ {p}, !.half = None, !.hit = n]) /\ Working
    BY <1>2, <2>2 DEF Take
  <2>5. PICK c \in CallTypes :
           /\ Set(d, c)
           /\ c.op = drv[d].op /\ c.alone = drv[d].alone /\ c.at = "search"
           /\ c.pool = drv[d].pool /\ c.hit = n /\ n.pool = p /\ n.rec = rec[p]
    BY <2>1, <2>2, <2>4 DEF CallTypes
  <2>6. Grounded(c)
    BY <2>3, <2>5 DEF Grounded, Missed, Found, Caught, Searching
  <2> QED
    BY <2>4, <2>5, <2>6, MoveGrounds DEF Working
<1> QED  BY <1>1, <1>2

LEMMA MetadataGrounds ==
    ASSUME IInv, AInv, NEW d \in Drivers, LookForMetadata(d)
    PROVE  AInv'
<1>1. PICK p \in drv[d].todo :
         IF Barred(p) THEN Answer(d, None)
         ELSE IF StateIn(p) \in {"live", "deleting"} THEN Take(d, p)
         ELSE Set(d, [drv[d] EXCEPT !.half = p]) /\ Working
  BY DEF LookForMetadata
<1>2. /\ drv[d].at = "search" /\ drv[d].half = None /\ UNCHANGED files
      /\ drv[d] \in CallTypes /\ Grounded(drv[d]) /\ p \in Pools
  BY DEF LookForMetadata, On, IInv, Typed, CallTypes, AInv
<1>3. CASE Barred(p)
  BY <1>1, <1>2, <1>3, AnswerGrounds
<1>4. CASE ~Barred(p) /\ StateIn(p) \in {"live", "deleting"}
  BY <1>1, <1>2, <1>4, TakeGrounds DEF StateIn, Barred
<1>5. CASE ~Barred(p) /\ StateIn(p) \notin {"live", "deleting"}
  <2> DEFINE c == [drv[d] EXCEPT !.half = p]
  <2>1. /\ c \in CallTypes /\ c.op = drv[d].op /\ c.alone = drv[d].alone /\ c.at = drv[d].at
        /\ c.search = drv[d].search /\ c.pool = drv[d].pool /\ c.hit = drv[d].hit
        /\ c.todo = drv[d].todo /\ c.half = p
    BY <1>2 DEF CallTypes
  <2>2. Set(d, c) /\ Working
    BY <1>1, <1>5
  <2> HIDE DEF c
  <2>3. rec[p].state \notin {"live", "deleting"}
    BY <1>5 DEF StateIn, Barred
  <2>4. Grounded(c)
    BY <1>2, <2>1, <2>3 DEF Grounded, Missed, Found, Caught, Searching
  <2> QED
    BY <1>2, <2>1, <2>2, <2>4, MoveGrounds DEF Working
<1> QED  BY <1>3, <1>4, <1>5

LEMMA PendingGrounds ==
    ASSUME BlindLooks = FALSE, IInv, AInv, NEW d \in Drivers, LookForPending(d)
    PROVE  AInv'
<1> DEFINE p == drv[d].half
<1>1. /\ drv[d].at = "search" /\ p # None /\ UNCHANGED files
      /\ drv[d] \in CallTypes /\ Grounded(drv[d]) /\ p \in Pools
  BY DEF LookForPending, On, IInv, Typed, CallTypes, AInv
<1>2. \/ rec[p].state = "creating" /\ Take(d, p)
      \/ /\ rec[p].state # "creating"
         /\ Set(d, [drv[d] EXCEPT !.todo = @ \ {p}, !.half = None]) /\ Working
  BY DEF LookForPending, PendingSeen
<1>3. CASE rec[p].state = "creating" /\ Take(d, p)
  BY <1>1, <1>3, TakeGrounds
<1>4. CASE /\ rec[p].state # "creating"
           /\ Set(d, [drv[d] EXCEPT !.todo = @ \ {p}, !.half = None]) /\ Working
  <2> DEFINE c == [drv[d] EXCEPT !.todo = @ \ {p}, !.half = None]
  <2>1. /\ c \in CallTypes /\ c.op = drv[d].op /\ c.alone = drv[d].alone /\ c.at = drv[d].at
        /\ c.search = drv[d].search /\ c.pool = drv[d].pool /\ c.hit = drv[d].hit
        /\ c.todo = drv[d].todo \ {p} /\ c.half = None
    BY <1>1 DEF CallTypes
  <2> HIDE DEF c
  <2>2. rec[p].state \in {"none", "creating", "live", "deleting"}
    BY <1>1 DEF IInv, Typed, RecTypes
  <2>3. Missed(c)
    BY <1>1, <1>4, <2>1, <2>2 DEF Grounded, Missed
  <2>4. Found(c) /\ Caught(c)
    BY <1>1, <2>1 DEF Grounded, Found, Caught, Searching
  <2>5. Set(d, c) /\ Working
    BY <1>4 DEF c
  <2> QED
    BY <1>1, <2>1, <2>3, <2>4, <2>5, MoveGrounds DEF Working, Grounded
<1> QED  BY <1>2, <1>3, <1>4

\* A call that goes on, with other business than a search or a purge.
LEMMA GoOnGrounds ==
    ASSUME IInv, AInv, NEW d \in Drivers, NEW c \in CallTypes, Set(d, c),
           UNCHANGED <<files, told>>, c.op = drv[d].op, c.alone = drv[d].alone,
           c.at \notin {"search", "purge"}
    PROVE  AInv'
BY MoveGrounds DEF Grounded, Missed, Found, Caught, Searching

LEMMA FirstGrounds ==
    ASSUME IInv, AInv, NEW d \in Drivers, AfterFirstSearch(d)
    PROVE  AInv'
<1> DEFINE hit == drv[d].hit
<1>1. /\ drv[d].at = "search" /\ drv[d].todo = {} /\ UNCHANGED files
      /\ drv[d] \in CallTypes /\ Grounded(drv[d])
  BY DEF AfterFirstSearch, Searched, On, IInv, Typed, AInv
<1>2. CASE /\ hit # None
           /\ Set(d, [drv[d] EXCEPT !.at = "lock", !.was = Evidence(hit), !.pool = hit.pool])
           /\ Working
  <2>1. hit \in Hits
    BY <1>1, <1>2 DEF CallTypes
  <2>2. Evidence(hit) \in Hits
    BY <2>1 DEF Evidence, Hits, NoRec, RecTypes, IInv, Typed
  <2>3. PICK w \in Hits, q \in Pools : w = Evidence(hit) /\ q = hit.pool
    BY <2>1, <2>2 DEF Hits
  <2> DEFINE c == [drv[d] EXCEPT !.at = "lock", !.was = w, !.pool = q]
  <2>4. c \in CallTypes /\ c.op = drv[d].op /\ c.alone = drv[d].alone /\ c.at = "lock"
    BY <1>1 DEF CallTypes
  <2>5. Set(d, c) /\ Working
    BY <1>2, <2>3
  <2> HIDE DEF c
  <2> QED  BY <1>1, <2>4, <2>5, GoOnGrounds DEF Working
<1>3. CASE Search(d, "method") /\ Working
  BY <1>1, <1>3, SearchGrounds DEF Working
<1>4. CASE hit = None /\ drv[d].op = "delete" /\ Answer(d, "deleted")
  <2>1. drv[d].alone => \A p \in Pools : rec[p].state = "none"
    BY <1>1, <1>4 DEF Grounded, Missed
  <2> QED  BY <1>1, <1>4, <2>1, AnswerGrounds
<1> QED  BY <1>2, <1>3, <1>4 DEF AfterFirstSearch

LEMMA LockGrounds ==
    ASSUME IInv, AInv, NEW d \in Drivers, LockFound(d)
    PROVE  AInv'
BY SearchGrounds, AnswerGrounds DEF LockFound

LEMMA LockedGrounds ==
    ASSUME IInv, AInv, NEW d \in Drivers, AfterLockedSearch(d)
    PROVE  AInv'
<1>1. /\ drv[d].at = "search" /\ drv[d].search = "locked" /\ drv[d].todo = {}
      /\ UNCHANGED files /\ drv[d] \in CallTypes /\ Grounded(drv[d])
  BY DEF AfterLockedSearch, Searched, On, IInv, Typed, AInv
<1>2. CASE Search(d, "method") /\ Working
  BY <1>1, <1>2, SearchGrounds DEF Working
<1>3. CASE Same(d) /\ Set(d, [drv[d] EXCEPT !.at = "purge"]) /\ Working
  <2> DEFINE c == [drv[d] EXCEPT !.at = "purge"]
  <2>1. /\ c \in CallTypes /\ c.op = drv[d].op /\ c.alone = drv[d].alone /\ c.at = "purge"
        /\ c.pool = drv[d].pool
    BY <1>1, <1>3 DEF CallTypes
  <2>2. Set(d, c) /\ Working
    BY <1>3
  <2> HIDE DEF c
  <2>3. rec[drv[d].pool].state # "none"
    BY <1>1, <1>3 DEF Same, Grounded, Caught, Searching
  <2>4. Grounded(c)
    BY <2>1, <2>3 DEF Grounded, Missed, Found, Caught, Searching
  <2> QED  BY <1>1, <2>1, <2>2, <2>4, MoveGrounds DEF Working
<1>4. CASE drv[d].hit = None /\ drv[d].op = "delete" /\ Answer(d, "deleted")
  <2>1. drv[d].alone => \A p \in Pools : rec[p].state = "none"
    BY <1>1, <1>4 DEF Grounded, Missed
  <2> QED  BY <1>1, <1>4, <2>1, AnswerGrounds
<1>5. CASE Answer(d, None)
  BY <1>1, <1>5, AnswerGrounds
<1> QED  BY <1>2, <1>3, <1>4, <1>5 DEF AfterLockedSearch

\* The last thing of the name goes, and nothing else was there.
LEMMA PurgeGrounds ==
    ASSUME IInv, AInv, NEW d \in Drivers, Purge(d)
    PROVE  AInv'
<1> DEFINE p == drv[d].pool
<1>1. /\ drv[d].at = "purge" /\ drv[d].op = "delete"
      /\ drv[d] \in CallTypes /\ p \in Pools /\ lock[p] = d /\ rec[p].state # "none"
      /\ rec[p] \in RecTypes /\ rec \in [Pools -> RecTypes] /\ told \notin Pools
  BY DEF Purge, On, IInv, Typed, CallOK, Placed, AInv, Grounded, Caught, Kept
<1>2. PICK r \in RecTypes :
         /\ \A q \in Pools : rec'[q] = (IF q = p THEN r ELSE rec[q])
         /\ \/ rec[p].state = "live" /\ r.state = "deleting" /\ UNCHANGED drv /\ Working
            \/ r.state = "none" /\ Answer(d, "deleted")
  <2>1. CASE rec[p].state = "live"
    <3> DEFINE n == [rec[p] EXCEPT !.state = "deleting"]
    <3>1. n \in RecTypes /\ n.state = "deleting"
      BY <1>1 DEF RecTypes
    <3>2. rec' = [rec EXCEPT ![p] = n] /\ UNCHANGED drv /\ Working
      BY <1>1, <2>1 DEF Purge
    <3> HIDE DEF n
    <3> QED  BY <1>1, <2>1, <3>1, <3>2
  <2>2. CASE rec[p].state # "live"
    <3>1. NoRec \in RecTypes /\ NoRec.state = "none"
      BY DEF NoRec, RecTypes
    <3> QED  BY <1>1, <2>2, <3>1 DEF Purge
  <2> QED  BY <2>1, <2>2
<1>3. /\ \A q \in Pools : rec[q].state = "none" => rec'[q].state = "none"
      /\ \A q \in Pools : rec'[q].state \in {"live", "deleting"}
                          => rec[q].state \in {"live", "deleting"}
  BY <1>2
<1>4. \A e \in Drivers \ {d} : Grounded(drv[e])' /\ drv'[e] = drv[e]
  <2> SUFFICES ASSUME NEW e \in Drivers \ {d} PROVE Grounded(drv[e])' /\ drv'[e] = drv[e]
    OBVIOUS
  <2>1. drv'[e] = drv[e] /\ drv[e] \in CallTypes /\ Grounded(drv[e]) /\ CallOK(drv[e], e)
    BY <1>2 DEF Answer, Set, IInv, Typed, AInv
  <2>2. drv[e].half \in Pools \cup {None}
    BY <2>1 DEF CallTypes
  <2>3. Missed(drv[e])'
    BY <2>1, <2>2, <1>3 DEF Grounded, Missed
  <2>4. drv[e].op # None /\ drv[e].op # "delete" => ~drv[e].alone
    BY <1>1 DEF AInv, Apart
  <2>5. Found(drv[e])'
    BY <2>1, <2>4 DEF Found
  <2>6. Searching(drv[e], "locked") \/ drv[e].at = "purge" => drv[e].pool \in Pools \ {p}
    BY <1>1, <2>1 DEF CallOK, Placed
  <2>7. Caught(drv[e])'
    BY <2>1, <2>6, <1>2 DEF Grounded, Caught, Searching
  <2> QED  BY <2>1, <2>3, <2>5, <2>7 DEF Grounded
<1>5. CASE r.state = "none" /\ Answer(d, "deleted")
  <2>1. \A q \in Pools : rec'[q].state = "none"
    BY <1>1, <1>2, <1>5 DEF IInv, OneHome
  <2>2. Set(d, NoCall) /\ NoCall.op = None /\ NoCall \in CallTypes
    BY <1>5, NoCallTyped DEF Answer, NoCall
  <2>3. Grounded(NoCall)'
    BY DEF NoCall, Grounded, Missed, Found, Caught, Searching
  <2>4. told' = told \/ (told' = "deleted" /\ drv[d].alone)
    BY <1>5 DEF Answer
  <2>5. told' \notin Pools
    BY <1>1, <2>4
  <2> QED  BY <1>1, <1>4, <2>1, <2>2, <2>3, <2>4, <2>5, StepGrounds
<1>6. CASE rec[p].state = "live" /\ r.state = "deleting" /\ UNCHANGED drv /\ Working
  <2>1. told' = told /\ told # "deleted"
    BY <1>1, <1>6 DEF AInv, Kept, Working
  <2>2. Apart' /\ Kept'
    BY <1>1, <1>6, <2>1 DEF AInv, Apart, Kept
  <2>3. Grounded(drv[d])'
    BY <1>1, <1>2, <1>6 DEF Grounded, Missed, Found, Caught, Searching
  <2> QED  BY <1>4, <2>2, <2>3 DEF AInv
<1> QED  BY <1>2, <1>5, <1>6

LEMMA MethodGrounds ==
    ASSUME IInv, AInv, NEW d \in Drivers, AfterMethodSearch(d)
    PROVE  AInv'
<1> DEFINE hit == drv[d].hit
<1>1. /\ Searching(drv[d], "method") /\ UNCHANGED files
      /\ drv[d] \in CallTypes /\ Grounded(drv[d]) /\ drv[d].op = "create"
  BY DEF AfterMethodSearch, Searched, On, IInv, Typed, CallOK, Placed, Searching, AInv
<1>2. CASE /\ hit # None /\ Set(d, [drv[d] EXCEPT !.at = "admitted", !.pool = hit.pool])
           /\ Working
  <2> DEFINE c == [drv[d] EXCEPT !.at = "admitted", !.pool = hit.pool]
  <2>1. hit.pool \in Pools
    BY <1>1, <1>2 DEF CallTypes, Hits
  <2>2. c \in CallTypes /\ c.op = drv[d].op /\ c.alone = drv[d].alone /\ c.at = "admitted"
    BY <1>1, <2>1 DEF CallTypes
  <2>3. Set(d, c) /\ Working
    BY <1>2
  <2> HIDE DEF c
  <2> QED  BY <1>1, <2>2, <2>3, GoOnGrounds DEF Working
<1>3. CASE hit # None /\ hit.rec.state = "live" /\ Answer(d, hit.pool)
  <2>1. hit.pool \in Pools
    BY <1>1, <1>3 DEF CallTypes, Hits
  <2>2. drv[d].alone => rec[hit.pool].state = "live"
    BY <1>1, <1>3 DEF Grounded, Found
  <2> QED  BY <1>1, <1>3, <2>1, <2>2, AnswerGrounds
<1>4. CASE Answer(d, None)
  BY <1>1, <1>4, AnswerGrounds
<1>5. CASE Set(d, [drv[d] EXCEPT !.at = "select", !.todo = open]) /\ Working
  <2> DEFINE c == [drv[d] EXCEPT !.at = "select", !.todo = open]
  <2>1. c \in CallTypes /\ c.op = drv[d].op /\ c.alone = drv[d].alone /\ c.at = "select"
    BY <1>1 DEF CallTypes, IInv, Typed
  <2>2. Set(d, c) /\ Working
    BY <1>5
  <2> HIDE DEF c
  <2> QED  BY <1>1, <2>1, <2>2, GoOnGrounds DEF Working
<1> QED  BY <1>2, <1>3, <1>4, <1>5 DEF AfterMethodSearch

\* No delete relies on the absence of what a create brings into being.
LEMMA CreateGrounds ==
    ASSUME IInv, AInv, NEW d \in Drivers, drv[d].op = "create",
           NEW c \in CallTypes, Set(d, c), c.op \in {None, "create"},
           c.op # None => c.alone = drv[d].alone, Grounded(c)',
           \A q \in Pools : /\ rec[q].state # "none" => rec'[q].state # "none"
                            /\ rec[q].state = "live" => rec'[q].state = "live",
           \/ told' = told
           \/ told' \in Pools /\ drv[d].alone /\ rec'[told'].state = "live"
    PROVE  AInv'
<1>1. told # "deleted"
  BY DEF AInv, Kept
<1>2. \A e \in Drivers \ {d} : Grounded(drv[e])'
  <2> SUFFICES ASSUME NEW e \in Drivers \ {d} PROVE Grounded(drv[e])'
    OBVIOUS
  <2>1. /\ drv'[e] = drv[e] /\ drv[e] \in CallTypes /\ Grounded(drv[e]) /\ CallOK(drv[e], e)
        /\ drv[e].op = "delete" => ~drv[e].alone
    BY DEF Set, IInv, Typed, AInv, Apart
  <2>2. ~Searching(drv[e], "method")
    BY OnlyCreate
  <2>3. Missed(drv[e])' /\ Found(drv[e])'
    BY <2>1, <2>2 DEF Missed, Found
  <2>4. Searching(drv[e], "locked") \/ drv[e].at = "purge" => drv[e].pool \in Pools
    BY <2>1 DEF CallOK, Placed
  <2>5. Caught(drv[e])'
    BY <2>1, <2>4 DEF Grounded, Caught, Searching
  <2> QED  BY <2>3, <2>5 DEF Grounded
<1>3. /\ told' \in Pools => rec'[told'].state = "live"
      /\ told' # "deleted"
  BY <1>1 DEF AInv, Kept
<1> QED  BY <1>2, <1>3, StepGrounds

LEMMA SelectGrounds ==
    ASSUME IInv, AInv, NEW d \in Drivers, Select(d)
    PROVE  AInv'
<1>1. /\ drv[d].at = "select" /\ drv[d] \in CallTypes /\ drv[d].op = "create"
      /\ \A p \in Pools : rec[p].state = "none"
  BY DEF Select, On, IInv, Typed, CallOK, Placed, Scanned
<1>2. ASSUME NEW p \in drv[d].todo, Skip(d, p), UNCHANGED files  PROVE AInv'
  <2> DEFINE c == [drv[d] EXCEPT !.todo = @ \ {p}]
  <2>1. c \in CallTypes /\ c.op = drv[d].op /\ c.alone = drv[d].alone /\ c.at = "select"
    BY <1>1 DEF CallTypes
  <2>2. Set(d, c) /\ Working
    BY <1>2 DEF Skip
  <2> HIDE DEF c
  <2> QED  BY <1>1, <1>2, <2>1, <2>2, GoOnGrounds DEF Working
<1>3. ASSUME Answer(d, None), UNCHANGED files  PROVE AInv'
  BY <1>3, AnswerGrounds
<1>4. ASSUME NEW p \in drv[d].todo, rec' = [rec EXCEPT ![p] = Reserved(p)],
             \/ Set(d, [drv[d] EXCEPT !.at = "admitted", !.pool = p]) /\ Working
             \/ Answer(d, None)
      PROVE  AInv'
  <2>1. p \in Pools
    BY <1>1 DEF CallTypes
  <2>2. \A q \in Pools : /\ (rec[q].state # "none" => rec'[q].state # "none")
                         /\ (rec[q].state = "live" => rec'[q].state = "live")
    BY <1>1
  <2>3. CASE Answer(d, None)
    <3>1. Set(d, NoCall) /\ NoCall.op = None /\ told' = told
      BY <2>3 DEF Answer, NoCall
    <3>2. Grounded(NoCall)'
      BY DEF NoCall, Grounded, Missed, Found, Caught, Searching
    <3> QED  BY <1>1, <2>2, <3>1, <3>2, NoCallTyped, CreateGrounds
  <2>4. CASE Set(d, [drv[d] EXCEPT !.at = "admitted", !.pool = p]) /\ Working
    <3> DEFINE n == [drv[d] EXCEPT !.at = "admitted", !.pool = p]
    <3>1. n \in CallTypes /\ n.op = "create" /\ n.at = "admitted" /\ n.alone = drv[d].alone
      BY <1>1, <2>1 DEF CallTypes
    <3>2. Set(d, n) /\ told' = told
      BY <2>4 DEF Working
    <3> HIDE DEF n
    <3>3. PICK c \in CallTypes : c = n
      BY <3>1
    <3>4. Grounded(c)'
      BY <3>1, <3>3 DEF Grounded, Missed, Found, Caught, Searching
    <3>5. Set(d, c) /\ c.op = "create" /\ c.alone = drv[d].alone
      BY <3>1, <3>2, <3>3
    <3> QED  BY <1>1, <2>2, <3>2, <3>4, <3>5, CreateGrounds
  <2> QED  BY <1>4, <2>3, <2>4
<1> QED
  BY <1>2, <1>3, <1>4 DEF Select, AdmissionBroke

LEMMA AdmittedGrounds ==
    ASSUME IInv, AInv, NEW d \in Drivers, LockAdmitted(d)
    PROVE  AInv'
BY SearchGrounds, AnswerGrounds DEF LockAdmitted

LEMMA VerifyGrounds ==
    ASSUME IInv, AInv, NEW d \in Drivers, Verify(d)
    PROVE  AInv'
<1>1. drv[d] \in CallTypes /\ UNCHANGED files
  BY DEF Verify, IInv, Typed
<1>2. CASE Set(d, [drv[d] EXCEPT !.at = "build"]) /\ Working
  <2> DEFINE c == [drv[d] EXCEPT !.at = "build"]
  <2>1. c \in CallTypes /\ c.op = drv[d].op /\ c.alone = drv[d].alone /\ c.at = "build"
    BY <1>1 DEF CallTypes
  <2>2. Set(d, c) /\ Working
    BY <1>2
  <2> HIDE DEF c
  <2> QED  BY <1>1, <2>1, <2>2, GoOnGrounds DEF Working
<1>3. CASE Answer(d, None)
  BY <1>1, <1>3, AnswerGrounds
<1> QED  BY <1>2, <1>3 DEF Verify

LEMMA BuildGrounds ==
    ASSUME IInv, AInv, NEW d \in Drivers, Build(d)
    PROVE  AInv'
<1> DEFINE p == drv[d].pool
<1>1. /\ drv[d].op = "create" /\ p \in Pools /\ rec \in [Pools -> RecTypes]
      /\ UNCHANGED births
  BY DEF Build, On, IInv, Typed, CallOK, Placed
<1>2. CASE rec' = [rec EXCEPT ![p].state = "live"] /\ Answer(d, p)
  <2>1. \A q \in Pools : IF q = p THEN rec'[q].state = "live" ELSE rec'[q] = rec[q]
    <3>1. rec[p] \in RecTypes
      BY <1>1
    <3>2. [rec[p] EXCEPT !.state = "live"].state = "live"
      BY <3>1 DEF RecTypes
    <3> QED  BY <1>1, <1>2, <3>2
  <2>2. Set(d, NoCall) /\ NoCall.op = None
    BY <1>2 DEF Answer, NoCall
  <2>3. Grounded(NoCall)'
    BY DEF NoCall, Grounded, Missed, Found, Caught, Searching
  <2>4. told' = told \/ (told' = p /\ drv[d].alone)
    BY <1>2 DEF Answer
  <2>5. \A q \in Pools : /\ (rec[q].state # "none" => rec'[q].state # "none")
                         /\ (rec[q].state = "live" => rec'[q].state = "live")
    BY <2>1
  <2> QED  BY <1>1, <2>1, <2>2, <2>3, <2>4, <2>5, NoCallTyped, CreateGrounds
<1>3. CASE UNCHANGED rec /\ Answer(d, None)
  BY <1>1, <1>3, AnswerGrounds DEF files
<1> QED  BY <1>2, <1>3 DEF Build

LEMMA DieGrounds ==
    ASSUME IInv, AInv, NEW d \in Drivers, Die(d)
    PROVE  AInv'
<1>1. Answer(d, None) /\ UNCHANGED files
  BY DEF Die, Answer
<1> QED  BY <1>1, AnswerGrounds

LEMMA NextGrounds ==
    ASSUME BlindLooks = FALSE, IInv, AInv, SelectNext  PROVE AInv'
<1>1. ASSUME NEW d \in Drivers, Driver(d)  PROVE AInv'
  BY <1>1, BeginGrounds, MetadataGrounds, PendingGrounds, FirstGrounds, LockGrounds,
     LockedGrounds, PurgeGrounds, MethodGrounds, SelectGrounds, AdmittedGrounds, VerifyGrounds,
     BuildGrounds, DieGrounds
     DEF Driver
<1>2. ASSUME ChangePools  PROVE AInv'
  <2>1. UNCHANGED <<rec, drv, told>>
    BY <1>2 DEF ChangePools, files
  <2> QED
    BY <2>1 DEF AInv, Apart, Kept, Grounded, Missed, Found, Caught, Searching
<1> QED  BY <1>1, <1>2 DEF SelectNext

LEMMA InitAInv == Init => AInv
<1> SUFFICES ASSUME SelectInit PROVE AInv
  BY DEF Init
<1>1. Apart /\ Kept
  BY DEF SelectInit, Apart, Kept, NoCall
<1>2. \A d \in Drivers : Grounded(drv[d])
  BY NoCallGrounded DEF SelectInit
<1> QED  BY <1>1, <1>2 DEF AInv

(***************************************************************************)
(* Until the opposite is asked for, the pool a create has named has the    *)
(* volume, and after a delete no pool has anything of it: however many     *)
(* pools are searched, one look after the other, while they fail, fill up  *)
(* and are fenced (search_volume, existing_volume_response,                *)
(* delete_volume).                                                         *)
(***************************************************************************)
THEOREM AnswersAreKept ==
    ASSUME BlindLooks = FALSE  PROVE Spec => []AnswersHold
<1>1. IInv /\ AInv /\ [Next]_vars => AInv'
  <2> SUFFICES ASSUME IInv, AInv, [Next]_vars PROVE AInv'
    OBVIOUS
  <2>1. SelectNext \/ UNCHANGED selectVars
    BY DEF Next, vars
  <2>2. CASE UNCHANGED selectVars
    <3>1. UNCHANGED <<rec, drv, told>>
      BY <2>2 DEF selectVars, files
    <3> QED
      BY <3>1 DEF AInv, Apart, Kept, Grounded, Missed, Found, Caught, Searching
  <2> QED  BY <2>1, <2>2, NextGrounds
<1>2. AInv => AnswersHold
  BY DEF AInv, Kept, AnswersHold
<1> QED  BY <1>1, <1>2, InitAInv, IInvHolds, PTL DEF Spec

----------------------------------------------------------------------------
LEMMA ReadyTyped ==
    ASSUME ReadyTypeOK, ReadyNext \/ UNCHANGED readyVars  PROVE ReadyTypeOK'
<1> USE ReadyAssumption DEF ReadyTypeOK
<1>1. /\ Upset => upsets' \in 0..MaxUpsets
      /\ Smooth => upsets' \in 0..MaxUpsets
  BY DEF Upset, Smooth
<1>2. /\ Cleared => marker' \in BOOLEAN /\ upsets' \in 0..MaxUpsets
      /\ NotCleared => marker' \in BOOLEAN /\ upsets' \in 0..MaxUpsets
  BY <1>1 DEF Cleared, NotCleared
<1>3. CASE StartProcess
  BY <1>2, <1>3 DEF StartProcess, poolState
<1>4. CASE BeginPass
  BY <1>1, <1>4 DEF BeginPass, poolState
<1>5. CASE MountOne
  BY <1>1, <1>2, <1>5 DEF MountOne, PassAfter
<1>6. CASE Publish
  BY <1>1, <1>6 DEF Publish, poolState
<1>7. CASE Recover
  BY <1>2, <1>7 DEF Recover, poolState
<1>8. CASE Supervise
  BY <1>2, <1>8 DEF Supervise, poolState
<1>9. CASE EndThread
  BY <1>1, <1>9 DEF EndThread, poolState
<1>10. CASE ExitProcess
  BY <1>1, <1>10 DEF ExitProcess, poolState
<1>11. CASE Disturb
  BY <1>1, <1>11 DEF Disturb, passState
<1>12. CASE UNCHANGED readyVars
  BY <1>12 DEF readyVars, poolState, passState
<1> QED
  BY <1>3, <1>4, <1>5, <1>6, <1>7, <1>8, <1>9, <1>10, <1>11, <1>12 DEF ReadyNext, ReadyStep

(***************************************************************************)
(* Every variable of both services keeps its type, and a call that builds  *)
(* or purges has the lifecycle lock of its pool.                           *)
(***************************************************************************)
THEOREM TypeCorrect ==
    ASSUME BlindLooks = FALSE  PROVE Spec => []TypeOK
<1> DEFINE Both == service \in Services /\ ReadyTypeOK
<1>1. Init => Both
  <2> SUFFICES ASSUME Init PROVE Both
    OBVIOUS
  <2>1. service \in Services /\ ReadyInit
    BY DEF Init
  <2>2. /\ required \subseteq Shared /\ serving \subseteq Shared /\ mounted \subseteq Shared
        /\ thread = "exited" /\ todo = {} /\ upsets \in 0..MaxUpsets
    BY <2>1, ReadyAssumption DEF ReadyInit
  <2>3. marker \in BOOLEAN /\ allMounted \in BOOLEAN
    BY <2>1 DEF ReadyInit
  <2>4. ReadyTypeOK
    BY <2>2, <2>3 DEF ReadyTypeOK
  <2> QED
    BY <2>1, <2>4
<1>2. Both /\ [Next]_vars => Both'
  <2> SUFFICES ASSUME Both, [Next]_vars PROVE Both'
    OBVIOUS
  <2>1. service' \in Services
    BY DEF Next, vars
  <2>2. ReadyNext \/ UNCHANGED readyVars
    BY DEF Next, vars
  <2> QED  BY <2>1, <2>2, ReadyTyped
<1>3. IInv => SelectTypeOK
  BY DEF IInv, Typed, CallTypes, CallOK, Placed, SelectTypeOK
<1>4. IInv /\ Both => TypeOK
  BY <1>3 DEF TypeOK
<1> QED  BY <1>1, <1>2, <1>4, IInvHolds, PTL DEF Spec
====
