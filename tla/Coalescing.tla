------------------------------ MODULE Coalescing ------------------------------
(***************************************************************************)
(* CoalescingService: concurrent calls of execute for one key share one    *)
(* run of the operation.  Two tokio mutexes guard a map from keys to       *)
(* shared futures and the statistics.                                      *)
(*                                                                         *)
(* An operation is named after the call that initiated it.  Its worker is  *)
(* not spawned: it is a Shared future, so it takes a step only while some  *)
(* call that awaits it is polled, and whoever drops a call in the middle   *)
(* of execute may leave it where it is.  A mutex is handed to a queued     *)
(* waiter when it is released, before the waiter is polled; which of the   *)
(* waiters is left open.                                                   *)
(***************************************************************************)
EXTENDS Naturals, FiniteSets

CONSTANTS
  Caller,       \* the calls of execute
  Key,          \* the keys
  KeyOf,        \* KeyOf[c]: the key argument of call c
  None,         \* no operation
  HasTimeout,   \* whether the service was made by with_timeout
  Outcomes,     \* what the application's operations may end with
  Cancellable,  \* the calls whose future may be dropped at an await
  MaxResets     \* bound: calls of reset_stats in one behaviour

(* "ok", an error, an error whose text starts like the service's own       *)
(* timeout error, or a panic.                                              *)
ASSUME CoalescingAssumption ==
  /\ KeyOf \in [Caller -> Key]
  /\ None \notin Caller
  /\ HasTimeout \in BOOLEAN
  /\ Outcomes \subseteq {"ok", "err", "timeoutLookalike", "panic"}
  /\ Cancellable \subseteq Caller
  /\ MaxResets \in Nat

VARIABLES
  pc,       \* pc[c]: where call c is in execute
  joined,   \* joined[c]: the operation whose shared future c awaits
  stage,    \* stage[o]: where the worker of operation o is
  grip,     \* grip[o]: how far it got with the lock it needs there
  outcome,  \* outcome[o]: its op_result
  inner,    \* inner[k]: the operation the map has for key k
  stats,    \* the statistics
  resets    \* calls of reset_stats so far (bounded by MaxResets)

callVars == <<pc, joined>>
workerVars == <<stage, grip, outcome>>
vars == <<callVars, workerVars, inner, stats, resets>>

(* wantMap waits for the map lock and hasMap was given it; join and        *)
(* initiate hold it and wait for the stats lock; joining and initiating    *)
(* hold both; awaiting holds none.                                         *)
CallState ==
  {"idle", "wantMap", "hasMap", "join", "joining", "initiate", "initiating",
   "awaiting", "returned", "cancelled", "panicked"}

(* A worker needs the stats lock in timedOut and failing, and the map lock *)
(* in cleanup.  It has asked for it (queued) once it found it taken, and   *)
(* then is given it (has), perhaps without knowing yet.                    *)
WorkerState ==
  {"none", "running", "timedOut", "cleanup", "failing", "done", "poisoned", "dropped"}

Grip == {"no", "queued", "has"}

Outcome == {"none", "ok", "err", "timeoutLookalike", "timeout"}

NoStats == [initiated |-> 0, coalesced |-> 0, failed |-> 0, timed_out |-> 0]

Init ==
  /\ pc = [c \in Caller |-> "idle"]
  /\ joined = [c \in Caller |-> None]
  /\ stage = [o \in Caller |-> "none"]
  /\ grip = [o \in Caller |-> "no"]
  /\ outcome = [o \in Caller |-> "none"]
  /\ inner = [k \in Key |-> None]
  /\ stats = NoStats
  /\ resets = 0

-----------------------------------------------------------------------------
(* The two locks and the statistics.                                       *)

(* Bug: the map lock is let go of between the lookup and the insertion.    *)
CallHoldsMapForLookup == {"hasMap"}

CallHoldsMap == {"hasMap", "join", "joining", "initiate", "initiating"}

MapFree ==
  \A a \in Caller :
    pc[a] \notin CallHoldsMap /\ ~(stage[a] = "cleanup" /\ grip[a] = "has")

(* Bug: the worker keeps the stats lock it took for a timeout until it has *)
(* cleaned up.                                                             *)
KeepsStatsInCleanup(o) ==
  \/ stage[o] \in {"timedOut", "failing"} /\ grip[o] = "has"
  \/ stage[o] = "cleanup" /\ outcome[o] = "timeout"

KeepsStats(o) == stage[o] \in {"timedOut", "failing"} /\ grip[o] = "has"

StatsFree == \A a \in Caller : pc[a] \notin {"joining", "initiating"} /\ ~KeepsStats(a)

(* Bug: the cleanup does not wait for the map lock.                        *)
LockFreeForCleanup(o) == stage[o] = "cleanup" \/ StatsFree

(* The lock that the worker of o needs is free.                            *)
LockFree(o) == IF stage[o] = "cleanup" THEN MapFree ELSE StatsFree

(* Bugs: joining is not counted; a timeout takes back a failure.           *)
CountedUnlessCoalesced(f) ==
  IF f = "coalesced" THEN stats ELSE [stats EXCEPT ![f] = @ + 1]
CountedTakingBack(f) ==
  IF f = "timed_out" THEN [stats EXCEPT ![f] = @ + 1, !.failed = @ - 1]
  ELSE [stats EXCEPT ![f] = @ + 1]

Counted(f) == [stats EXCEPT ![f] = @ + 1]

-----------------------------------------------------------------------------
(* A call.                                                                 *)

Goto(c, from, to) ==
  /\ pc[c] = from
  /\ pc' = [pc EXCEPT ![c] = to]
  /\ UNCHANGED <<grip, outcome, resets>>

(* The steps that only go on.                                              *)
Advance(c, from, to) == Goto(c, from, to) /\ UNCHANGED <<joined, stage, inner, stats>>

(* The call asks for the map lock, and is given it.                        *)
Call(c) == Advance(c, "idle", "wantMap")

GiveMapToCall(c) == MapFree /\ Advance(c, "wantMap", "hasMap")

Lookup(c) ==
  Advance(c, "hasMap", IF inner[KeyOf[c]] = None THEN "initiate" ELSE "join")

GiveStatsToCall(c) ==
  StatsFree /\ (Advance(c, "join", "joining") \/ Advance(c, "initiate", "initiating"))

Join(c) ==
  /\ Goto(c, "joining", "awaiting")
  /\ joined' = [joined EXCEPT ![c] = inner[KeyOf[c]]]
  /\ stats' = Counted("coalesced")
  /\ UNCHANGED <<stage, inner>>

(* The new future enters the map under the lock, and is polled at once.    *)
Initiate(c) ==
  /\ Goto(c, "initiating", "awaiting")
  /\ joined' = [joined EXCEPT ![c] = c]
  /\ stage' = [stage EXCEPT ![c] = "running"]
  /\ inner' = [inner EXCEPT ![KeyOf[c]] = c]
  /\ stats' = Counted("initiated")

Awaits(c, o) == pc[c] = "awaiting" /\ joined[c] = o

Return(c) ==
  /\ \E o \in Caller : Awaits(c, o) /\ stage[o] = "done"
  /\ Advance(c, "awaiting", "returned")

(* A shared future whose worker panicked makes whoever polls it panic.     *)
(* The panic wakes nobody: a call that polled while another one's poll was *)
(* about to panic has nothing left that would have it polled again.        *)
PollPoisoned(c) ==
  /\ \E o \in Caller : Awaits(c, o) /\ stage[o] = "poisoned"
  /\ Advance(c, "awaiting", "panicked")

(* Bug: an operation goes with the call that initiated it.                 *)
LastOwnerInitiator(c, o) == Awaits(c, o) /\ o = c /\ stage[o] = "failing"

(* Dropping the future of a call lets go of its locks and of the shared    *)
(* future: the last owner of a worker that is out of the map drops it too. *)
LastOwner(c, o) ==
  /\ Awaits(c, o)
  /\ stage[o] = "failing"
  /\ \A d \in Caller \ {c} : ~Awaits(d, o)

(* A call may be dropped at any of its awaits.                             *)
Cancel(c) ==
  /\ c \in Cancellable
  /\ \E at \in CallHoldsMap \cup {"wantMap", "awaiting"} : Goto(c, at, "cancelled")
  /\ stage' = [o \in Caller |-> IF LastOwner(c, o) THEN "dropped" ELSE stage[o]]
  /\ UNCHANGED <<joined, inner, stats>>

-----------------------------------------------------------------------------
(* The worker of an operation.                                             *)

(* Some call is awaiting o, so its worker is polled.                       *)
Driven(o) == \E c \in Caller : Awaits(c, o)

Work(o, from, to) ==
  /\ stage[o] = from
  /\ stage' = [stage EXCEPT ![o] = to]
  /\ grip' = [grip EXCEPT ![o] = "no"]
  /\ UNCHANGED <<joined, resets>>

End(o, result, to) ==
  /\ Driven(o)
  /\ Work(o, "running", to)
  /\ outcome' = [outcome EXCEPT ![o] = result]
  /\ UNCHANGED <<pc, inner, stats>>

Finish(o) == \E result \in Outcomes \ {"panic"} : End(o, result, "cleanup")

TimeOut(o) == HasTimeout /\ End(o, "timeout", "timedOut")

Panic(c, o) ==
  /\ Awaits(c, o)
  /\ "panic" \in Outcomes
  /\ Work(o, "running", "poisoned")
  /\ pc' = [pc EXCEPT ![c] = "panicked"]
  /\ UNCHANGED <<outcome, inner, stats>>

(* Polled while the lock it needs is taken, the worker queues for it.  A   *)
(* lock that is let go of goes to a queued worker, driven or not.          *)
WaitForLock(o) ==
  /\ stage[o] \in {"timedOut", "cleanup", "failing"}
  /\ \/ Driven(o) /\ ~LockFree(o) /\ grip[o] = "no" /\ grip' = [grip EXCEPT ![o] = "queued"]
     \/ LockFree(o) /\ grip[o] = "queued" /\ grip' = [grip EXCEPT ![o] = "has"]
  /\ UNCHANGED <<callVars, stage, outcome, inner, stats, resets>>

(* The step the worker takes with the lock of that stage.                  *)
WorkLocked(o, from, to) ==
  /\ Driven(o)
  /\ grip[o] = "has" \/ (grip[o] = "no" /\ LockFree(o))
  /\ Work(o, from, to)
  /\ UNCHANGED <<pc, outcome>>

(* Bug: the timeout error is returned at once, without the cleanup (which  *)
(* the code once did, as a comment in test_timeout recalls).               *)
AfterTimeoutDone == "done"

AfterTimeout == "cleanup"

CountTimeout(o) ==
  /\ WorkLocked(o, "timedOut", AfterTimeout)
  /\ stats' = Counted("timed_out")
  /\ UNCHANGED inner

(* Bug: timeouts are counted as failures too.                              *)
AfterCleanupTimeouts(o) == IF outcome[o] = "ok" THEN "done" ELSE "failing"

(* What looks like the service's timeout error is not counted again.       *)
AfterCleanup(o) == IF outcome[o] = "err" THEN "failing" ELSE "done"

(* Remove whatever the map has for the key.                                *)
Cleanup(o) ==
  /\ WorkLocked(o, "cleanup", AfterCleanup(o))
  /\ inner' = [inner EXCEPT ![KeyOf[o]] = None]
  /\ UNCHANGED stats

CountFailure(o) ==
  /\ WorkLocked(o, "failing", "done")
  /\ stats' = Counted("failed")
  /\ UNCHANGED inner

-----------------------------------------------------------------------------
ResetStats ==
  /\ StatsFree
  /\ resets < MaxResets
  /\ stats' = NoStats
  /\ resets' = resets + 1
  /\ UNCHANGED <<callVars, workerVars, inner>>

CallStep(c) ==
  \/ GiveMapToCall(c) \/ Lookup(c) \/ GiveStatsToCall(c)
  \/ Join(c) \/ Initiate(c) \/ Return(c)

WorkerStep(o) ==
  \/ Finish(o) \/ TimeOut(o) \/ WaitForLock(o)
  \/ CountTimeout(o) \/ Cleanup(o) \/ CountFailure(o)

Next ==
  \/ \E c \in Caller : Call(c) \/ CallStep(c) \/ PollPoisoned(c) \/ Cancel(c)
  \/ \E o \in Caller : WorkerStep(o)
  \/ \E c, o \in Caller : Panic(c, o)
  \/ ResetStats

Spec == Init /\ [][Next]_vars

(* Tasks are polled when they are woken, the mutexes are fair, and an      *)
(* operation ends: by itself, or by the timer when there is one.           *)
Fairness == \A a \in Caller : WF_vars(CallStep(a)) /\ WF_vars(WorkerStep(a))

FairSpec == Spec /\ Fairness

-----------------------------------------------------------------------------
(* Properties.                                                             *)

TypeOK ==
  /\ pc \in [Caller -> CallState]
  /\ joined \in [Caller -> Caller \cup {None}]
  /\ stage \in [Caller -> WorkerState]
  /\ grip \in [Caller -> Grip]
  /\ outcome \in [Caller -> Outcome]
  /\ inner \in [Key -> Caller \cup {None}]
  /\ stats \in [{"initiated", "coalesced", "failed", "timed_out"} -> Nat]
  /\ resets \in 0 .. MaxResets

InMap == {"running", "timedOut", "cleanup", "poisoned"}

(* At most one operation runs for a key at any time, also when calls are   *)
(* dropped or operations time out or panic while others are joining.       *)
SingleFlight ==
  \A o, p \in Caller :
    KeyOf[o] = KeyOf[p] /\ stage[o] = "running" /\ stage[p] = "running" => o = p

(* The map has exactly the operations that are not finished: a worker's    *)
(* cleanup removes its own entry and never that of a later operation, and  *)
(* nobody can join one whose result was already handed out.                *)
EntriesAreLive ==
  /\ \A o \in Caller : stage[o] \in InMap => inner[KeyOf[o]] = o
  /\ \A k \in Key : inner[k] # None => KeyOf[inner[k]] = k /\ stage[inner[k]] \in InMap

(* A call only ever awaits, or was answered by, an operation on its key,   *)
(* and no worker is dropped under a call that awaits it, nor after it has  *)
(* answered one.                                                           *)
AnswersAreForTheKey ==
  \A c \in Caller : pc[c] \in {"awaiting", "returned"} =>
    /\ joined[c] # None
    /\ KeyOf[joined[c]] = KeyOf[c]
    /\ stage[joined[c]] \notin {"none", "dropped"}
    /\ pc[c] = "returned" => stage[joined[c]] = "done"

(* The calls that got an operation, the operations that timed out, those   *)
(* that failed by themselves, and those of the latter whose error does not *)
(* look like the service's own.                                            *)
Served == {c \in Caller : joined[c] # None}
TimedOut == {o \in Caller : outcome[o] = "timeout"}
Failed == {o \in Caller : outcome[o] \in {"err", "timeoutLookalike"}}
PlainlyFailed == {o \in Caller : outcome[o] = "err"}

AllDone == \A o \in Caller : stage[o] \in {"none", "done"}

(* The statistics add up: between two steps under the stats lock, every    *)
(* call that got an operation was counted once.  A reset, at whatever      *)
(* moment, can only make the counts smaller.                               *)
CallsAreCounted ==
  /\ stats.initiated + stats.coalesced <= Cardinality(Served)
  /\ resets = 0 => stats.initiated + stats.coalesced = Cardinality(Served)

(* Each kind of error is counted under its own name and never twice: a     *)
(* timeout is not also taken for a failure, although its error passes      *)
(* through the same cleanup later.  Unless there was a reset, no timeout   *)
(* is left out in the end, and no failure whose error is not mistaken for  *)
(* a timeout (FailuresAreCounted is about those).                          *)
ErrorsAreCountedOnce ==
  /\ stats.timed_out <= Cardinality(TimedOut)
  /\ stats.failed <= Cardinality(Failed)
  /\ resets = 0 /\ AllDone =>
       /\ stats.timed_out = Cardinality(TimedOut)
       /\ stats.failed >= Cardinality(PlainlyFailed)

(* Once an operation has left the map its result is final and nobody gets  *)
(* it any more but those who are on it already: not even a call that was   *)
(* waiting for the map lock all the time.                                  *)
Landed(o) == stage[o] \in {"failing", "done", "dropped"}

AnswersAreFresh ==
  [][\A o \in Caller : Landed(o) =>
       /\ Landed(o)' /\ outcome'[o] = outcome[o]
       /\ \A c \in Caller : joined'[c] = o => joined[c] = o]_vars

NeedsLock(o) == stage[o] \in {"timedOut", "cleanup", "failing"}

(* A worker can take a step, of its own or by being handed its lock.       *)
WorkerMayGoOn(o) ==
  \/ Driven(o) /\ stage[o] = "running"
  \/ Driven(o) /\ NeedsLock(o) /\ grip[o] \in {"no", "has"}
  \/ NeedsLock(o) /\ grip[o] = "queued" /\ LockFree(o)

(* A lock was handed to a worker that nobody polls any more, the call that *)
(* initiated it having been dropped.                                       *)
Abandoned(o) == NeedsLock(o) /\ grip[o] = "has" /\ ~Driven(o) /\ pc[o] = "cancelled"

(* A lock moves if it is free, or if who holds it can go on or has         *)
(* abandoned it.  A call that holds both locks waits for nothing; one that *)
(* holds the map lock may be waiting for the stats lock in turn.           *)
StatsLockMoves ==
  \/ StatsFree
  \/ \E c \in Caller : pc[c] \in {"joining", "initiating"}
  \/ \E o \in Caller : KeepsStats(o) /\ (WorkerMayGoOn(o) \/ Abandoned(o))

MapLockMoves ==
  \/ MapFree
  \/ \E c \in Caller : pc[c] \in {"hasMap", "joining", "initiating"}
  \/ StatsLockMoves /\ \E c \in Caller : pc[c] \in {"join", "initiate"}
  \/ \E o \in Caller :
       stage[o] = "cleanup" /\ grip[o] = "has" /\ (WorkerMayGoOn(o) \/ Abandoned(o))

LockMoves(o) == IF stage[o] = "cleanup" THEN MapLockMoves ELSE StatsLockMoves

(* No wait is circular.  Follow from any call what it waits for, the map   *)
(* lock, the stats lock or the worker of its operation and the lock that   *)
(* one needs: the chain ends at a step that can be taken.  There are two   *)
(* other ends, both the code's: a lock that an abandoned worker keeps, and *)
(* an operation that panicked.  A call that awaits the latter may wait for *)
(* ever, with no call dropped, since the panic wakes nobody; that is its   *)
(* own excuse and no other call's.                                         *)
NoCircularWait ==
  \A c \in Caller :
    /\ pc[c] = "wantMap" => MapLockMoves
    /\ pc[c] \in {"join", "initiate"} => StatsLockMoves
    /\ \A o \in Caller : Awaits(c, o) =>
         \/ stage[o] \in {"running", "done", "poisoned"}
         \/ NeedsLock(o) /\ (grip[o] = "has" \/ LockMoves(o))

(* As long as no call is dropped and no operation panics, calls are        *)
(* waiting no more and the map is empty in the end.                        *)
Disturbed == \E c \in Caller : pc[c] \in {"cancelled", "panicked"}

UndisturbedCallsReturn ==
  <>[](Disturbed \/ \A c \in Caller : pc[c] \in {"idle", "returned"})

UndisturbedCleanupRuns == <>[](Disturbed \/ \A k \in Key : inner[k] = None)

-----------------------------------------------------------------------------
(* What the documentation says and the code does not keep.                 *)

(* src/coalescing.rs:80, of a request for a key in progress: "will wait    *)
(* for the result of that ongoing operation", and for nothing else.  So    *)
(* every call returns; the two locks keep none waiting for ever.           *)
CallsReturn ==
  \A c \in Caller : pc[c] = "wantMap" ~> pc[c] \in {"returned", "cancelled", "panicked"}

(* src/coalescing.rs:153, of removing the operation from the map: "Always  *)
(* runs".  So no operation stays in the map for ever.                      *)
CleanupAlwaysRuns ==
  \A o \in Caller : stage[o] = "running" ~> inner[KeyOf[o]] # o

(* src/coalescing.rs:29: failed_operations is the "Number of initiated     *)
(* operations that resulted in failure (excluding timeouts)."  The code    *)
(* tells timeouts by the text of the error.                                *)
FailuresAreCounted ==
  resets = 0 /\ AllDone => stats.failed = Cardinality(Failed)

-----------------------------------------------------------------------------
(* The inductive invariant behind SingleFlight and its neighbours.         *)

(* Whoever holds the map lock is alone with the map.                       *)
MapLockInv ==
  LET Cleans(o) == stage[o] = "cleanup" /\ grip[o] = "has" IN
  /\ \A a, b \in Caller : pc[a] \in CallHoldsMap /\ pc[b] \in CallHoldsMap => a = b
  /\ \A a, b \in Caller : Cleans(a) /\ Cleans(b) => a = b
  /\ \A a, b \in Caller : ~(pc[a] \in CallHoldsMap /\ Cleans(b))

(* What a call saw in the map is still true when it acts on it.            *)
LookupInv ==
  \A c \in Caller :
    /\ pc[c] \in {"initiate", "initiating"} => inner[KeyOf[c]] = None
    /\ pc[c] \in {"join", "joining"} => inner[KeyOf[c]] # None
    /\ pc[c] \in CallHoldsMap \cup {"idle", "wantMap"} =>
         joined[c] = None /\ stage[c] = "none"

(* An operation that is over has a result, which says what to count.       *)
OutcomeInv ==
  \A o \in Caller :
    /\ outcome[o] = "none" <=> stage[o] \in {"none", "running", "poisoned"}
    /\ stage[o] = "timedOut" => outcome[o] = "timeout"
    /\ stage[o] = "failing" => outcome[o] = "err"

(* An operation that is under way belongs to a call that initiated it, and *)
(* awaits it unless it was dropped.                                        *)
InitiatorInv ==
  \A o \in Caller : stage[o] = "running" \/ NeedsLock(o) =>
    joined[o] = o /\ pc[o] \in {"awaiting", "cancelled"}

CoalescingInv ==
  /\ TypeOK
  /\ OutcomeInv
  /\ MapLockInv
  /\ LookupInv
  /\ InitiatorInv
  /\ EntriesAreLive
  /\ AnswersAreForTheKey

(* What is counted by now: the operations that are past the step that does *)
(* it.                                                                     *)
CountedTimeouts == {o \in TimedOut : stage[o] # "timedOut"}
CountedFailures == {o \in PlainlyFailed : stage[o] = "done"}

(* The inductive invariant behind the two on the statistics.               *)
CountingInv ==
  /\ IsFiniteSet(Served) /\ IsFiniteSet(TimedOut) /\ IsFiniteSet(Failed)
  /\ CallsAreCounted
  /\ stats.timed_out <= Cardinality(CountedTimeouts)
  /\ stats.failed <= Cardinality(CountedFailures)
  /\ resets = 0 =>
       /\ stats.timed_out = Cardinality(CountedTimeouts)
       /\ stats.failed = Cardinality(CountedFailures)

-----------------------------------------------------------------------------
(* The service implements Flights: an operation lands when it leaves the   *)
(* map, and its result is out from then on.                                *)
F == INSTANCE Flights WITH
  flight <- inner,
  seat   <- joined,
  result <- [o \in Caller |->
               IF stage[o] \in {"failing", "done", "dropped"} THEN outcome[o] ELSE "none"],
  over   <- [c \in Caller |->
               CASE pc[c] = "returned" -> "answered"
                 [] pc[c] \in {"cancelled", "panicked"} -> "gone"
                 [] OTHER -> "no"],
  Result <- Outcome \ {"none"},
  Unknown <- "none"

FlightsSpec == F!Spec
=============================================================================
