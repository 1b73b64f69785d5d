--------------------------- MODULE CoalescingProofs ---------------------------
(***************************************************************************)
(* At most one operation runs for a key, for any number of calls, keys and *)
(* dropped calls, with and without timeouts and panics.  The argument is   *)
(* CoalescingInv: whoever holds the map lock is alone with the map, so     *)
(* what a call read there is still true when it inserts, and an entry is   *)
(* removed by no worker but the one it belongs to.                         *)
(***************************************************************************)
EXTENDS Coalescing, FiniteSetTheorems, TLAPS

LEMMA InitInv == Init => CoalescingInv
<1> SUFFICES ASSUME Init PROVE CoalescingInv
  OBVIOUS
<1>1. TypeOK
  BY CoalescingAssumption
  DEF CoalescingAssumption, Init, TypeOK, CallState, WorkerState, Grip, Outcome, NoStats
<1>2. MapLockInv /\ LookupInv
  BY CoalescingAssumption
  DEF CoalescingAssumption, Init, MapLockInv, LookupInv, CallHoldsMap
<1>3. EntriesAreLive /\ AnswersAreForTheKey /\ OutcomeInv /\ InitiatorInv
  BY DEF Init, EntriesAreLive, AnswersAreForTheKey, InMap, OutcomeInv, InitiatorInv,
         NeedsLock
<1>4. QED
  BY <1>1, <1>2, <1>3 DEF CoalescingInv

LEMMA NextTypeOK == TypeOK /\ [Next]_vars => TypeOK'
<1> SUFFICES ASSUME TypeOK, [Next]_vars PROVE TypeOK'
  OBVIOUS
<1> USE CoalescingAssumption DEF CoalescingAssumption, TypeOK
<1>1. \A f \in {"initiated", "coalesced", "failed", "timed_out"} :
        Counted(f) \in [{"initiated", "coalesced", "failed", "timed_out"} -> Nat]
  BY DEF Counted
<1>2. ASSUME NEW c \in Caller,
             \/ Call(c) \/ GiveMapToCall(c) \/ Lookup(c) \/ GiveStatsToCall(c)
             \/ Return(c) \/ PollPoisoned(c)
      PROVE  TypeOK'
  BY <1>2
  DEF Call, GiveMapToCall, Lookup, GiveStatsToCall, Return, PollPoisoned, Advance,
      Goto, CallState
<1>3. ASSUME NEW c \in Caller, Join(c) PROVE TypeOK'
  BY <1>1, <1>3 DEF Join, Goto, CallState
<1>4. ASSUME NEW c \in Caller, Initiate(c) PROVE TypeOK'
  BY <1>1, <1>4 DEF Initiate, Goto, CallState, WorkerState
<1>5. ASSUME NEW c \in Caller, Cancel(c) PROVE TypeOK'
  BY <1>5 DEF Cancel, Goto, CallState, WorkerState
<1>6. ASSUME NEW o \in Caller, Finish(o) \/ TimeOut(o) PROVE TypeOK'
  BY <1>6 DEF Finish, TimeOut, End, Work, WorkerState, Grip, Outcome
<1>7. ASSUME NEW o \in Caller, WaitForLock(o) PROVE TypeOK'
  BY <1>7 DEF WaitForLock, callVars, Grip
<1>8. ASSUME NEW o \in Caller, CountTimeout(o) \/ CountFailure(o) PROVE TypeOK'
  BY <1>1, <1>8
  DEF CountTimeout, CountFailure, WorkLocked, Work, AfterTimeout, WorkerState, Grip
<1>9. ASSUME NEW o \in Caller, Cleanup(o) PROVE TypeOK'
  BY <1>9 DEF Cleanup, WorkLocked, Work, AfterCleanup, WorkerState, Grip
<1>10. ASSUME NEW c \in Caller, NEW o \in Caller, Panic(c, o) PROVE TypeOK'
  BY <1>10 DEF Panic, Work, WorkerState, Grip, CallState
<1>11. CASE ResetStats
  BY <1>11 DEF ResetStats, NoStats, callVars, workerVars
<1>12. CASE UNCHANGED vars
  BY <1>12 DEF vars, callVars, workerVars
<1>13. QED
  BY <1>2, <1>3, <1>4, <1>5, <1>6, <1>7, <1>8, <1>9, <1>10, <1>11, <1>12
  DEF Next, CallStep, WorkerStep

LEMMA NextInv == CoalescingInv /\ [Next]_vars => CoalescingInv'
<1> SUFFICES ASSUME CoalescingInv, [Next]_vars PROVE CoalescingInv'
  OBVIOUS
<1>1. TypeOK'
  BY NextTypeOK DEF CoalescingInv
<1> DEFINE Rest == /\ MapLockInv /\ LookupInv /\ OutcomeInv /\ InitiatorInv
                   /\ EntriesAreLive /\ AnswersAreForTheKey
<1> SUFFICES Rest'
  BY <1>1 DEF CoalescingInv
<1> USE CoalescingAssumption
    DEF CoalescingAssumption, CoalescingInv, TypeOK, MapLockInv, LookupInv, OutcomeInv,
        InitiatorInv, NeedsLock, EntriesAreLive, AnswersAreForTheKey, CallHoldsMap, InMap
<1>2. ASSUME NEW c \in Caller, Call(c) \/ Lookup(c) \/ GiveStatsToCall(c) PROVE Rest'
  BY <1>2 DEF Call, Lookup, GiveStatsToCall, Advance, Goto
<1>3. ASSUME NEW c \in Caller, GiveMapToCall(c) PROVE Rest'
  BY <1>3 DEF GiveMapToCall, MapFree, Advance, Goto
<1>4. ASSUME NEW c \in Caller, Return(c) \/ PollPoisoned(c) PROVE Rest'
  BY <1>4 DEF Return, PollPoisoned, Awaits, Advance, Goto
<1>5. ASSUME NEW c \in Caller, Join(c) PROVE Rest'
  BY <1>5 DEF Join, Goto
<1>6. ASSUME NEW c \in Caller, Initiate(c) PROVE Rest'
  BY <1>6 DEF Initiate, Goto
<1>7. ASSUME NEW c \in Caller, Cancel(c) PROVE Rest'
  <2>1. \A o \in Caller : stage'[o] # stage[o] =>
          /\ stage'[o] = "dropped" /\ stage[o] = "failing"
          /\ \A d \in Caller : pc[d] = "awaiting" /\ joined[d] = o => d = c
    BY <1>7 DEF Cancel, LastOwner, Awaits
  <2>2. /\ UNCHANGED <<joined, inner, grip, outcome>>
        /\ \A d \in Caller : pc'[d] = IF d = c THEN "cancelled" ELSE pc[d]
    BY <1>7 DEF Cancel, Goto
  <2>3. MapLockInv' /\ LookupInv' /\ OutcomeInv' /\ InitiatorInv'
    <3>1. MapLockInv'
      <4>1. /\ \A a \in Caller : pc'[a] \in CallHoldsMap => pc[a] \in CallHoldsMap
            /\ \A a \in Caller : stage'[a] = "cleanup" => stage[a] = "cleanup"
        BY <2>1, <2>2
      <4>2. QED
        BY <2>2, <4>1 DEF CallHoldsMap, MapLockInv
    <3>2. LookupInv'
      BY <2>1, <2>2
    <3>3. OutcomeInv'
      BY <2>1, <2>2
    <3>4. InitiatorInv'
      BY <1>7, <2>1, <2>2 DEF Cancel
    <3>5. QED
      BY <3>1, <3>2, <3>3, <3>4
  <2>4. EntriesAreLive'
    BY <2>1, <2>2
  <2>5. AnswersAreForTheKey'
    BY <2>1, <2>2
  <2>6. QED
    BY <2>3, <2>4, <2>5
<1>8. ASSUME NEW o \in Caller, Finish(o) \/ TimeOut(o) PROVE Rest'
  BY <1>8 DEF Finish, TimeOut, End, Work
<1>9. ASSUME NEW o \in Caller, WaitForLock(o) PROVE Rest'
  <2>1. UNCHANGED <<pc, joined, stage, outcome, inner>>
    BY <1>9 DEF WaitForLock, callVars
  <2>2. ASSUME NEW a \in Caller, stage[a] = "cleanup", grip'[a] = "has"
        PROVE  \/ grip[a] = "has"
               \/ a = o /\ MapFree
    BY <1>9, <2>2 DEF WaitForLock, LockFree
  <2>3. MapLockInv'
    BY <2>1, <2>2 DEF MapFree
  <2>4. QED
    BY <2>1, <2>3
<1>10. ASSUME NEW o \in Caller, CountTimeout(o) \/ CountFailure(o) PROVE Rest'
  BY <1>10 DEF CountTimeout, CountFailure, WorkLocked, Work, AfterTimeout
<1>11. ASSUME NEW o \in Caller, Cleanup(o) PROVE Rest'
  BY <1>11 DEF Cleanup, WorkLocked, AfterCleanup, LockFree, MapFree, Work
<1>12. ASSUME NEW c \in Caller, NEW o \in Caller, Panic(c, o) PROVE Rest'
  BY <1>12 DEF Panic, Awaits, Work
<1>13. CASE ResetStats \/ UNCHANGED vars
  BY <1>13 DEF ResetStats, vars, callVars, workerVars
<1>14. QED
  BY <1>2, <1>3, <1>4, <1>5, <1>6, <1>7, <1>8, <1>9, <1>10, <1>11, <1>12, <1>13
  DEF Next, CallStep, WorkerStep

-----------------------------------------------------------------------------
(* The invariant from which the others follow.                             *)
THEOREM CoalescingInductive == Spec => []CoalescingInv
BY InitInv, NextInv, PTL DEF Spec

(* At any time at most one operation runs for a key: what execute promises *)
(* with "only called if no operation for key is currently in progress".    *)
THEOREM OneOperationPerKey == Spec => []SingleFlight
<1>1. CoalescingInv => SingleFlight
  BY DEF CoalescingInv, EntriesAreLive, InMap, SingleFlight
<1>2. QED
  BY <1>1, CoalescingInductive, PTL

(* A worker's cleanup only ever removes its own entry, and no call joins   *)
(* an operation that has already answered.                                 *)
THEOREM EntriesStayLive == Spec => []EntriesAreLive
<1>1. CoalescingInv => EntriesAreLive
  BY DEF CoalescingInv
<1>2. QED
  BY <1>1, CoalescingInductive, PTL

(* Calls await, and are answered by, operations on their own key, which    *)
(* are not dropped under them.                                             *)
THEOREM AnswersStayForTheKey == Spec => []AnswersAreForTheKey
<1>1. CoalescingInv => AnswersAreForTheKey
  BY DEF CoalescingInv
<1>2. QED
  BY <1>1, CoalescingInductive, PTL

(* The variables keep their types; in particular no count gets negative.   *)
THEOREM CoalescingTypeCorrect == Spec => []TypeOK
<1>1. CoalescingInv => TypeOK
  BY DEF CoalescingInv
<1>2. QED
  BY <1>1, CoalescingInductive, PTL

-----------------------------------------------------------------------------
(* The statistics.                                                         *)

LEMMA InitCounting == Init => CountingInv
<1> SUFFICES ASSUME Init PROVE CountingInv
  OBVIOUS
<1>1. /\ Served = {} /\ TimedOut = {} /\ Failed = {}
      /\ CountedTimeouts = {} /\ CountedFailures = {}
  BY DEF Init, Served, TimedOut, Failed, PlainlyFailed, CountedTimeouts, CountedFailures
<1>2. stats.initiated + stats.coalesced = 0 /\ stats.failed = 0 /\ stats.timed_out = 0
  BY DEF Init, NoStats
<1>3. QED
  BY <1>1, <1>2, FS_EmptySet DEF CountingInv, CallsAreCounted

LEMMA CountedSums ==
  ASSUME TypeOK
  PROVE  /\ \A f \in {"initiated", "coalesced"} :
              /\ Counted(f).initiated + Counted(f).coalesced =
                   stats.initiated + stats.coalesced + 1
              /\ Counted(f).failed = stats.failed /\ Counted(f).timed_out = stats.timed_out
         /\ \A f \in {"failed", "timed_out"} :
              /\ Counted(f).failed = stats.failed + (IF f = "failed" THEN 1 ELSE 0)
              /\ Counted(f).timed_out = stats.timed_out + (IF f = "timed_out" THEN 1 ELSE 0)
              /\ Counted(f).initiated = stats.initiated
              /\ Counted(f).coalesced = stats.coalesced
BY DEF TypeOK, Counted

LEMMA NextCounting ==
  CoalescingInv /\ CountingInv /\ [Next]_vars => CountingInv'
<1> SUFFICES ASSUME CoalescingInv, CountingInv, [Next]_vars PROVE CountingInv'
  OBVIOUS
<1> USE CoalescingAssumption
    DEF CoalescingAssumption, CoalescingInv, TypeOK, CountingInv, CallsAreCounted
<1> DEFINE Kinds == <<TimedOut, Failed, CountedTimeouts, CountedFailures>>
<1>0. /\ IsFiniteSet(Served) /\ Cardinality(Served) \in Nat
      /\ IsFiniteSet(CountedTimeouts) /\ Cardinality(CountedTimeouts) \in Nat
      /\ IsFiniteSet(CountedFailures) /\ Cardinality(CountedFailures) \in Nat
  <2>1. CountedTimeouts \subseteq TimedOut /\ CountedFailures \subseteq Failed
    BY DEF CountedTimeouts, CountedFailures, PlainlyFailed, Failed
  <2>2. QED
    BY <2>1, FS_Subset, FS_CardinalityType
<1>1. ASSUME UNCHANGED <<joined, stats, resets>>, UNCHANGED Kinds PROVE CountingInv'
  BY <1>1 DEF Served
<1>2. ASSUME UNCHANGED <<stage, outcome>> PROVE UNCHANGED Kinds
  BY <1>2 DEF TimedOut, Failed, PlainlyFailed, CountedTimeouts, CountedFailures
<1>3. ASSUME NEW c \in Caller,
             \/ Call(c) \/ GiveMapToCall(c) \/ Lookup(c) \/ GiveStatsToCall(c)
             \/ Return(c) \/ PollPoisoned(c)
      PROVE  CountingInv'
  BY <1>1, <1>2, <1>3
  DEF Call, GiveMapToCall, Lookup, GiveStatsToCall, Return, PollPoisoned, Advance, Goto
<1>4. ASSUME NEW c \in Caller, Join(c) \/ Initiate(c) PROVE CountingInv'
  <2>1. /\ joined[c] = None /\ stage[c] = "none"
        /\ \E o \in Caller : joined' = [joined EXCEPT ![c] = o]
        /\ \E f \in {"initiated", "coalesced"} : stats' = Counted(f)
        /\ UNCHANGED <<outcome, resets>>
        /\ stage' = stage \/ stage' = [stage EXCEPT ![c] = "running"]
    BY <1>4 DEF Join, Initiate, Goto, LookupInv, CallHoldsMap
  <2>2. Served' = Served \cup {c} /\ c \notin Served
    BY <2>1 DEF Served
  <2>3. UNCHANGED Kinds
    <3>1. outcome[c] = "none"
      BY <2>1 DEF OutcomeInv
    <3>2. QED
      BY <2>1, <3>1 DEF TimedOut, Failed, PlainlyFailed, CountedTimeouts, CountedFailures
  <2>4. IsFiniteSet(Served') /\ Cardinality(Served') = Cardinality(Served) + 1
    BY <1>0, <2>2, FS_AddElement
  <2>5. /\ stats'.initiated + stats'.coalesced = stats.initiated + stats.coalesced + 1
        /\ UNCHANGED <<stats.failed, stats.timed_out>>
    BY <2>1, CountedSums
  <2>6. QED
    BY <1>0, <2>1, <2>3, <2>4, <2>5
<1>5. ASSUME NEW c \in Caller, Cancel(c) PROVE CountingInv'
  <2>1. UNCHANGED <<joined, outcome, stats, resets>>
    BY <1>5 DEF Cancel, Goto
  <2>2. \A o \in Caller :
          \/ stage'[o] = stage[o]
          \/ stage[o] = "failing" /\ stage'[o] = "dropped"
    BY <1>5 DEF Cancel, LastOwner
  <2>3. UNCHANGED Kinds
    BY <2>1, <2>2 DEF TimedOut, Failed, PlainlyFailed, CountedTimeouts, CountedFailures
  <2>4. QED
    BY <1>1, <2>1, <2>3
<1>6. ASSUME NEW o \in Caller, Finish(o) \/ TimeOut(o) PROVE CountingInv'
  <2>1. PICK result \in Outcome :
          /\ outcome' = [outcome EXCEPT ![o] = result]
          /\ stage[o] = "running"
          /\ result = "timeout" => stage' = [stage EXCEPT ![o] = "timedOut"]
          /\ result # "timeout" => stage' = [stage EXCEPT ![o] = "cleanup"]
          /\ UNCHANGED <<joined, stats, resets>>
    BY <1>6 DEF Finish, TimeOut, End, Work, Outcome
  <2>2. outcome[o] = "none"
    BY <2>1 DEF OutcomeInv
  <2>3. UNCHANGED <<CountedTimeouts, CountedFailures>>
    BY <2>1, <2>2 DEF TimedOut, PlainlyFailed, CountedTimeouts, CountedFailures
  <2>4. TimedOut' \in {TimedOut, TimedOut \cup {o}} /\ Failed' \in {Failed, Failed \cup {o}}
    BY <2>1, <2>2 DEF TimedOut, Failed
  <2>5. IsFiniteSet(TimedOut') /\ IsFiniteSet(Failed')
    BY <2>4, FS_AddElement
  <2>6. UNCHANGED Served
    BY <2>1 DEF Served
  <2>7. QED
    BY <2>1, <2>3, <2>5, <2>6
<1>7. ASSUME NEW o \in Caller, WaitForLock(o) PROVE CountingInv'
  BY <1>1, <1>2, <1>7 DEF WaitForLock, callVars
<1>8. ASSUME NEW o \in Caller, CountTimeout(o) PROVE CountingInv'
  <2>1. /\ stats' = Counted("timed_out")
        /\ stage[o] = "timedOut" /\ stage' = [stage EXCEPT ![o] = "cleanup"]
        /\ UNCHANGED <<joined, outcome, resets>>
    BY <1>8 DEF CountTimeout, WorkLocked, Work, AfterTimeout
  <2>2. outcome[o] = "timeout"
    BY <2>1 DEF OutcomeInv
  <2>3. CountedTimeouts' = CountedTimeouts \cup {o} /\ o \notin CountedTimeouts
    BY <2>1, <2>2 DEF TimedOut, CountedTimeouts
  <2>4. UNCHANGED <<Served, TimedOut, Failed, CountedFailures>>
    BY <2>1, <2>2 DEF Served, TimedOut, Failed, PlainlyFailed, CountedFailures
  <2>5. Cardinality(CountedTimeouts') = Cardinality(CountedTimeouts) + 1
    BY <1>0, <2>3, FS_AddElement
  <2>6. /\ stats'.timed_out = stats.timed_out + 1
        /\ UNCHANGED <<stats.failed, stats.initiated, stats.coalesced>>
    BY <2>1, CountedSums
  <2>7. QED
    BY <1>0, <2>1, <2>4, <2>5, <2>6
<1>9. ASSUME NEW o \in Caller, CountFailure(o) PROVE CountingInv'
  <2>1. /\ stats' = Counted("failed")
        /\ stage[o] = "failing" /\ stage' = [stage EXCEPT ![o] = "done"]
        /\ UNCHANGED <<joined, outcome, resets>>
    BY <1>9 DEF CountFailure, WorkLocked, Work
  <2>2. outcome[o] = "err"
    BY <2>1 DEF OutcomeInv
  <2>3. CountedFailures' = CountedFailures \cup {o} /\ o \notin CountedFailures
    BY <2>1, <2>2 DEF PlainlyFailed, CountedFailures
  <2>4. UNCHANGED <<Served, TimedOut, Failed, CountedTimeouts>>
    BY <2>1, <2>2 DEF Served, TimedOut, Failed, CountedTimeouts
  <2>5. Cardinality(CountedFailures') = Cardinality(CountedFailures) + 1
    BY <1>0, <2>3, FS_AddElement
  <2>6. /\ stats'.failed = stats.failed + 1
        /\ UNCHANGED <<stats.timed_out, stats.initiated, stats.coalesced>>
    BY <2>1, CountedSums
  <2>7. QED
    BY <1>0, <2>1, <2>4, <2>5, <2>6
<1>10. ASSUME NEW o \in Caller, Cleanup(o) PROVE CountingInv'
  <2>1. /\ UNCHANGED <<joined, outcome, stats, resets>>
        /\ stage[o] = "cleanup" /\ stage' = [stage EXCEPT ![o] = AfterCleanup(o)]
    BY <1>10 DEF Cleanup, WorkLocked, Work
  <2>2. UNCHANGED Kinds
    BY <2>1
    DEF AfterCleanup, TimedOut, Failed, PlainlyFailed, CountedTimeouts, CountedFailures
  <2>3. QED
    BY <1>1, <2>1, <2>2
<1>11. ASSUME NEW c \in Caller, NEW o \in Caller, Panic(c, o) PROVE CountingInv'
  <2>1. /\ UNCHANGED <<joined, outcome, stats, resets>>
        /\ stage[o] = "running" /\ stage' = [stage EXCEPT ![o] = "poisoned"]
    BY <1>11 DEF Panic, Work
  <2>2. outcome[o] = "none"
    BY <2>1 DEF OutcomeInv
  <2>3. UNCHANGED Kinds
    BY <2>1, <2>2 DEF TimedOut, Failed, PlainlyFailed, CountedTimeouts, CountedFailures
  <2>4. QED
    BY <1>1, <2>1, <2>3
<1>12. CASE ResetStats
  <2>1. /\ UNCHANGED <<joined, stage, outcome>> /\ resets' # 0
        /\ stats'.initiated + stats'.coalesced = 0
        /\ stats'.failed = 0 /\ stats'.timed_out = 0
    BY <1>12 DEF ResetStats, NoStats, callVars, workerVars
  <2>2. UNCHANGED Served /\ UNCHANGED Kinds
    BY <1>2, <2>1 DEF Served
  <2>3. QED
    BY <1>0, <2>1, <2>2
<1>13. CASE UNCHANGED vars
  BY <1>1, <1>2, <1>13 DEF vars, callVars, workerVars
<1>14. QED
  BY <1>3, <1>4, <1>5, <1>6, <1>7, <1>8, <1>9, <1>10, <1>11, <1>12, <1>13
  DEF Next, CallStep, WorkerStep

(* Every call that got an operation is counted once, unless a reset forgot *)
(* it; the counts never exceed what happened.                              *)
THEOREM CallsAreAlwaysCounted == Spec => []CallsAreCounted
<1>1. CountingInv => CallsAreCounted
  BY DEF CountingInv
<1>2. QED
  BY <1>1, InitCounting, NextCounting, CoalescingInductive, PTL DEF Spec

(* Timeouts and failures are each counted under their own name, never      *)
(* twice and never one for the other; no timeout is left out in the end,   *)
(* nor any failure whose error is not mistaken for a timeout, unless a     *)
(* reset forgot it.                                                        *)
THEOREM ErrorsAreAlwaysCountedOnce == Spec => []ErrorsAreCountedOnce
<1>1. CoalescingInv /\ CountingInv => ErrorsAreCountedOnce
  <2> SUFFICES ASSUME CoalescingInv, CountingInv PROVE ErrorsAreCountedOnce
    OBVIOUS
  <2>1. /\ CountedTimeouts \subseteq TimedOut /\ CountedFailures \subseteq Failed
        /\ AllDone => CountedTimeouts = TimedOut /\ CountedFailures = PlainlyFailed
    BY DEF AllDone, CountedTimeouts, CountedFailures, TimedOut, Failed, PlainlyFailed,
           CoalescingInv, OutcomeInv
  <2>2. /\ Cardinality(CountedTimeouts) <= Cardinality(TimedOut)
        /\ Cardinality(CountedFailures) <= Cardinality(Failed)
        /\ Cardinality(CountedTimeouts) \in Nat /\ Cardinality(TimedOut) \in Nat
        /\ Cardinality(CountedFailures) \in Nat /\ Cardinality(Failed) \in Nat
    BY <2>1, FS_Subset, FS_CardinalityType DEF CountingInv
  <2>3. stats.timed_out \in Nat /\ stats.failed \in Nat
    BY DEF CoalescingInv, TypeOK
  <2>4. QED
    BY <2>1, <2>2, <2>3 DEF CountingInv, ErrorsAreCountedOnce
<1>2. QED
  BY <1>1, InitCounting, NextCounting, CoalescingInductive, PTL DEF Spec

-----------------------------------------------------------------------------
(* Results are final, and nobody waits for a lock for nothing.             *)

LEMMA LandedStays == CoalescingInv /\ [Next]_vars =>
  \A o \in Caller : Landed(o) =>
    /\ Landed(o)' /\ outcome'[o] = outcome[o]
    /\ \A c \in Caller : joined'[c] = o => joined[c] = o
<1> SUFFICES ASSUME CoalescingInv, [Next]_vars, NEW o \in Caller, Landed(o)
             PROVE  /\ Landed(o)' /\ outcome'[o] = outcome[o]
                    /\ \A c \in Caller : joined'[c] = o => joined[c] = o
  OBVIOUS
<1> USE CoalescingAssumption DEF CoalescingAssumption, CoalescingInv, TypeOK, Landed
<1>1. CASE UNCHANGED <<joined, stage, outcome>>
  BY <1>1
<1>2. ASSUME NEW c \in Caller,
             \/ Call(c) \/ GiveMapToCall(c) \/ Lookup(c) \/ GiveStatsToCall(c)
             \/ Return(c) \/ PollPoisoned(c)
      PROVE  UNCHANGED <<joined, stage, outcome>>
  BY <1>2
  DEF Call, GiveMapToCall, Lookup, GiveStatsToCall, Return, PollPoisoned, Advance, Goto
(* What a call finds in the map has not landed.                            *)
<1>3. ASSUME NEW c \in Caller, Join(c)
      PROVE  /\ UNCHANGED <<stage, outcome>> /\ inner[KeyOf[c]] # o
             /\ joined' = [joined EXCEPT ![c] = inner[KeyOf[c]]]
  BY <1>3 DEF Join, Goto, LookupInv, EntriesAreLive, InMap
<1>4. ASSUME NEW c \in Caller, Initiate(c)
      PROVE  /\ c # o /\ UNCHANGED outcome
             /\ stage' = [stage EXCEPT ![c] = "running"]
             /\ joined' = [joined EXCEPT ![c] = c]
  BY <1>4 DEF Initiate, Goto, LookupInv, CallHoldsMap
<1>5. ASSUME NEW c \in Caller, Cancel(c)
      PROVE  UNCHANGED <<joined, outcome>> /\ stage'[o] \in {stage[o], "dropped"}
  BY <1>5 DEF Cancel, Goto
<1>6. ASSUME NEW p \in Caller, WorkerStep(p)
      PROVE  /\ UNCHANGED joined
             /\ outcome'[o] = outcome[o]
             /\ stage'[o] \in {stage[o], "done"}
  <2>1. CASE Finish(p) \/ TimeOut(p)
    BY <2>1 DEF Finish, TimeOut, End, Work
  <2>2. CASE WaitForLock(p)
    BY <2>2 DEF WaitForLock, callVars
  <2>3. CASE CountTimeout(p) \/ Cleanup(p) \/ CountFailure(p)
    BY <2>3 DEF CountTimeout, Cleanup, CountFailure, WorkLocked, Work
  <2>4. QED
    BY <1>6, <2>1, <2>2, <2>3 DEF WorkerStep
<1>7. ASSUME NEW c \in Caller, NEW p \in Caller, Panic(c, p)
      PROVE  UNCHANGED <<joined, outcome>> /\ stage'[o] = stage[o]
  BY <1>7 DEF Panic, Work
<1>8. CASE ResetStats \/ UNCHANGED vars
  BY <1>1, <1>8 DEF ResetStats, vars, callVars, workerVars
<1>9. QED
  BY <1>1, <1>2, <1>3, <1>4, <1>5, <1>6, <1>7, <1>8 DEF Next, CallStep

(* From the moment its entry is removed, an operation's result is final    *)
(* and no call joins it: execute hands out nothing that was finished when  *)
(* the call looked into the map.                                           *)
THEOREM AnswersStayFresh == Spec => AnswersAreFresh
BY LandedStays, CoalescingInductive, PTL DEF Spec, AnswersAreFresh

(* A worker that was handed its lock can go on, unless it was abandoned.   *)
LEMMA HoldersGoOn ==
  ASSUME CoalescingInv, NEW o \in Caller, NeedsLock(o), grip[o] = "has"
  PROVE  WorkerMayGoOn(o) \/ Abandoned(o)
<1>1. joined[o] = o /\ pc[o] \in {"awaiting", "cancelled"}
  BY DEF CoalescingInv, InitiatorInv
<1>2. QED
  BY <1>1 DEF WorkerMayGoOn, Abandoned, Driven, Awaits

(* Whoever holds the stats lock waits for no other lock, and whoever holds *)
(* the map lock waits at most for the stats lock.                          *)
LEMMA LocksMove == CoalescingInv => StatsLockMoves /\ MapLockMoves
<1> SUFFICES ASSUME CoalescingInv PROVE StatsLockMoves /\ MapLockMoves
  OBVIOUS
<1>1. StatsLockMoves
  <2>1. ASSUME NEW o \in Caller, KeepsStats(o) PROVE StatsLockMoves
    BY <2>1, HoldersGoOn DEF KeepsStats, NeedsLock, StatsLockMoves
  <2>2. QED
    BY <2>1 DEF StatsFree, StatsLockMoves
<1>2. MapLockMoves
  <2>1. ASSUME NEW o \in Caller, stage[o] = "cleanup", grip[o] = "has"
        PROVE  MapLockMoves
    BY <2>1, HoldersGoOn DEF NeedsLock, MapLockMoves
  <2>2. ASSUME NEW c \in Caller, pc[c] \in CallHoldsMap PROVE MapLockMoves
    BY <1>1, <2>2 DEF CallHoldsMap, MapLockMoves
  <2>3. QED
    BY <2>1, <2>2 DEF MapFree, MapLockMoves
<1>3. QED
  BY <1>1, <1>2

(* Whatever a call of execute waits for, the chain of waits ends at a step *)
(* that can be taken, at a lock that an abandoned worker keeps, or, for    *)
(* the calls that await it, at an operation that panicked: the two locks   *)
(* themselves admit no deadlock, for any number of calls.                  *)
THEOREM WaitsAreNeverCircular == Spec => []NoCircularWait
<1>1. CoalescingInv => NoCircularWait
  <2> SUFFICES ASSUME CoalescingInv, NEW c \in Caller, NEW o \in Caller, Awaits(c, o)
               PROVE  \/ stage[o] \in {"running", "done", "poisoned"}
                      \/ NeedsLock(o) /\ (grip[o] = "has" \/ LockMoves(o))
    BY LocksMove DEF NoCircularWait
  <2>1. stage[o] \in WorkerState \ {"none", "dropped"}
    BY DEF CoalescingInv, TypeOK, AnswersAreForTheKey, Awaits
  <2>2. NeedsLock(o) \/ stage[o] \in {"running", "done", "poisoned"}
    BY <2>1 DEF NeedsLock, WorkerState
  <2>3. QED
    BY <2>2, LocksMove DEF LockMoves
<1>2. QED
  BY <1>1, CoalescingInductive, PTL

-----------------------------------------------------------------------------
(* The refinement.                                                         *)

LEMMA InitImplementsFlights == Init => F!Init
BY DEF Init, F!Init

LEMMA NextImplementsFlights == CoalescingInv /\ [Next]_vars => [F!Next]_(F!fvars)
<1> SUFFICES ASSUME CoalescingInv, [Next]_vars PROVE [F!Next]_(F!fvars)
  OBVIOUS
<1> DEFINE result == [o \in Caller |->
                       IF stage[o] \in {"failing", "done", "dropped"}
                       THEN outcome[o] ELSE "none"]
           over == [c \in Caller |->
                     CASE pc[c] = "returned" -> "answered"
                       [] pc[c] \in {"cancelled", "panicked"} -> "gone"
                       [] OTHER -> "no"]
<1> USE CoalescingAssumption
    DEF CoalescingAssumption, CoalescingInv, TypeOK
<1>1. ASSUME NEW c \in Caller, NEW to \in CallState,
             to \notin {"returned", "cancelled", "panicked"},
             pc[c] \notin {"returned", "cancelled", "panicked"},
             pc' = [pc EXCEPT ![c] = to]
      PROVE  UNCHANGED over /\ over[c] = "no"
  BY <1>1
<1>2. ASSUME UNCHANGED <<stage, outcome>> PROVE UNCHANGED result
  BY <1>2
<1>3. ASSUME NEW c \in Caller, Call(c) \/ GiveMapToCall(c) \/ Lookup(c) \/ GiveStatsToCall(c)
      PROVE  UNCHANGED F!fvars
  <2>1. \E to \in CallState :
          /\ pc' = [pc EXCEPT ![c] = to]
          /\ to \notin {"returned", "cancelled", "panicked"}
          /\ pc[c] \notin {"returned", "cancelled", "panicked"}
    BY <1>3 DEF Call, GiveMapToCall, Lookup, GiveStatsToCall, Advance, Goto, CallState
  <2>2. UNCHANGED <<joined, stage, outcome, inner>>
    BY <1>3 DEF Call, GiveMapToCall, Lookup, GiveStatsToCall, Advance, Goto
  <2>3. QED
    BY <1>1, <1>2, <2>1, <2>2 DEF F!fvars
<1>4. ASSUME NEW c \in Caller, Join(c) PROVE F!Join(c)
  <2>1. UNCHANGED over /\ over[c] = "no"
    BY <1>1, <1>4 DEF Join, Goto, CallState
  <2>2. UNCHANGED result
    BY <1>2, <1>4 DEF Join, Goto
  <2>3. inner[KeyOf[c]] # None /\ joined[c] = None
    BY <1>4 DEF Join, Goto, LookupInv, CallHoldsMap
  <2>4. QED
    BY <1>4, <2>1, <2>2, <2>3 DEF Join, F!Join, F!Board
<1>5. ASSUME NEW c \in Caller, Initiate(c) PROVE F!Start(c)
  <2>1. UNCHANGED over /\ over[c] = "no"
    BY <1>1, <1>5 DEF Initiate, Goto, CallState
  <2>2. inner[KeyOf[c]] = None /\ joined[c] = None /\ stage[c] = "none"
    BY <1>5 DEF Initiate, Goto, LookupInv, CallHoldsMap
  <2>3. UNCHANGED result
    BY <1>5, <2>2 DEF Initiate, Goto
  <2>4. QED
    BY <1>5, <2>1, <2>2, <2>3 DEF Initiate, F!Start, F!Board
<1>6. ASSUME NEW c \in Caller, Return(c) PROVE F!Answer(c)
  <2>1. /\ pc[c] = "awaiting" /\ pc' = [pc EXCEPT ![c] = "returned"]
        /\ joined[c] \in Caller /\ stage[joined[c]] = "done"
        /\ UNCHANGED <<joined, stage, outcome, inner>>
    BY <1>6 DEF Return, Awaits, Advance, Goto
  <2>2. over[c] = "no" /\ over' = [over EXCEPT ![c] = "answered"]
    BY <2>1
  <2>3. result[joined[c]] # "none" /\ joined[c] # None
    BY <2>1 DEF OutcomeInv
  <2>4. QED
    BY <1>2, <2>1, <2>2, <2>3 DEF F!Answer
<1>7. ASSUME NEW c \in Caller, pc[c] \notin {"returned", "cancelled", "panicked"},
             NEW to \in {"cancelled", "panicked"}, pc' = [pc EXCEPT ![c] = to],
             UNCHANGED <<joined, inner>>, UNCHANGED result
      PROVE  F!GiveUp(c)
  <2>1. over[c] = "no" /\ over' = [over EXCEPT ![c] = "gone"]
    BY <1>7
  <2>2. QED
    BY <1>7, <2>1 DEF F!GiveUp
<1>8. ASSUME NEW c \in Caller, PollPoisoned(c) PROVE F!GiveUp(c)
  BY <1>2, <1>7, <1>8 DEF PollPoisoned, Advance, Goto
<1>9. ASSUME NEW c \in Caller, Cancel(c) PROVE F!GiveUp(c)
  <2>1. /\ pc[c] \notin {"returned", "cancelled", "panicked"}
        /\ pc' = [pc EXCEPT ![c] = "cancelled"]
        /\ UNCHANGED <<joined, inner, outcome>>
    BY <1>9 DEF Cancel, Goto, CallHoldsMap
  <2>2. UNCHANGED result
    BY <1>9, <2>1 DEF Cancel, LastOwner
  <2>3. QED
    BY <1>7, <2>1, <2>2
<1>10. ASSUME NEW c \in Caller, NEW o \in Caller, Panic(c, o) PROVE F!GiveUp(c)
  <2>1. /\ pc[c] = "awaiting" /\ pc' = [pc EXCEPT ![c] = "panicked"]
        /\ UNCHANGED <<joined, inner, outcome>>
        /\ stage[o] = "running" /\ stage' = [stage EXCEPT ![o] = "poisoned"]
    BY <1>10 DEF Panic, Awaits, Work
  <2>2. UNCHANGED result
    BY <2>1
  <2>3. QED
    BY <1>7, <2>1, <2>2
(* The steps of a worker that do not make its result known.                *)
<1>11. ASSUME NEW o \in Caller,
              \/ Finish(o) \/ TimeOut(o) \/ WaitForLock(o)
              \/ CountTimeout(o) \/ CountFailure(o)
       PROVE  UNCHANGED F!fvars
  <2>1. UNCHANGED <<pc, joined, inner>>
    BY <1>11
    DEF Finish, TimeOut, End, WaitForLock, CountTimeout, CountFailure, WorkLocked,
        Work, callVars
  <2>2. UNCHANGED result
    <3>1. CASE Finish(o) \/ TimeOut(o)
      BY <3>1 DEF Finish, TimeOut, End, Work
    <3>2. CASE WaitForLock(o)
      BY <1>2, <3>2 DEF WaitForLock
    <3>3. CASE CountTimeout(o) \/ CountFailure(o)
      BY <3>3 DEF CountTimeout, CountFailure, WorkLocked, Work, AfterTimeout
    <3>4. QED
      BY <1>11, <3>1, <3>2, <3>3
  <2>3. QED
    BY <2>1, <2>2 DEF F!fvars
<1>12. ASSUME NEW o \in Caller, Cleanup(o) PROVE F!Land(KeyOf[o])
  <2>1. /\ stage[o] = "cleanup" /\ stage' = [stage EXCEPT ![o] = AfterCleanup(o)]
        /\ inner' = [inner EXCEPT ![KeyOf[o]] = None]
        /\ UNCHANGED <<pc, joined, outcome>>
    BY <1>12 DEF Cleanup, WorkLocked, Work
  <2>2. inner[KeyOf[o]] = o /\ o # None
    BY <2>1 DEF EntriesAreLive, InMap
  <2>3. outcome[o] \in Outcome \ {"none"}
    BY <2>1 DEF OutcomeInv
  <2>4. result' = [result EXCEPT ![o] = outcome[o]]
    BY <2>1 DEF AfterCleanup
  <2>5. QED
    BY <2>1, <2>2, <2>3, <2>4 DEF F!Land
<1>13. ASSUME NEW o \in Caller, Cleanup(o) PROVE F!Next
  <2>1. KeyOf[o] \in Key
    OBVIOUS
  <2>2. QED
    BY <1>12, <1>13, <2>1 DEF F!Next
<1>14. CASE ResetStats \/ UNCHANGED vars
  BY <1>2, <1>14 DEF ResetStats, vars, callVars, workerVars, F!fvars
<1>15. QED
  BY <1>3, <1>4, <1>5, <1>6, <1>8, <1>9, <1>10, <1>11, <1>13, <1>14
  DEF Next, CallStep, WorkerStep, F!Next

(* execute keeps what Flights promises its callers, whatever is dropped,   *)
(* times out or panics.                                                    *)
THEOREM CoalescingImplementsFlights == Spec => FlightsSpec
BY InitImplementsFlights, NextImplementsFlights, CoalescingInductive, PTL
DEF Spec, FlightsSpec, F!Spec
=============================================================================
