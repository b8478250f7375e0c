------------------------ MODULE BlockingActorProofs ------------------------
(* The safety of BlockingActor for any number of callers, calls and         *)
(* periods.  None of its invariants is inductive alone: each needs to know  *)
(* who is inside the lock (MutexOwner), and the destructor that it is the   *)
(* only caller left (DyingAlone).                                           *)
EXTENDS BlockingActor, TLAPS

\* The callers inside the lock are the holder of the mutex, and nobody else.
MutexOwner == \A c \in Callers : pc[c] \in Locking <=> mutex = c

\* What the holder knows of the flags while it is in OnActivate().
ActivatingFlags ==
  \A c \in Callers : pc[c] = "onActivate" =>
    flagActive /\ (thread # "none" => ~flagStop /\ thread # "done")

\* The loop ends on request only.
DoneIsStopped == thread = "done" => flagStop

\* A call that restarts the loop is on its way to do so.
RestartPending ==
  \A c \in restart : pc[c] \notin {"idle", "isActive"}

\* Once the destructor has begun it is the only call in progress.
DyingAlone ==
  object # "alive" =>
    /\ restart = {}
    /\ \A c \in Callers : pc[c] \in {"idle", "deactivate", "joining", "onDeactivate"}
    /\ \A c, d \in Callers : pc[c] # "idle" /\ pc[d] # "idle" => c = d
    /\ object = "freed" => \A c \in Callers : pc[c] = "idle"

-----------------------------------------------------------------------------
(* Type correctness *)

\* Every state of the actor is well typed.
THEOREM TypeCorrect == Spec => []TypeOK
<1>1. ASSUME Init PROVE TypeOK
  <2>1. flagActive \in BOOLEAN /\ unapplied \in BOOLEAN
    BY <1>1, Zenon DEF Init
  <2> QED BY <1>1, <2>1, BoundAssumption DEF Init, TypeOK
<1>2. TypeOK /\ [Next]_vars => TypeOK'
  <2> SUFFICES ASSUME TypeOK, [Next]_vars PROVE TypeOK'
    OBVIOUS
  <2> USE BoundAssumption DEF TypeOK, Goto, Begin, flagVars, loopVars, callVars
  <2>1. CASE Loop
    BY <2>1 DEF Loop, LoopStart, LoopTest, LoopProcessed
  <2>2. ASSUME NEW c \in Callers, Call(c) PROVE TypeOK'
    <3>1. CASE CallActivate(c) \/ CallDeactivate(c) \/ Destroy(c)
      BY <3>1 DEF CallActivate, CallDeactivate, Destroy
    <3>2. ASSUME NEW p \in Periods, SetProperties(c, p) PROVE TypeOK'
      <4>1. unapplied' \in BOOLEAN
        BY <3>2, Zenon DEF SetProperties
      <4> QED BY <3>2, <4>1 DEF SetProperties
    <3>3. ASSUME NEW name \in PropNames, NEW p \in Periods, SetProperty(c, name, p)
          PROVE  TypeOK'
      <4>1. unapplied' \in BOOLEAN
        BY <3>3, Zenon DEF SetProperty
      <4> QED BY <3>3, <4>1 DEF SetProperty
    <3> QED BY <2>2, <3>1, <3>2, <3>3 DEF Call
  <2>3. ASSUME NEW c \in Callers, Step(c) PROVE TypeOK'
    <3>1. CASE ActivateLock(c) \/ ActivateStart(c)
      BY <3>1 DEF ActivateLock, ActivateStart
    <3>2. CASE DeactivateLock(c) \/ DeactivateJoin(c) \/ DeactivateUnlock(c)
      BY <3>2 DEF DeactivateLock, DeactivateJoin, DeactivateUnlock
    <3>3. CASE SetPropertiesIsActive(c)
      BY <3>3 DEF SetPropertiesIsActive
    <3> QED BY <2>3, <3>1, <3>2, <3>3 DEF Step
  <2>4. CASE UNCHANGED vars
    BY <2>4 DEF vars
  <2> QED BY <2>1, <2>2, <2>3, <2>4 DEF Next
<1> QED BY <1>1, <1>2, PTL DEF Spec
-----------------------------------------------------------------------------
(* The lock and the flags *)

\* The invariants about the lock, the flags and the loop, which are inductive
\* together.
LockInv ==
  /\ MutexOwner /\ ActivatingFlags /\ DoneIsStopped
  /\ InactiveHasNoLoop /\ JoinKeepsStop /\ LoopIsWanted

\* The lock, the flags and the loop agree after every step.
LEMMA LockInvStep == TypeOK /\ LockInv /\ [Next]_vars => LockInv'
<1> SUFFICES ASSUME TypeOK, LockInv, [Next]_vars PROVE LockInv'
  OBVIOUS
<1> USE CallersAssumption
    DEF TypeOK, LockInv, MutexOwner, Locking, ActivatingFlags, DoneIsStopped,
        InactiveHasNoLoop, JoinKeepsStop, LoopIsWanted,
        Goto, Begin, flagVars, loopVars, callVars
<1>1. CASE LoopStart
  BY <1>1 DEF LoopStart
<1>2. CASE LoopTest
  BY <1>2 DEF LoopTest
<1>3. CASE LoopProcessed
  BY <1>3 DEF LoopProcessed
<1>4. ASSUME NEW c \in Callers, Call(c) PROVE LockInv'
  <2>1. CASE CallActivate(c)
    BY <2>1 DEF CallActivate
  <2>2. CASE CallDeactivate(c)
    BY <2>2 DEF CallDeactivate
  <2>3. CASE Destroy(c)
    BY <2>3 DEF Destroy
  <2>4. ASSUME NEW p \in Periods, SetProperties(c, p) PROVE LockInv'
    BY <2>4 DEF SetProperties
  <2>5. ASSUME NEW name \in PropNames, NEW p \in Periods, SetProperty(c, name, p)
        PROVE  LockInv'
    BY <2>5 DEF SetProperty
  <2> QED BY <1>4, <2>1, <2>2, <2>3, <2>4, <2>5 DEF Call
<1>5. ASSUME NEW c \in Callers, Step(c) PROVE LockInv'
  <2>1. CASE ActivateLock(c)
    BY <2>1 DEF ActivateLock
  <2>2. CASE ActivateStart(c)
    BY <2>2 DEF ActivateStart
  <2>3. CASE DeactivateLock(c)
    BY <2>3 DEF DeactivateLock
  <2>4. CASE DeactivateJoin(c)
    BY <2>4 DEF DeactivateJoin
  <2>5. CASE DeactivateUnlock(c)
    BY <2>5 DEF DeactivateUnlock
  <2>6. CASE SetPropertiesIsActive(c)
    BY <2>6 DEF SetPropertiesIsActive
  <2> QED BY <1>5, <2>1, <2>2, <2>3, <2>4, <2>5, <2>6 DEF Step
<1>6. CASE UNCHANGED vars
  BY <1>6 DEF vars
<1> QED BY <1>1, <1>2, <1>3, <1>4, <1>5, <1>6 DEF Next, Loop

\* The actor starts with the lock free and without a loop.
LEMMA LockInvInit == Init => LockInv
BY CallersAssumption
   DEF Init, LockInv, MutexOwner, Locking, ActivatingFlags, DoneIsStopped,
       InactiveHasNoLoop, JoinKeepsStop, LoopIsWanted

\* A stop request that a join waits for is never undone, for any number of
\* concurrent Activate(), Deactivate() and SetProperties().
THEOREM StopIsKept == Spec => []JoinKeepsStop
<1>1. LockInv => JoinKeepsStop
  BY DEF LockInv
<1> QED BY <1>1, TypeCorrect, LockInvInit, LockInvStep, PTL DEF Spec

\* While nobody holds the lock a loop thread runs for an active actor, has not
\* ended and is not asked to.
THEOREM LoopWhenActive == Spec => []LoopIsWanted
<1>1. LockInv => LoopIsWanted
  BY DEF LockInv
<1> QED BY <1>1, TypeCorrect, LockInvInit, LockInvStep, PTL DEF Spec
-----------------------------------------------------------------------------
(* The period *)

\* A loop with an old period will be joined by a call that is on its way.
StaleIsPending ==
  thread \notin {"none", "created"} /\ ~unapplied /\ period # minLoopTime =>
    \E c \in Callers : pc[c] \in {"isActive", "deactivate", "joining"}

\* A period gets old in a SetProperties() only, which goes on to look for a loop.
LEMMA StaleStep ==
  TypeOK /\ LockInv /\ StaleIsPending /\ [Next]_vars => StaleIsPending'
<1> SUFFICES ASSUME TypeOK, LockInv, StaleIsPending, [Next]_vars
             PROVE  StaleIsPending'
  OBVIOUS
<1>1. /\ InactiveHasNoLoop
      /\ pc \in [Callers -> {"idle", "activate", "onActivate", "deactivate",
                             "joining", "onDeactivate", "isActive"}]
  BY DEF LockInv, TypeOK
<1> USE <1>1
    DEF StaleIsPending, InactiveHasNoLoop, Goto, Begin, flagVars, loopVars, callVars
<1>2. CASE Loop
  BY <1>2 DEF Loop, LoopStart, LoopTest, LoopProcessed
<1>3. ASSUME NEW c \in Callers, Call(c) PROVE StaleIsPending'
  <2>1. CASE CallActivate(c) \/ CallDeactivate(c) \/ Destroy(c)
    BY <2>1 DEF CallActivate, CallDeactivate, Destroy
  <2>2. ASSUME NEW p \in Periods, SetProperties(c, p) PROVE StaleIsPending'
    BY <2>2 DEF SetProperties
  <2>3. ASSUME NEW name \in PropNames, NEW p \in Periods, SetProperty(c, name, p)
        PROVE  StaleIsPending'
    BY <2>3 DEF SetProperty
  <2> QED BY <1>3, <2>1, <2>2, <2>3 DEF Call
<1>4. ASSUME NEW c \in Callers, Step(c) PROVE StaleIsPending'
  <2>1. CASE ActivateLock(c)
    BY <2>1 DEF ActivateLock
  <2>2. CASE ActivateStart(c)
    BY <2>2 DEF ActivateStart
  <2>3. CASE DeactivateLock(c) \/ DeactivateJoin(c)
    BY <2>3 DEF DeactivateLock, DeactivateJoin
  <2>4. CASE DeactivateUnlock(c)
    BY <2>4 DEF DeactivateUnlock
  <2>5. CASE SetPropertiesIsActive(c)
    BY <2>5 DEF SetPropertiesIsActive
  <2> QED BY <1>4, <2>1, <2>2, <2>3, <2>4, <2>5 DEF Step
<1>5. CASE UNCHANGED vars
  BY <1>5 DEF vars
<1> QED BY <1>2, <1>3, <1>4, <1>5 DEF Next

\* Once every call has returned, a running loop has the period SetProperties()
\* stored last, for any number of callers that store and restart beside each
\* other.
THEOREM PeriodIsLatest == Spec => []LoopUsesLatestPeriod
<1>1. Init => StaleIsPending
  BY DEF Init, StaleIsPending
<1>2. StaleIsPending => LoopUsesLatestPeriod
  BY DEF StaleIsPending, LoopUsesLatestPeriod
<1> QED
  BY <1>1, <1>2, TypeCorrect, LockInvInit, LockInvStep, StaleStep, PTL DEF Spec
-----------------------------------------------------------------------------
(* The destructor *)

DyingInv == RestartPending /\ DyingAlone /\ (object = "freed" => thread = "none")

\* The destructor stays alone and leaves no loop behind.
LEMMA DyingInvStep ==
  TypeOK /\ LockInv /\ DyingInv /\ [Next]_vars => DyingInv'
<1> SUFFICES ASSUME TypeOK, LockInv, DyingInv, [Next]_vars PROVE DyingInv'
  OBVIOUS
<1>1. /\ InactiveHasNoLoop
      /\ restart \subseteq Callers
      /\ pc \in [Callers -> {"idle", "activate", "onActivate", "deactivate",
                             "joining", "onDeactivate", "isActive"}]
      /\ object \in {"alive", "dying", "freed"}
  BY DEF LockInv, TypeOK
<1> USE <1>1
    DEF DyingInv, RestartPending, DyingAlone, InactiveHasNoLoop,
        Goto, Begin, flagVars, loopVars, callVars
<1>2. CASE Loop
  BY <1>2 DEF Loop, LoopStart, LoopTest, LoopProcessed
<1>3. ASSUME NEW c \in Callers, Call(c) PROVE DyingInv'
  <2>1. CASE CallActivate(c) \/ CallDeactivate(c)
    BY <2>1 DEF CallActivate, CallDeactivate
  <2>2. CASE Destroy(c)
    BY <2>2 DEF Destroy
  <2>3. ASSUME NEW p \in Periods, SetProperties(c, p) PROVE DyingInv'
    BY <2>3 DEF SetProperties
  <2>4. ASSUME NEW name \in PropNames, NEW p \in Periods, SetProperty(c, name, p)
        PROVE  DyingInv'
    BY <2>4 DEF SetProperty
  <2> QED BY <1>3, <2>1, <2>2, <2>3, <2>4 DEF Call
<1>4. ASSUME NEW c \in Callers, Step(c) PROVE DyingInv'
  <2>1. CASE ActivateLock(c)
    BY <2>1 DEF ActivateLock
  <2>2. CASE ActivateStart(c)
    BY <2>2 DEF ActivateStart
  <2>3. CASE DeactivateLock(c)
    BY <2>3 DEF DeactivateLock
  <2>4. CASE DeactivateJoin(c)
    BY <2>4 DEF DeactivateJoin
  <2>5. CASE DeactivateUnlock(c)
    BY <2>5 DEF DeactivateUnlock
  <2>6. CASE SetPropertiesIsActive(c)
    BY <2>6 DEF SetPropertiesIsActive
  <2> QED BY <1>4, <2>1, <2>2, <2>3, <2>4, <2>5, <2>6 DEF Step
<1>5. CASE UNCHANGED vars
  BY <1>5 DEF vars
<1> QED BY <1>2, <1>3, <1>4, <1>5 DEF Next

\* An actor that says it is inactive has no loop, there is none while
\* OnDeactivate() runs, and none that could use the destroyed actor is left
\* when the destructor has returned.
THEOREM DestructorStopsLoop == Spec => []NoLoopLeft
<1>1. Init => DyingInv
  BY DEF Init, DyingInv, RestartPending, DyingAlone
<1>2. LockInv /\ DyingInv => NoLoopLeft
  BY DEF LockInv, DyingInv, NoLoopLeft
<1> QED
  BY <1>1, <1>2, TypeCorrect, LockInvInit, LockInvStep, DyingInvStep, PTL DEF Spec
=============================================================================
