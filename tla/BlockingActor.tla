--------------------------- MODULE BlockingActor ---------------------------
(* rf::ActorBlocking (Actors/ActorBlocking.cpp): an actor whose Process()   *)
(* is called in a loop by a thread of the actor's own, from Activate() to   *)
(* Deactivate().  Both hold mutexActivateDeactivate; the loop and           *)
(* SetProperties read and write the flags without it.                       *)
EXTENDS Naturals

CONSTANTS
  Callers,    \* threads that call the actor's operations
  Free,       \* no thread
  Periods,    \* values of minLoopTimeMks
  PropNames,  \* names SetProperty is called with
  MaxCalls    \* bound: number of calls explored

LoopName == "minLoopTimeMks"

ASSUME CallersAssumption == Free \notin Callers
ASSUME BoundAssumption == MaxCalls \in Nat

VARIABLES
  flagActive,    \* ActorLocal::_flagActive
  flagStop,      \* _flagStop
  minLoopTime,   \* minLoopTimeMks
  thread,        \* _processingLoopThread: "none" when not joinable
  period,        \* processingLoop's copy of minLoopTimeMks
  mutex,         \* holder of mutexActivateDeactivate
  pc,            \* what each caller is doing
  restart,       \* the callers whose Deactivate is followed by an Activate
  unapplied,     \* ghost: was the period last set by SetProperty
  object,        \* "alive", "dying" (the derived part is destroyed), "freed"
  calls          \* calls made so far

vars == <<flagActive, flagStop, minLoopTime, thread, period, mutex, pc,
          restart, unapplied, object, calls>>

loopVars == <<thread, period>>
flagVars == <<flagActive, flagStop>>
callVars == <<restart, unapplied, object, calls>>

\* The constructors: the actor claims to be active before it has a thread, and
\* _flagStop is not initialised.
Init ==
  /\ flagActive = TRUE
  /\ flagStop \in BOOLEAN
  /\ minLoopTime \in Periods
  /\ thread = "none"
  /\ period = minLoopTime
  /\ mutex = Free
  /\ pc = [c \in Callers |-> "idle"]
  /\ restart = {}
  /\ unapplied = FALSE
  /\ object = "alive"
  /\ calls = 0

Goto(c, label) == pc' = [pc EXCEPT ![c] = label]

Begin(c) ==
  /\ pc[c] = "idle" /\ object = "alive" /\ calls < MaxCalls
  /\ calls' = calls + 1

-----------------------------------------------------------------------------
(* Activate and Deactivate *)

CallActivate(c) ==
  /\ Begin(c)
  /\ Goto(c, "activate")
  /\ UNCHANGED <<flagVars, minLoopTime, loopVars, mutex, restart, unapplied, object>>

\* Mutant: Activate() does not take the lock.
ActivateNoLock(c) ==
  /\ pc[c] = "activate"
  /\ flagActive' = TRUE
  /\ Goto(c, "onActivate")
  /\ UNCHANGED <<flagStop, minLoopTime, loopVars, mutex, callVars>>

\* The lock is taken, the flag is set and OnActivate() begins.
ActivateLock(c) ==
  /\ pc[c] = "activate" /\ mutex = Free
  /\ mutex' = c
  /\ flagActive' = TRUE
  /\ Goto(c, "onActivate")
  /\ UNCHANGED <<flagStop, minLoopTime, loopVars, callVars>>

\* Mutant: _flagStop is not reset.
ActivateStopped(c) ==
  /\ pc[c] = "onActivate"
  /\ thread' = IF thread = "none" THEN "created" ELSE thread
  /\ mutex' = Free
  /\ Goto(c, "idle")
  /\ restart' = restart \ {c}
  /\ UNCHANGED <<flagActive, flagStop, minLoopTime, period, unapplied, object, calls>>

\* OnActivate() has returned; a thread is started unless there is one.
ActivateStart(c) ==
  /\ pc[c] = "onActivate"
  /\ flagStop' = FALSE
  /\ thread' = IF thread = "none" THEN "created" ELSE thread
  /\ mutex' = Free
  /\ Goto(c, "idle")
  /\ restart' = restart \ {c}
  /\ UNCHANGED <<flagActive, minLoopTime, period, unapplied, object, calls>>

CallDeactivate(c) ==
  /\ Begin(c)
  /\ Goto(c, "deactivate")
  /\ UNCHANGED <<flagVars, minLoopTime, loopVars, mutex, restart, unapplied, object>>

DeactivateLock(c) ==
  /\ pc[c] = "deactivate" /\ mutex = Free
  /\ mutex' = c
  /\ flagStop' = TRUE
  /\ Goto(c, "joining")
  /\ UNCHANGED <<flagActive, minLoopTime, loopVars, callVars>>

\* Mutant: the actor is declared inactive without waiting for the loop.
DeactivateNoJoin(c) ==
  /\ pc[c] = "joining"
  /\ flagActive' = FALSE
  /\ Goto(c, "onDeactivate")
  /\ UNCHANGED <<flagStop, minLoopTime, loopVars, mutex, callVars>>

\* The thread, if any, was joined; the flag is cleared, OnDeactivate() begins.
DeactivateJoin(c) ==
  /\ pc[c] = "joining" /\ thread \in {"none", "done"}
  /\ thread' = "none"
  /\ flagActive' = FALSE
  /\ Goto(c, "onDeactivate")
  /\ UNCHANGED <<flagStop, minLoopTime, period, mutex, callVars>>

\* OnDeactivate() has returned.  The caller was Deactivate(), SetProperties(),
\* which goes on to Activate(), or the destructor.
DeactivateUnlock(c) ==
  /\ pc[c] = "onDeactivate"
  /\ mutex' = Free
  /\ Goto(c, IF c \in restart THEN "activate" ELSE "idle")
  /\ object' = IF object = "dying" THEN "freed" ELSE object
  /\ UNCHANGED <<flagVars, minLoopTime, loopVars, restart, unapplied, calls>>

\* ~ActorBlocking: the derived part is gone when it calls Deactivate().  The
\* owner destroys the actor when no other call is in progress.
Destroy(c) ==
  /\ Begin(c)
  /\ \A d \in Callers : pc[d] = "idle"
  /\ object' = "dying"
  /\ Goto(c, "deactivate")
  /\ UNCHANGED <<flagVars, minLoopTime, loopVars, mutex, restart, unapplied>>
-----------------------------------------------------------------------------
(* SetProperties and SetProperty *)

\* Mutant: the period is stored and the loop goes on with the old one.
SetPropertiesNoRestart(c, p) ==
  /\ Begin(c)
  /\ minLoopTime' = p /\ unapplied' = FALSE
  /\ UNCHANGED <<flagVars, loopVars, mutex, pc, restart, object>>

\* The new period is stored ...
SetProperties(c, p) ==
  /\ Begin(c)
  /\ minLoopTime' = p
  /\ unapplied' = FALSE
  /\ Goto(c, "isActive")
  /\ UNCHANGED <<flagVars, loopVars, mutex, restart, object>>

\* ... and an actor that says it is active is stopped and started.
SetPropertiesIsActive(c) ==
  /\ pc[c] = "isActive"
  /\ \/ ~flagActive /\ Goto(c, "idle") /\ UNCHANGED restart
     \/ flagActive /\ Goto(c, "deactivate") /\ restart' = restart \cup {c}
  /\ UNCHANGED <<flagVars, minLoopTime, loopVars, mutex, unapplied, object, calls>>

\* SetProperty(name, int): compare() is 0 on equality, so it is any other name
\* that sets the period, and nothing is restarted.
SetProperty(c, name, p) ==
  /\ Begin(c)
  /\ IF name # LoopName THEN minLoopTime' = p /\ unapplied' = TRUE
                        ELSE UNCHANGED <<minLoopTime, unapplied>>
  /\ UNCHANGED <<flagVars, loopVars, mutex, pc, restart, object>>
-----------------------------------------------------------------------------
(* The loop's thread *)

\* Mutant: the period is read where it was never set.
LoopStartUnset ==
  /\ thread = "created"
  /\ thread' = "test"
  /\ period' = 0
  /\ UNCHANGED <<flagVars, minLoopTime, mutex, pc, callVars>>

LoopStart ==
  /\ thread = "created"
  /\ thread' = "test"
  /\ period' = minLoopTime
  /\ UNCHANGED <<flagVars, minLoopTime, mutex, pc, callVars>>

LoopTest ==
  /\ thread = "test"
  /\ thread' = IF flagStop THEN "done" ELSE "process"
  /\ UNCHANGED <<flagVars, minLoopTime, period, mutex, pc, callVars>>

\* Process() returned and the rest of the period was slept.
LoopProcessed ==
  /\ thread = "process"
  /\ thread' = "test"
  /\ UNCHANGED <<flagVars, minLoopTime, period, mutex, pc, callVars>>
-----------------------------------------------------------------------------
Call(c) ==
  \/ CallActivate(c) \/ CallDeactivate(c) \/ Destroy(c)
  \/ \E p \in Periods : SetProperties(c, p)
  \/ \E name \in PropNames, p \in Periods : SetProperty(c, name, p)

Step(c) ==
  \/ ActivateLock(c) \/ ActivateStart(c)
  \/ DeactivateLock(c) \/ DeactivateJoin(c) \/ DeactivateUnlock(c)
  \/ SetPropertiesIsActive(c)

Loop == LoopStart \/ LoopTest \/ LoopProcessed

Next == Loop \/ \E c \in Callers : Call(c) \/ Step(c)

Spec == Init /\ [][Next]_vars

\* A call that has begun goes on, and so does the loop: Process(), OnActivate()
\* and OnDeactivate() return.  Nobody is obliged to call.
Fairness == WF_vars(Loop) /\ \A c \in Callers : WF_vars(Step(c))

FairSpec == Spec /\ Fairness
-----------------------------------------------------------------------------
\* The values the variables range over.
TypeOK ==
  /\ flagActive \in BOOLEAN /\ flagStop \in BOOLEAN
  /\ minLoopTime \in Periods /\ period \in Periods
  /\ thread \in {"none", "created", "test", "process", "done"}
  /\ mutex \in Callers \cup {Free}
  /\ pc \in [Callers -> {"idle", "activate", "onActivate", "deactivate",
                         "joining", "onDeactivate", "isActive"}]
  /\ restart \subseteq Callers
  /\ unapplied \in BOOLEAN
  /\ object \in {"alive", "dying", "freed"}
  /\ calls \in 0..MaxCalls

Locking == {"onActivate", "joining", "onDeactivate"}

\* OnDeactivate() "must be run after the loop stopped": while it runs, and
\* whenever the actor says it is inactive, there is no loop thread.
InactiveHasNoLoop ==
  /\ ~flagActive => thread = "none"
  /\ \A c \in Callers : pc[c] = "onDeactivate" => thread = "none"

\* A stop request is never undone by a concurrent Activate(), so that the join
\* it waits in can end.
JoinKeepsStop == \A c \in Callers : pc[c] = "joining" => flagStop

\* At rest a loop thread belongs to an actor that says it is active, has no
\* stop request pending and has not ended: Activate() never takes a thread
\* that is about to end for a running one.
LoopIsWanted ==
  mutex = Free /\ thread # "none" =>
    flagActive /\ ~flagStop /\ thread # "done"

\* An inactive actor has no loop thread, nor is one left when the destructor has
\* returned, whatever sequence of calls has started it.
NoLoopLeft == InactiveHasNoLoop /\ (object = "freed" => thread = "none")

\* Once every SetProperties() has returned, a loop that has begun sleeps by the
\* period that was set last, unless SetProperty() set it, which restarts nothing.
LoopUsesLatestPeriod ==
  /\ \A c \in Callers : pc[c] = "idle"
  /\ thread \notin {"none", "created"}
  /\ ~unapplied
  => period = minLoopTime

\* Every call returns; Deactivate() in particular is not kept from joining.
CallsReturn == \A c \in Callers : (pc[c] # "idle") ~> (pc[c] = "idle")
=============================================================================
