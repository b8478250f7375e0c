------------------------------ MODULE Delivery ------------------------------
(* A message on its way through a network of event-based actors: the output *)
(* port (PortOutput, MessagePublisherFunctor), the input port (PortInput),  *)
(* the callback of the actor (ActorLocal::addPort) and the actor            *)
(* (ActorEventBased), each of which may call the next in the same thread,   *)
(* while the system (SystemLocal) removes one of the actors and destroys it.*)
(*                                                                          *)
(* A thread is its call stack.  Every actor has one output and one input    *)
(* port.  The queues of futures do not fill up here, so that the futures of *)
(* an object's unfinished tasks are all in its queue: that none of them     *)
(* escapes is TasksTracked of OutputPort and of EventActor.                 *)
EXTENDS Integers, Sequences, FiniteSets

CONSTANTS
  Actors,
  Sources,    \* threads of the application that send messages
  Owner,      \* the thread that removes an actor
  Free,       \* no thread
  Setups,     \* the networks explored: links, and what is synchronous
  MaxCalls    \* bound: number of messages sent and of questions to the system

\* A call leaves at most one task behind for each receiver; a slot is free again
\* when its task has ended.
Tasks == 1..(MaxCalls * Cardinality(Actors) + 1)
Threads == Sources \cup Tasks

ASSUME ActorsAssumption ==
  /\ IsFiniteSet(Actors) /\ MaxCalls \in Nat
  /\ Setups \subseteq [links : SUBSET (Actors \X Actors),
                      syncPorts : SUBSET Actors, syncActors : SUBSET Actors]

ASSUME ThreadsAssumption ==
  /\ Sources \cap Tasks = {}
  /\ Owner \notin Threads /\ Free \notin Threads /\ Owner # Free

VARIABLES
  links,       \* the callbacks in the tables of all output ports
  syncPorts,   \* actors whose output port delivers in the notifying thread
  syncActors,  \* actors that handle a message in the delivering thread
  active,      \* actors whose _flagActive is set
  lock,        \* holder of each actor's onInputTask
  stack,       \* the calls each thread is in, the innermost last
  victim,      \* the actor that is removed
  inScheme,    \* whether it is destroyed with mutexScheme held
  stage,       \* how far its removal is
  uncut,       \* the actors whose links to it are still to be removed
  late,        \* ghost: a delivery was in the actor when its destruction began
  calls

modes == <<syncPorts, syncActors>>
removal == <<victim, inScheme, stage, uncut, late>>
vars == <<links, modes, active, lock, stack, removal, calls>>

\* A call in progress: where it is, in which actor, and the callbacks a loop
\* over the table has still to go over.
Call(at, a, todo) == [at |-> at, actor |-> a, todo |-> todo]
Frames ==
  [at : {"delivery", "sanitize", "lock", "loop", "receive", "input", "process", "ask"},
   actor : Actors, todo : SUBSET Actors]

Init ==
  /\ \E s \in Setups :
       links = s.links /\ syncPorts = s.syncPorts /\ syncActors = s.syncActors
  /\ active = Actors
  /\ lock = [a \in Actors |-> Free]
  /\ stack = [t \in Threads |-> <<>>]
  /\ victim \in Actors /\ inScheme \in BOOLEAN
  /\ stage = "none" /\ uncut = {} /\ late = FALSE
  /\ calls = 0

Top(s) == s[Len(s)]

\* The call returns; a task of a publisher ends with the call it was started for.
Below(s) ==
  IF Len(s) = 2 /\ s[1].at = "delivery" THEN <<>> ELSE SubSeq(s, 1, Len(s) - 1)
Receivers(a) == {b \in Actors : <<a, b>> \in links}

\* The threads that are in a call of actor a at one of the places.
Inside(a, places) ==
  {t \in Threads : \E i \in DOMAIN stack[t] :
     stack[t][i].actor = a /\ stack[t][i].at \in places}

\* Mutant: _mutex is shared already when SanitizeQueue is called.
InLoopEarly(a) == Inside(a, {"sanitize", "lock", "loop"})

\* Those that share a port's mutex_notifiable, and its publisher's _mutex.
InNotify(a) == Inside(a, {"sanitize", "lock", "loop"})
InLoop(a) == Inside(a, {"loop"})

\* The tasks of its publisher ("delivery") and its own ("process").
Unfinished(a, kind) ==
  {k \in Tasks : stack[k] # <<>> /\ stack[k][1].at = kind /\ stack[k][1].actor = a}

\* Thread t is about to go on at a place, in an actor that still exists.
At(t, place) ==
  /\ stack[t] # <<>> /\ Top(stack[t]).at = place
  /\ ~(stage = "gone" /\ Top(stack[t]).actor = victim)

Here(t) == Top(stack[t]).actor
Stacked(t, s) == stack' = [stack EXCEPT ![t] = s]
Replaced(t, c) == [stack[t] EXCEPT ![Len(stack[t])] = c]

\* std::async starts a task.
IsFree(k) == stack[k] = <<>> /\ \A j \in Tasks : stack[j] = <<>> => k <= j
-----------------------------------------------------------------------------
(* PortOutput::Notify, and the publisher's *)

\* A source sends through the port of an actor that is not being removed.
Send(s, a) ==
  /\ stack[s] = <<>> /\ calls < MaxCalls
  /\ stage = "none" \/ a # victim
  /\ Stacked(s, <<Call("sanitize", a, {})>>)
  /\ calls' = calls + 1
  /\ UNCHANGED <<links, modes, active, lock, removal>>

\* Process() sends on through its actor's own port.
Forward(t) ==
  /\ At(t, "process") /\ calls < MaxCalls
  /\ Stacked(t, Append(stack[t], Call("sanitize", Here(t), {})))
  /\ calls' = calls + 1
  /\ UNCHANGED <<links, modes, active, lock, removal>>

\* SanitizeQueue has the publisher's _mutex for itself.
Sanitize(t) ==
  /\ At(t, "sanitize") /\ InLoop(Here(t)) = {}
  /\ Stacked(t, Replaced(t, Call("lock", Here(t), {})))
  /\ UNCHANGED <<links, modes, active, lock, removal, calls>>

\* Mutant: the test for an empty callback is dropped.
BeginLoopWithEmpty(t) ==
  /\ At(t, "lock")
  /\ Stacked(t, Replaced(t, Call("loop", Here(t), Receivers(Here(t)) \cup {Free})))
  /\ UNCHANGED <<links, modes, active, lock, removal, calls>>

\* _mutex is shared and the loop over the table begins.
BeginLoop(t) ==
  /\ At(t, "lock")
  /\ Stacked(t, Replaced(t, Call("loop", Here(t), Receivers(Here(t)))))
  /\ UNCHANGED <<links, modes, active, lock, removal, calls>>

\* A callback is called, or a task is started that will call it.
Deliver(t) ==
  /\ At(t, "loop")
  /\ \E b \in Top(stack[t]).todo :
       LET a == Here(t)
           rest == Replaced(t, Call("loop", a, Top(stack[t]).todo \ {b}))
           call == Call("receive", b, {})
       IN \/ a \in syncPorts /\ Stacked(t, Append(rest, call))
          \/ /\ a \notin syncPorts
             /\ \E k \in Tasks :
                  /\ IsFree(k)
                  /\ stack' = [stack EXCEPT ![t] = rest,
                                            ![k] = <<Call("delivery", a, {}), call>>]
  /\ UNCHANGED <<links, modes, active, lock, removal, calls>>

EndLoop(t) ==
  /\ At(t, "loop") /\ Top(stack[t]).todo = {}
  /\ Stacked(t, Below(stack[t]))
  /\ UNCHANGED <<links, modes, active, lock, removal, calls>>
-----------------------------------------------------------------------------
(* PortInput::Receive and ActorEventBased::OnInputReceive *)

\* The callback of the actor looks at the activity flag.
Receive(t) ==
  /\ At(t, "receive")
  /\ Stacked(t, IF Here(t) \in active THEN Replaced(t, Call("input", Here(t), {}))
                ELSE Below(stack[t]))
  /\ UNCHANGED <<links, modes, active, lock, removal, calls>>

\* Asynchronous: a task is started with onInputTask held for a moment.
StartProcess(t) ==
  /\ At(t, "input") /\ Here(t) \notin syncActors /\ lock[Here(t)] = Free
  /\ \E k \in Tasks :
       /\ IsFree(k)
       /\ stack' = [stack EXCEPT ![t] = Below(stack[t]),
                                 ![k] = <<Call("process", Here(t), {})>>]
  /\ UNCHANGED <<links, modes, active, lock, removal, calls>>

\* Synchronous: Process() is called with onInputTask held.
EnterProcess(t) ==
  /\ At(t, "input") /\ Here(t) \in syncActors /\ lock[Here(t)] = Free
  /\ lock' = [lock EXCEPT ![Here(t)] = t]
  /\ Stacked(t, Replaced(t, Call("process", Here(t), {})))
  /\ UNCHANGED <<links, modes, active, removal, calls>>

Unlocked(t) ==
  lock' = [lock EXCEPT ![Here(t)] = IF @ = t THEN Free ELSE @]

\* Process() returns.
Return(t) ==
  /\ At(t, "process")
  /\ Unlocked(t)
  /\ Stacked(t, Below(stack[t]))
  /\ UNCHANGED <<links, modes, active, removal, calls>>

\* Mutant: the lock is not given back when Process() throws.
ThrowLocked(t) ==
  /\ At(t, "process")
  /\ Stacked(t, Below(Below(stack[t])))
  /\ UNCHANGED <<links, modes, active, lock, removal, calls>>

\* Process() throws: the Notify() that called it in this thread catches the
\* exception and calls nobody else, or a future takes it.
Throw(t) ==
  /\ At(t, "process")
  /\ Unlocked(t)
  /\ Stacked(t, Below(Below(stack[t])))
  /\ UNCHANGED <<links, modes, active, removal, calls>>

\* Process() asks the system for an actor: GetActorById shares mutexScheme.
Ask(t) ==
  /\ At(t, "process") /\ calls < MaxCalls
  /\ Stacked(t, Append(stack[t], Call("ask", Here(t), {})))
  /\ calls' = calls + 1
  /\ UNCHANGED <<links, modes, active, lock, removal>>

\* The removal that destroys the actor inside the scheme has mutexScheme.
SchemeHeld == inScheme /\ stage \in {"wait", "drain", "ports"}

Answer(t) ==
  /\ At(t, "ask") /\ ~SchemeHeld
  /\ Stacked(t, Below(stack[t]))
  /\ UNCHANGED <<links, modes, active, lock, removal, calls>>

\* What a call does in an actor that is gone is undefined: here it stays where
\* it is, or leaves its thread.
Undefined(t) ==
  /\ stack[t] # <<>> /\ stage = "gone" /\ Here(t) = victim
  /\ Stacked(t, <<>>)
  /\ UNCHANGED <<links, modes, active, lock, removal, calls>>
-----------------------------------------------------------------------------
(* The removal of an actor: Detach of the system, or Clear and SetMemento *)

\* Clear deactivates the actors before it removes them, SetMemento does not.
Deactivate ==
  /\ stage = "none" /\ inScheme /\ active = Actors
  /\ active' = {}
  /\ UNCHANGED <<links, modes, lock, stack, removal, calls>>

\* CleanObservers, in RemoveAllConectionsWithActor.
Remove ==
  /\ stage = "none" /\ InLoop(victim) = {}
  /\ links' = {l \in links : l[1] # victim}
  /\ stage' = "cut"
  /\ uncut' = IF inScheme THEN Actors ELSE Actors \ {victim}
  /\ UNCHANGED <<modes, active, lock, stack, victim, inScheme, late, calls>>

\* Mutant: a link is removed beside the notifiers of its port.
DisconnectAllUnlocked(a) ==
  /\ stage = "cut" /\ a \in uncut
  /\ links' = links \ {<<a, victim>>}
  /\ uncut' = uncut \ {a}
  /\ UNCHANGED <<modes, active, lock, stack, victim, inScheme, stage, late, calls>>

\* DisconnectAll, for one actor of the scheme: its port waits for its notifiers.
DisconnectAll(a) ==
  /\ stage = "cut" /\ a \in uncut /\ InNotify(a) = {}
  /\ links' = links \ {<<a, victim>>}
  /\ uncut' = uncut \ {a}
  /\ UNCHANGED <<modes, active, lock, stack, victim, inScheme, stage, late, calls>>

\* The last pointer to the actor is dropped: ~ActorEventBased deactivates it.
\* The application's threads have left its port.
Destroy ==
  /\ stage = "cut" /\ uncut = {}
  /\ InNotify(victim) \cap Sources = {}
  /\ active' = active \ {victim}
  /\ stage' = "wait"
  /\ late' = (Inside(victim, {"receive", "input", "process", "ask"}) \ Unfinished(victim, "process") # {})
  /\ UNCHANGED <<links, modes, lock, stack, victim, inScheme, uncut, calls>>

WaitForTasksLock ==
  /\ stage = "wait" /\ lock[victim] = Free
  /\ lock' = [lock EXCEPT ![victim] = Owner]
  /\ stage' = "drain"
  /\ UNCHANGED <<links, modes, active, stack, victim, inScheme, uncut, late, calls>>

\* Mutant: the destructor does not wait for the tasks.
WaitForTasksNot ==
  /\ stage = "drain"
  /\ lock' = [lock EXCEPT ![victim] = Free]
  /\ stage' = "ports"
  /\ UNCHANGED <<links, modes, active, stack, victim, inScheme, uncut, late, calls>>

WaitForTasks ==
  /\ stage = "drain" /\ Unfinished(victim, "process") = {}
  /\ lock' = [lock EXCEPT ![victim] = Free]
  /\ stage' = "ports"
  /\ UNCHANGED <<links, modes, active, stack, victim, inScheme, uncut, late, calls>>

\* The output port is destroyed with the futures of its publisher, each of
\* which waits for its delivery.
DestroyPorts ==
  /\ stage = "ports" /\ Unfinished(victim, "delivery") = {}
  /\ stage' = "gone"
  /\ UNCHANGED <<links, modes, active, lock, stack, victim, inScheme, uncut, late, calls>>
-----------------------------------------------------------------------------
Continue(t) ==
  \/ Sanitize(t) \/ BeginLoop(t) \/ Deliver(t) \/ EndLoop(t)
  \/ Receive(t) \/ StartProcess(t) \/ EnterProcess(t)
  \/ Return(t) \/ Throw(t) \/ Answer(t)

Removal ==
  \/ (\E a \in Actors : DisconnectAll(a))
  \/ Destroy \/ WaitForTasksLock \/ WaitForTasks \/ DestroyPorts

Next ==
  \/ \E s \in Sources, a \in Actors : Send(s, a)
  \/ \E t \in Threads : Continue(t) \/ Forward(t) \/ Ask(t) \/ Undefined(t)
  \/ Deactivate \/ Remove \/ Removal

Spec == Init /\ [][Next]_vars

\* Calls and tasks go on, Process() ends, and a removal that has begun goes on.
Fairness ==
  /\ \A t \in Threads : WF_vars(Continue(t))
  /\ WF_vars(Removal)

FairSpec == Spec /\ Fairness
-----------------------------------------------------------------------------
\* The values the variables range over.
TypeOK ==
  /\ links \subseteq Actors \X Actors
  /\ syncPorts \subseteq Actors /\ syncActors \subseteq Actors
  /\ active \subseteq Actors
  /\ lock \in [Actors -> Threads \cup {Owner, Free}]
  /\ stack \in [Threads -> Seq(Frames)]
  /\ victim \in Actors /\ inScheme \in BOOLEAN
  /\ stage \in {"none", "cut", "wait", "drain", "ports", "gone"}
  /\ uncut \subseteq Actors /\ late \in BOOLEAN /\ calls \in 0..MaxCalls

\* A synchronous link into a synchronous actor is a call in the same thread.
SyncLinks == {l \in links : l[1] \in syncPorts /\ l[2] \in syncActors}

\* The synchronous links go round in a circle: the actors have no order in which
\* every such link leads on.
SyncCycle ==
  ~\E rank \in [Actors -> 1..Cardinality(Actors)] :
     \A l \in SyncLinks : rank[l[1]] < rank[l[2]]

\* A Process() asks a system that is destroying an actor with mutexScheme held.
AsksInRemoval == SchemeHeld /\ \E t \in Threads : At(t, "ask")

Astray == \E t \in Threads : stack[t] # <<>> /\ stage = "gone" /\ Here(t) = victim

\* Once its links are cut, a removed actor is only reached by deliveries that a
\* task of an asynchronous port had begun before; a synchronous port that has
\* let go of it is in no call of it and makes none.
RemovedIsReachedLate ==
  stage \in {"wait", "drain", "ports", "gone"} =>
    \A t \in Threads : \A i \in DOMAIN stack[t] :
      stack[t][i].actor = victim /\ stack[t][i].at \in {"receive", "input"}
        => i = 2 /\ stack[t][1].at = "delivery"

\* Nobody is in the actor when it is gone, but for deliveries that had not left
\* it when its destruction began, and what they start.
GoneIsQuiet ==
  stage = "gone" /\ ~late =>
    \A t \in Threads : \A i \in DOMAIN stack[t] : stack[t][i].actor # victim

\* A thread in a call waits for no lock: neither for the loops over the table it
\* wants for itself, nor for onInputTask, nor for mutexScheme.
CanGoOn(t) ==
  /\ stack[t] # <<>>
  /\ Top(stack[t]).at = "sanitize" => InLoop(Here(t)) = {}
  /\ Top(stack[t]).at = "input" => lock[Here(t)] = Free
  /\ Top(stack[t]).at = "ask" => ~SchemeHeld

\* A removal that has begun has what it waits for.
RemovalCanGoOn ==
  \/ stage = "cut" /\ \E a \in uncut : InNotify(a) = {}
  \/ stage = "cut" /\ uncut = {} /\ InNotify(victim) \cap Sources = {}
  \/ stage = "wait" /\ lock[victim] = Free
  \/ stage = "drain" /\ Unfinished(victim, "process") = {}
  \/ stage = "ports" /\ Unfinished(victim, "delivery") = {}

\* However the calls of publishers, actors and the removal nest, they never all
\* wait for each other, but for the circles that CallsReturn excepts too.
SomebodyGoesOn ==
  /\ stage \in {"cut", "wait", "drain", "ports"} \/ \E t \in Threads : stack[t] # <<>>
  /\ ~SyncCycle /\ ~AsksInRemoval /\ ~(stage = "gone" /\ late)
  => RemovalCanGoOn \/ \E t \in Threads : CanGoOn(t)

\* Every call returns, however ports and actors nest, unless the synchronous
\* links go round in a circle, or Process() asks the system while it destroys
\* an actor.
CallsReturn ==
  \A t \in Sources :
    (stack[t] # <<>>) ~> (stack[t] = <<>> \/ SyncCycle \/ AsksInRemoval \/ Astray)

\* So does the removal of an actor, with everything its destructors wait for.
RemovalReturns ==
  (stage = "cut") ~> (stage = "gone" \/ SyncCycle \/ AsksInRemoval)
=============================================================================
