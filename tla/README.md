# ActorCore in TLA+

A verification project for the library in `src/src`: TLA+ modules of its
concurrent parts, TLC configurations that model-check them on small instances,
and TLAPS proofs of the properties that matter most for instances of any size.

ActorCore runs a *scheme*: actors with input and output ports, and links from
output to input ports. A message is delivered through a link in the notifying
thread or in a task of `std::async`; an actor handles it in the thread that
delivers it, in a task of its own, or in a loop thread. None of this has a
scheduler: actors, ports and the system are objects with mutexes, called by any
thread at any time.

## 1. Inventory

| Part | State | Operations | Interacts with |
|---|---|---|---|
| `SharedQueue` (Core) | deque, limit, mode, mutex, condition variable | `front`, `front(timeout)`, `pop_front`, three pushes, `clear`, setters | member of input ports, publishers and event actors |
| `MessagePublisherFunctor` (Core) | table linkId -> callback, queue of futures, async flag, shared mutex | `Attach`, `Detach`, `Notify`, `CleanObservers`, setters | member of `PortOutput`; calls `IPort::Receive` |
| `PortOutput` (Ports) | a publisher, the set of reported links, user data of links, shared mutex | `Attach`, `Detach`, `Notify`, user data, `CleanObservers` | called by `ActorLocal` and `SystemLocal`; calls remote ports |
| `PortInput` (Ports) | queue of messages (PopOld, size 1 by default), trigger | `Receive`, setters | called by publishers; calls the actor's callback |
| `ActorLocal` (Actors) | activity flag, ports, parent | `Activate`, `Deactivate`, `ConnectTo`, `Disconnect`, `DisconnectAll`, `deletePort`, `Links` | ports of its own and of other actors |
| `ActorBlocking` (Actors) | stop flag, loop thread, period, mutex | the overrides of `Activate`, `Deactivate`, `SetProperties` | its loop thread, any caller |
| `ActorEventBased` (Actors) | mutex `onInputTask`, queue of futures, async flag | `OnInputReceive`, `WaitForTasks`, setters, destructor | the delivering threads, its tasks |
| `SystemLocal` (System) | actors, shared mutex, user data | `Init`, `Append`, `Spawn`, `Clone`, `Attach`, `Detach`, `Connect`, `Disconnect`, `Scheme`, mementos | all actors and ports |
| `SystemSnapshotManager` (System) | undo deque, redo deque, limit, mutex | `Save`, `Undo`, `Redo`, with steps, `Clear`, `SetMaxUndoSize` | `CreateMemento` / `SetMemento` of the system |
| `MessagePublisher`, `PortBase`, `PortBiDirectional`, `Message`, factories, ids, `Logger` | - | - | see section 7 |

What is hard here, and what makes each part correct:

* **SharedQueue**: notification after the unlock, one waiter at a time; readers
  keep references after the unlock. No lost wakeup, no item left behind, a
  reference that is still the head or gone, a limit that limits.
* **ActorBlocking**: `Deactivate()` joins with the mutex held while the flags are
  touched elsewhere; `SetProperties` is a stop and a start. No stop request is
  undone, no loop of an inactive actor, no active actor without its loop after a
  race, no thread after the destructor, all calls return.
* **ActorEventBased**: a future of `std::async` waits in its destructor, so where
  it ends up decides who waits for whom. No task escapes, the limits hold under
  changes, nothing runs in a destroyed actor, receptions and the destructor end.
* **PortOutput and its publisher**: two nested shared mutexes, callbacks bound to
  plain pointers, tasks that outlive the locks. Calls reach attached ports only,
  what is called is reported, tasks are tracked and bounded, calls return.
* **SystemSnapshotManager**: two deques that must be one history, while
  restorations throw, limits change and others edit the system.
* **SystemLocal**: nested shared locks, links that are kept by the actors and taken
  away from two ends, operations of many critical sections. No callback into an
  actor that is gone, no link out of the scheme, a restoration that leaves what it
  was given, all calls return.
* **All of them together**: a message that is delivered synchronously holds the
  locks of every port and actor it goes through, and a removed actor is destroyed
  while messages are on their way to it. A removed actor is reached by deliveries
  begun before only, nobody is left in it, calls and removal return.

`PROJECT.json` lists all hazards with their lines and the properties for them.

## 2. Modules

| Module | Models | Proofs |
|---|---|---|
| `SharedQueue` | `Core/SharedQueue.h` | `SharedQueueProofs` |
| `BlockingActor` | `Actors/ActorBlocking.cpp` | `BlockingActorProofs` |
| `EventActor` | `Actors/ActorEventBased.cpp`, with its queue of futures | `EventActorProofs` |
| `OutputPort` | `Ports/PortOutput.cpp`, `Core/MessagePublisherFunctor.hpp`, and `deletePort` of the remote actor | `OutputPortProofs` |
| `Delivery` | `OutputPort`, `PortInput`, the callback of `ActorLocal` and `EventActor` composed, and the removal of an actor by `SystemLocal` | `DeliveryProofs` |
| `Scheme` | `System/SystemLocal.cpp`, and the links of `Actors/ActorLocal.cpp` | `SchemeProofs` |
| `History` | nothing: what an undo history promises | - |
| `SnapshotManager` | `System/SystemSnapshotManager.cpp`, as a refinement of `History` | `SnapshotManagerProofs` |

`QueueLemmas` has the facts on sequences (`Append`, `Tail`, pops of several items)
that the proofs about queues share.

`MC<module>` instantiates a module for TLC, with symmetry where it is sound (in
runs that check no liveness).

Conventions: the part of an operation inside one critical section is one action.
A lock that is held while the thread blocks or calls out is a variable, or is read
off the program counters of those that share it. A thread is at a label
(`pc[t]`), `"idle"` when in no call. A definition with the comment *Mutant* is not
part of the model: it is a plausible mistake in the definition below it, and the
property it is listed with in `PROJECT.json` must fail with it.

### SharedQueue

`queue`, `maxSize`, `modeFull` are the members; `sleeping` is the set of threads
blocked in the condition variable. A waiter that was woken has left `sleeping` and
takes the mutex again in its next step, as the standard says, with any other
thread in between. `push_back` and `emplace_back` are `Push` with different tests
for "full", and `NotifyOne` after the unlock. `setModeFull` takes no lock, so
`Push` reads the mode twice. Items are numbered, so that an item lost, repeated
or overtaken can be told. `ref` is the reference a consumer got from `front()`:
references are compared with what the queue holds when they are used. `missed` and
`spurious` are ghosts: how many notifications went to a `front(timeout)` that timed
out all the same, and which consumers are awake without one. Two blocking consumers
and one with a timeout use the queue side by side.

### BlockingActor

`mutex` is `mutexActivateDeactivate`; `thread` is `_processingLoopThread` together
with where the loop is (`"done"`: ended, not joined). `ActivateLock` and
`ActivateStart` are the two halves of `Activate()` around the virtual
`OnActivate()`; `DeactivateLock`, `DeactivateJoin`, `DeactivateUnlock` are the
three parts of `Deactivate()`. `restart` holds the callers whose `Deactivate()` is
the one of `SetProperties`. The flags are plain fields: the loop reads `_flagStop`
between any two steps of the callers, and it starts with any value.

### EventActor

A message is the number of its reception, the task that handles it has the next
free number; a task may itself deliver to the actor (`Feedback`). `futures` is
`myFutureQueue` as a sequence of tasks; `held[t]` is the future in a local
variable of the receiving thread, whose destructor waits with `onInputTask` held
(`DestroyFuture`). `SanitizeQueue` pops exactly the finished tasks at the head
(`ReadyHeads`); a wait of 40 ns that reports "not ready" of a task just finished
is the same as looking before it finished. `Unlinked` says whether the owner
waits for the senders before it destroys the actor. `ReadMode` may also end the
reception, when `ApproveTask` refuses the message. A synchronous `Process()` that
sends to its own actor, which waits for itself at once, is in `Delivery`
(`SyncCycle`) and not here.

### OutputPort

`callbacks` is the publisher's table, `identifiers` the set of links that is
reported, `userData` the links with data. Links of the set `Colliding` have the
same linkId. The shared holders of the two mutexes are `InNotify` and `InLoop`;
exclusive sections are actions that need them empty. `todo[n]` is what the loop of
a notifier has still to go over, `held[n]` the future that did not fit into the
queue, destroyed at the end of the statement. `ErasePort` is the end of
`ActorLocal::deletePort`, for one output port that sees it. `given` is a ghost: the
linkIds that were given data and not detached since. `Detach` takes the link away in
one critical section and its data in the next; `BeingRemoved` are the linkIds
between the two.

### Delivery

A thread is the stack of the calls it is in, each at a place in an actor: a
synchronous link is a call in the same thread, an asynchronous one starts a task
with a stack of its own, and an exception of `Process()` unwinds to the `Notify()`
that called it. The locks are read off the stacks: `InNotify(a)` are the threads
that share `mutex_notifiable` of the port of `a`, `InLoop(a)` those that share the
`_mutex` of its publisher; `lock` is `onInputTask`, which has one holder. The
removal is `RemoveAllConectionsWithActor` (`Remove`, `DisconnectAll`) and the
destructor (`Destroy`, `WaitForTasksLock`, `WaitForTasks`, `DestroyPorts`), with
`mutexScheme` held (`inScheme`: `Clear`, `SetMemento`) or not (`Detach`, then the
last pointer is dropped). `Clear` deactivates all actors before (`Deactivate`).

The queues of futures do not fill up here: the futures of unfinished tasks are all
in their queue, as `TasksTracked` of `OutputPort` and `EventActor`, proved in both
modules, justifies. Locks prefer readers, as glibc's do. The scheme is fixed but
for the removal. A call in an actor that is gone is undefined behaviour and may
stay or end (`Undefined`). `late` is a ghost: a delivery was inside the actor when
its destruction began.

### SnapshotManager and History

A snapshot is the state of the system it was taken of. Every operation holds
`mutex`, so the operations are atomic but for `SetMemento()`, during which the
system is edited by others or throws: `Undo`, `Redo` and the operations with steps
end in `Restored` or `RestoreThrew`. `edited` is a ghost: whether the system was
edited since it was last saved or restored. Snapshots are compared by their hash:
the states of `SameHash` differ and have one (`Alike`). A restoration gives back the
entry the code passes, the last of the undo deque or, for `Redo()`, of the redo
deque. Where the code trims, `History` has to forget exactly what exceeds the limit
(`Excess`). The refinement maps the history to
`undoDeque \o Reverse(redoDeque)` with the cursor at the end of `undoDeque`;
while `Redo()` is at work its snapshot is in both deques and is counted once.

### Scheme

An actor is a pair of its id and a number, so that an actor that was removed can be
told from the one that has its id now. `actors` is `_mapActors`. A callback leads
to a port of a certain actor, a reported link to a port under an *id*: `callbacks`
has the first, `reported` (the sets that `Links()` reads) and `linkData` the
second. `Alive` says which actors exist: those in the map, those the application
has got from `Detach()`, and those a running operation has a shared pointer to.

`mutexScheme` is read off the labels: `Readers` share it, `Writers` wait to lock it
exclusively. An exclusive section is one action; a loop under the shared lock is
one action per actor, in any order. `Clear()` and `SetMemento()` share it twice
(l. 194 and l. 541, then l. 631). The standard leaves this undefined, and
platforms differ in whether a reader may enter beside a waiting writer:
`WriterPreference` is that choice. `Clear` and the first half of `SetMemento` are
the same actions with different `Kept`, as in the code; `Init` is `Clear` and
`Append`. `clone`, `cloneList` and `cloneAlone` are `Clone(id, true)`,
`Clone({id}, true)` and `Clone(id, false)`.

A port's `Attach` and `Detach` are atomic here, as are the reads of its set:
`OutputPort` has their inside. All actors have the same ports. The actors' own
`Activate` and `Deactivate`, properties, and the user data of actors and of the
system are left out.

`Copies` bounds how many actors of an id are told apart. It must be 2 at least, as a
detached actor may live on while another takes its place; the application is
taken to have one of an id in its hands at a time (`Keep`), so that there is
always another to create.

In a few places the model is coarser than the code, without consequence for what is
checked: `CloneActor` does not pin the original, which would only put its
destruction off when it is detached meanwhile; `SetLinkUserData` looks the actor up
and writes in one action; `DisconnectFirst` has the `Detach` of both ends in one; `Visit` does all
ports of an actor at once, where the code has the ports outside and the actors
inside.

`orderly` and `alone` are ghosts. `orderly` says that the system was used as its
operations need it: no thread removes actors beside one that removes or connects
actors, and an actor is not attached again after it was detached. No text of the
repository asks for this discipline: it is what the properties under it need, and
they say nothing of systems used otherwise (see section 3). `alone` says that an
operation ran beside no other.

## 3. Runs

| Run | Question | Result |
|---|---|---|
| `queue` | 2 producers, 2 blocking consumers and one with a timeout, limits 0, 1, 2, both modes, `clear`: is a wakeup or an item lost, is a reference bad, is a limit passed? | no; 234 k states |
| `queue_timed` | does `front(timeout)` always return an item? | **violated** |
| `blocking_actor` | 3 callers, 4 calls of any kind on one actor | all properties hold; 31 k states |
| `event_actor` | 2 senders, feedback, 4 messages, limits changed, both modes, the destructor | no task escapes, and receptions and the destructor end unless a task waits for itself; 31 k states |
| `port_links` | 2 notifiers, 2 threads changing 2 links of one linkId | table consistent, calls reach attached ports, data stay with their link; 229 k states |
| `port_returns` | a queue of limit 1, both modes | tasks tracked and bounded, all calls return; 72 k states |
| `port_delete` | is a deleted port in no table? | **violated** |
| `delivery` | 2 sources, 2 actors in a ring or one linked to itself, synchronous, asynchronous and mixed, one actor removed: who reaches it, can all wait for each other, does everything return? | only what was begun before; somebody goes on and all returns but for the cases named; 280 k states |
| `snapshots` | 4 states, two of one hash, limits 0, 1, 4, steps 1, 2, 4 | implements `History`; 21 k states |
| `snapshots_steps` | is `Undo(steps)` limited? | **violated** |
| `scheme` | 2 threads, one call each or two of one, any operation of the system on 2 ids | links and callbacks stay in the scheme and agree, restorations are exact, all calls return; 411 k states |
| `scheme_locks` | the same where a waiting writer stops readers: do all calls return? | **violated** |

The four violated runs are disagreements of the code with its own comments and
tests; `PROJECT.json` quotes the lines.

* `queue_timed`: a consumer in `wait_for` wakes up spuriously and reads
  `queue_.front()` of an empty deque. One that was notified does the same when
  another consumer pops the item first.
* `port_delete`: `deletePort` disconnects the port from every actor, another thread
  connects it, `deletePort` erases it.
* `snapshots_steps`: `size() - 1` wraps when nothing was saved.
* `scheme_locks`: `Clear()` shares `mutexScheme`, `Attach()` waits for it, and
  `RemoveAllConectionsWithActor`, called by `Clear()`, waits behind `Attach()`.

**Bounds.** `MaxItems`, `MaxMessages`, `MaxNotifies` and `MaxCalls` bound how many
operations *begin*; nothing that has begun is cut off, so deadlock and liveness are
those of the code. Deadlock checking is off, as a system in which no more
operations begin may stop; the liveness properties show that it does not stop in
the middle of one. Two threads of a kind (three callers of the blocking actor: one
joining, one activating, one reconfiguring) are the fewest with which each race
happens, and a limit of 1 is full after one item. The runs with limits 0, 1 and 3
or 4 have "unlimited", "full at once" and a limit that is lowered below what is
queued. In `scheme` the system starts with one of two schemes, the other one
saved, so that a restoration has an actor and links to add or to remove; two
actors of an id are needed when one is detached and another takes its place. Two
calls are an operation beside any other or after it. In `delivery` two actors have
every kind of link (to another, to itself, in a circle), and three messages or
questions are a message sent into each end and one forwarded beside the removal.
The invariants of these runs are also proved for every value of the bounds.

**Fairness.** A thread that is inside an operation goes on when it can (weak
fairness of its next step); the tasks, the loop and the application's callbacks
(`Process`, `OnActivate`, `Receive`) end. Nothing is assumed of who begins an
operation, of timeouts or of spurious wakeups. Weak fairness is enough although a
`std::mutex` is not fair, because the operations that compete for it are bounded;
`ItemsConsumed` needs no fairness of the producers beyond the notification. In
`delivery` a removal that has begun (`"cut"`) goes on: its thread has nothing else
to do.

**Assumptions and limits of single properties.** An assumption says where the code
relies on its users; with any of them dropped TLC finds the property violated.

* `NoLostWakeup` and `ItemsConsumed` count in `missed` the notifications that a
  `front(timeout)` swallowed: each of them may leave an item to a sleeping reader.
  A reader that woke spuriously and timed out is not counted.
* `HeldIsHeadOrGone` allows what its name says: that the item behind a reference is
  gone is what the code lets happen when two consumers share a queue.
* `FreedIsQuiet`: senders are unlinked first. `GoneIsQuiet`: no delivery was in the
  actor when its destruction began (`late`). That one may be there is what
  `RemovedIsReachedLate` says: a task of an asynchronous port outlives the locks
  that `Detach()` waits for. `tests/testActorsInterchage.cpp` (l. 95-99) expects
  a removed actor to stop receiving; it sleeps a second after the removal.
* `CallsReachAttached`: no port is deleted beside a connection to it (`Exclusive`).
* `CallbacksReported` and `UserDataKept` hold for links whose ids collide, too, and
  for any number of threads; but what they say is said of the *linkId*. Of two links
  of one id the port keeps one callback, and a `Detach` takes what was given to
  either. Data given to a linkId between the two sections of its `Detach` are lost.
* `LastIsCurrent`: up to equal hashes, and nobody has edited the system since: what
  was edited and not saved is lost by `Undo()`. `SnapshotsBounded` and
  `ImplementsHistory`: `SetMemento` does not throw in `Redo()`, which would leave a
  snapshot in both deques.
* `NoDanglingCallback`, `LinksInScheme`, `ReportedIsCalled` and `SchemeGiven`:
  `orderly`, as a `Connect` between two sections of a removal makes a link that
  nobody takes away (`SchemeGiven` is violated without it from three calls on).
* `SchemeGiven`: the scheme is `WellFormed`, that is, its links are from output to
  input ports of its own actors, each with one value of its data. A link of an actor
  that the scheme has not is made by no `Connect`; of two entries for a link the
  order decides; and a link that begins at an input port is kept under the other end.
* The liveness properties name the exceptions they have. `ReceiveReturns` and
  `DestroyReturns` of `EventActor`: a task that delivers to its own actor waits for
  `onInputTask`, whose holder waits for that task (`SelfWait`). `CallsReturn` and
  `RemovalReturns` of `Delivery`, and `SomebodyGoesOn`: synchronous links into
  synchronous actors that go round in a circle (`SyncCycle`: no order of the actors
  has every such link lead on), a `Process()` that asks the system for an actor
  while one is destroyed with `mutexScheme` held (`AsksInRemoval`), and a call left
  in an actor that is gone (`Astray`).

## 4. Proofs

All are for any number of threads, any limits and any bound on operations.

* `SharedQueueProofs`. `TypeCorrect`; `WakeupsKept` (`NoLostWakeup`, consumers of
  both kinds); `ReferencesAgree` (`HeldIsHeadOrGone`); `LimitHolds`
  (`GrowsWithinMax`); `ReaderPopsWhatItRead`: a single reader of a queue that drops
  what does not fit, the way publishers and event actors use theirs, pops the item
  it has read. The invariant for the wakeups adds to `NoLostWakeup` where a sleeper
  can be: the push that adds an item adds a thread about to notify, a notification
  turns it into an awake consumer, one that woke spuriously counts for nothing, a
  consumer that goes to sleep has seen the queue empty, and one that times out after
  a notification leaves `missed`. For the references it is
  that items are in the order of their pushes and none is beyond the counter
  (`OrderInv`).
* `BlockingActorProofs`. `TypeCorrect`; `StopIsKept` (`JoinKeepsStop`);
  `LoopWhenActive` (`LoopIsWanted`); `PeriodIsLatest` (`LoopUsesLatestPeriod`);
  `DestructorStopsLoop` (`NoLoopLeft`: in an inactive actor, while `OnDeactivate()`
  runs, and after the destructor). They rest on
  `LockInv`: the mutex is held by exactly the caller at one of the three labels
  inside, and what flags and thread are at each of them. A loop with an old period
  is one that a caller on its way to `join()` will stop (`StaleIsPending`); the
  destructor needs that it is alone, which its owner guarantees.
* `EventActorProofs`. `TypeCorrect`; `NoTaskEscapes` (`TasksTracked`); `TasksBounded`
  (`TasksWithinQueueSize`); `DestructorWaits` (`FreedIsQuiet`, senders unlinked). The invariant ties `held` to
  the label and to the lock, so that the one task that is in no queue is in the
  hands of the lock's holder, which the destructor waits out; the bound counts that
  task with the queue (`TakenBounded`).
* `OutputPortProofs`. `TypeCorrect`; `CallsAreReported` (`CallbacksReported`);
  `OnlyAttachedCalled` (`CallsReachAttached`); `NoTaskEscapes` (`TasksTracked`);
  `FewTasksRun` (`RunningBounded`); `DataStaysWithLink` (`UserDataKept`). `CallInv`
  says that a callback is reported and its port exists, and that what a loop has
  still to call is in the table: whoever changes the table has waited for the loop.
  `DataInv` adds to `UserDataKept` that no linkId in `given` is in
  `BeingRemoved`: what is given to one on its way out is not counted. It holds for
  any number of threads that change links, and for links that collide.
* `DeliveryProofs`. `RemovedIsUnlinked` (`RemovedIsReachedLate`), `TypeCorrect`,
  `GoneIsLeft` (`GoneIsQuiet`), for networks of any size and stacks of any depth.
  `StackInv` says which call may lie on which: under a call into an actor is the
  loop of a synchronous port linked to it, or the start of a task. `CutInv` says
  which links a removal has cut by when; with the first, a synchronous call into the
  removed actor would be one over a link that is gone. `QuietInv` says that from then
  on only tasks of the actor itself are in it, whose end the destructor awaits.

  `NoMutualWait` (`SomebodyGoesOn`) says that calls and removal are never all stopped
  by one another, for any network whose synchronous links have no circle. `NestInv`
  says that a loop with a call on it is of a synchronous port, and a `Process()` on
  another call of a synchronous actor; `LockInv` that a thread which holds
  `onInputTask` has the `Process()` of that actor on its stack, or the destructor
  holds it. So a call that waits in an actor waits for a thread whose own top call is
  in an actor further along the synchronous links (`Waits`, `WaitsForHigher`); of the
  threads that wait, one whose top call is furthest (`Height`, `LeastNumber`) has
  nobody to wait for but the destructor (`NobodyWaits`). When every thread that is in
  a call waits for the destructor, that one has what it waits for (`RemovalMoves`). The guards of `CanGoOn` and `RemovalCanGoOn` are
  those of the steps, which TLC confirmed (`CanGoOn(t) <=> ENABLED Continue(t)`, but
  for actors that are gone); `ENABLED` itself is outside the proofs.
* `SchemeProofs`. `TypeCorrect`, whose invariant (`TypeInv`) says in addition which
  operation is at which label and what its locals hold there; `NothingDangles`
  (`NoDanglingCallback`) and `LinksStay` (`LinksInScheme`). Neither is inductive:
  `LinkInv` says what a removal has still to do. A callback is of actors in the
  scheme, or of the actor that a `Detach` has erased and whose `Visit` of the
  publisher is to come (`CallbackInv`); during a `Clear` or `SetMemento` those of
  actors that will be erased are of a target that is still to be cut (`CutInv`), so
  when no target is left nothing leads to what `EraseRest` erases. `ReportInv` and
  `ReportCutInv` are the same for the reported links. `NoClash` makes the removal
  the only one, with no `Connect` beside it; `NewInv` says that an actor on its way
  into the scheme brings no links. Most steps are quiet for all of this
  (`QuietStep`, one lemma); the eight others have a lemma each.

  `ReportsAgree` (`ReportedIsCalled`) is a second layer on it: `BaseInv` (one actor
  of an id, who is alone, every callback reported, a removal cuts only what it does
  not keep), and `CalledInv`: a reported link whose callback is gone is of an actor
  that a removal will erase (`Doomed`). That needs `GoneInv`: the actor that a
  `Detach` disconnects is already out of the scheme.

  `RestoresGiven` (`SchemeGiven`) is the third. `RestoreInv` says of an operation
  that restores, at each of its 18 labels, what it has done: the actors that are
  `Missing` while they are created, what was read of the links of how many actors
  (`Records`), which links of the scheme are `Done`, and what else there is until it
  is taken away. The other layers are what makes each step succeed: every missing
  actor finds an unused copy (`UnusedCopy`, by `CallbackInv` and `OneKept`), no
  `Connect` finds its first actor gone (`FoundInv`), a link to prune that is not found
  is not reported either (`ReportInv`), and the second half of `Disconnect`, which
  looks for the wrong port, hits no link of the scheme because that one's source
  keeps a table and its destination does not. With `CalledInv` the links that are
  reported at the end are those that deliver. There is one lemma per step of the
  operation (`SpawnRestores` to `DisconnectRestores`); callers that restore are alone,
  so the steps of others need none.
* `SnapshotManagerProofs`. `TypeCorrect`, `UndoLeavesOne` (the underflow happens in
  an empty history only), `KeepsWithinLimit` (`SnapshotsBounded`), `CurrentIsLast`
  (`LastIsCurrent`) and `RefinesHistory` (`ImplementsHistory`): every step of the
  manager is a step of `History` under the mapping, or none. `Restoring` strengthens
  the types: while a restoration is at work there is a snapshot to restore, and
  `Redo()` still has the one it will pop, which is also the last done. `Bounded`
  counts the snapshot of `Redo()` once. The refinement rests on how the entries of the history, the undo deque and
  the reversed redo deque, come apart and together again (`UndoneJoined`,
  `RedoneJoined`, `TrimmedJoined`).

Each proof has one step per action; the temporal step at the end is by `PTL`.
Assumptions on constants are those of the modules (`SizesAssumption`,
`ThreadsAssumption`, ...), which TLC evaluates in every run, and the options that
the list of section 3 names.

**Only model-checked**: the liveness properties. Liveness under fairness,
enabledness, and induction over data (what a recursive definition computes for
every input) are out of the prover's reach.

## 5. Checking

    tlc -workers 2 -config SharedQueue.cfg MCSharedQueue
    tlapm SharedQueueProofs.tla

Every run ends within two minutes, every module of proofs within a few.

## 6. Plan

Done: the modules and theorems of sections 2 and 4. What would come next:

1. `Scheme` with ports that are inputs and outputs at once (`PortBiDirectional`),
   for the second half of `Disconnect` (l. 463-467): `DisconnectSecond` has it, but
   with the ports of the run it detaches nothing.
2. `Clone` of several ids.
3. Queues that fill up in `Delivery`: a full queue makes a delivery wait for a task,
   which adds to who waits for whom.

## 7. Not modelled

`MessagePublisher` is unused; `PortBase`, `PortBiDirectional`, `Message`, the
factories and `UidGenerator` hold data or tables that do not change while a system
runs; `Logger` and the vendored `3rdParty` (JSON, P7) are output and parsing. JSON
texts, labels and telemetry are left out everywhere. `Init` of ports and actors is
modelled by the settings it may leave. Of `SystemLocal`: `Activate` and
`Deactivate` of all actors, which are calls of each actor's own (`BlockingActor`
has them, `Delivery` the one in `Clear`), properties and the user data of actors and of the system.

Of the 65.7 k lines of the repository's implementation some 60 k are vendored
(`3rdParty/json`, `3rdParty/libP7Client`, the test framework `catch.hpp`) or
examples and tests; the library itself, `src/src`, has about 4 k with its headers, a
third of which the modules' definitions stand for. The remainder is JSON, properties,
factories and declarations.

Two ids of links may be one text ("a" + "bc", "ab" + "c"): `Colliding` in
`OutputPort` has such links, and the properties of `port_links` hold with them.
