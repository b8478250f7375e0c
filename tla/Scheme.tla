------------------------------- MODULE Scheme -------------------------------
(* rf::SystemLocal (System/SystemLocal.cpp) with the links of its actors    *)
(* (Actors/ActorLocal.cpp, Ports/PortOutput.cpp): actors come and go, links *)
(* are made and taken away, and a scheme is read and restored, by several   *)
(* threads.                                                                 *)
(*                                                                          *)
(* mutexScheme guards the map of the actors only; links are in the ports of *)
(* the actors, each with a lock of its own.  Every operation is therefore a *)
(* sequence of critical sections.  A section that locks mutexScheme         *)
(* exclusively is one action; a loop under the shared lock is an action for *)
(* each actor it goes over.                                                 *)
EXTENDS Naturals, FiniteSets

CONSTANTS
  Callers,          \* threads that call the system
  Ids,              \* ids of actors
  Copies,           \* bound: actors of one id that are told apart
  Ports,            \* ids of the ports that every actor has
  Tables,           \* those that keep a table of links: output ports
  Links,            \* the links that are asked for
  Schemes,          \* the schemes given to Init and Append
  None,             \* no actor, id or link
  WriterPreference, \* whether a waiting writer stops new readers
  MaxCalls          \* bound: number of calls explored

Actors == Ids \X (1..Copies)
Nodes == Ids \X Ports

\* A link between two ports, with its user data or without.
LinkRecords == (Nodes \X Nodes) \X BOOLEAN

ASSUME SizesAssumption ==
  /\ Copies \in Nat \ {0, 1} /\ MaxCalls \in Nat /\ WriterPreference \in BOOLEAN
  /\ None \notin Ids \cup Actors \cup LinkRecords

ASSUME SchemesAssumption ==
  /\ Tables \subseteq Ports /\ Links \subseteq Nodes \X Nodes
  /\ Schemes # {}
  /\ Schemes \subseteq [actors : SUBSET Ids, links : SUBSET (Links \X BOOLEAN)]

VARIABLES
  actors,     \* _mapActors
  held,       \* detached actors that the application still has
  callbacks,  \* of all publishers: the ports that a port calls
  reported,   \* setIdentifiersOfNotifiable of all output ports
  linkData,   \* linkUserData of all output ports: the links that have some
  memento,    \* the last scheme that was read
  pc,         \* what each caller is doing
  loc,        \* the local variables of each caller
  orderly,    \* ghost: whether the scheme was used as documented so far
  calls

tables == <<callbacks, reported, linkData>>
vars == <<actors, held, tables, memento, pc, loc, orderly, calls>>

Id(o) == o[1]
InScheme(i) == \E o \in actors : Id(o) = i
ActorOf(i) == CHOOSE o \in actors : Id(o) = i

\* A callback <<port, port>> is reported under the id of the actor it calls.
Named(c) == <<c[1], <<Id(c[2][1]), c[2][2]>>>>

\* What Links() gives for a reported link.
LinkOf(r) == <<<<Id(r[1][1]), r[1][2]>>, r[2]>>
Keys(records) == {r[1] : r \in records}

\* The local variables of a caller that is in no operation.
Rest ==
  [job |-> "none", alone |-> TRUE, plan |-> [actors |-> {}, links |-> {}],
   ids |-> {}, id |-> None, original |-> None, targets |-> {}, todo |-> {},
   actor |-> None, peer |-> None, links |-> {}, link |-> None, read |-> {}]

\* Actors are shared: an operation keeps those in its locals alive, but Connect
\* has its first actor as a weak pointer.
Pinned ==
  {loc[t].actor : t \in Callers}
    \cup {loc[t].peer : t \in {u \in Callers : pc[u] \in {"detach", "detachAgain"}}}
Alive(o) == o \in actors \cup held \cup Pinned

\* An actor that does not exist, to which nothing points.
Unused(o) ==
  /\ ~Alive(o)
  /\ \A c \in callbacks : c[2][1] # o
  /\ \A t \in Callers : loc[t].peer # o

Goto(t, label) == pc' = [pc EXCEPT ![t] = label]
End(t) == Goto(t, "idle") /\ loc' = [loc EXCEPT ![t] = Rest]

\* Mutant: Clear and SetMemento lock exclusively where they share the lock.
ReadersToTheEnd ==
  {t \in Callers : pc[t] \in {"outer", "nested", "visit", "eraseRest", "read"}}

\* The threads that share mutexScheme, and those that wait for it or are about
\* to lock it exclusively.
Readers == {t \in Callers : pc[t] \in {"outer", "nested", "visit", "read"}}
Writers == {t \in Callers : pc[t] \in {"attach", "spawn", "erase", "eraseRest"}}
CanLock == Readers = {}
CanShare == WriterPreference => Writers = {}

\* Mutant: input ports keep a table too.
ConnectedBothWays(from, to) == {<<from, to>>, <<to, from>>}

\* PortOutput::Attach of both ports: the linkId that is there already keeps the
\* callback it has.
Connected(from, to) == {c \in {<<from, to>>, <<to, from>>} : c[1][2] \in Tables}
AttachPorts(new) ==
  /\ callbacks' = callbacks \cup
                    {c \in new : \A k \in callbacks : Named(k) # Named(c)}
  /\ reported' = reported \cup {Named(c) : c \in new}

\* Mutant: Detach leaves the link in the set of those that are reported.
DetachPortsUnreported(names) ==
  /\ callbacks' = {c \in callbacks : Named(c) \notin names}
  /\ linkData' = linkData \ names
  /\ UNCHANGED reported

\* PortOutput::Detach of the given names, with RemoveLinkUserDataFromMap.
DetachPorts(names) ==
  /\ callbacks' = {c \in callbacks : Named(c) \notin names}
  /\ reported' = reported \ names
  /\ linkData' = linkData \ names

\* The system has been given a scheme by SystemLocal::Init, and another one
\* before, which was saved.
Init ==
  /\ \E s \in Schemes :
       LET node(n) == <<<<n[1], 1>>, n[2]>>
           links == {l \in Keys(s.links) : {l[1][1], l[2][1]} \subseteq s.actors}
           new == UNION {Connected(node(l[1]), node(l[2])) : l \in links}
       IN /\ actors = s.actors \X {1}
          /\ callbacks = new
          /\ reported = {Named(c) : c \in new}
          /\ linkData = {Named(c) : c \in {k \in new : <<LinkOf(Named(k)), TRUE>> \in s.links}}
  /\ memento \in Schemes
  /\ held = {}
  /\ pc = [t \in Callers |-> "idle"]
  /\ loc = [t \in Callers |-> Rest]
  /\ orderly = TRUE
  /\ calls = 0

Cloning == {"clone", "cloneList", "cloneAlone"}
Removing == {"detach", "clear", "init", "restore"}
Connecting == {"connect", "append", "clone", "cloneList", "init", "restore"}

\* Actors are removed while no other thread removes actors or connects them.
Clash(j, k) ==
  \/ j \in Removing /\ k \in Removing \cup Connecting
  \/ k \in Removing /\ j \in Connecting

Begin(t, label, locals) ==
  /\ pc[t] = "idle" /\ calls < MaxCalls
  /\ calls' = calls + 1
  /\ Goto(t, label)
  /\ LET others == {u \in Callers \ {t} : pc[u] # "idle"} IN
       /\ loc' = [u \in Callers |->
                    CASE u = t -> [locals EXCEPT !.alone = (others = {})]
                      [] u \in others -> [loc[u] EXCEPT !.alone = FALSE]
                      [] OTHER -> loc[u]]
       /\ orderly' = (orderly /\ (\A u \in others : ~Clash(locals.job, loc[u].job))
                              /\ (locals.job = "attach" => locals.actor \notin held))
-----------------------------------------------------------------------------
(* Attach, Spawn, Detach *)

\* An actor that was never in the scheme, or was detached from it.
CallAttach(t, o) ==
  /\ Unused(o) \/ o \in held
  /\ Begin(t, "attach", [Rest EXCEPT !.job = "attach", !.actor = o])
  /\ callbacks' = IF Unused(o) THEN {c \in callbacks : c[1][1] # o} ELSE callbacks
  /\ reported' = IF Unused(o) THEN {r \in reported : r[1][1] # o} ELSE reported
  /\ linkData' = IF Unused(o) THEN {r \in linkData : r[1][1] # o} ELSE linkData
  /\ UNCHANGED <<actors, held, memento>>

\* The application has got an actor.  It lets go of one of the same id that it
\* had (bound), as Release may at any time.
Keep(o) == held' = {x \in held : Id(x) # Id(o)} \cup {o}

\* The map keeps the actor, unless it has one of that id.
Attach(t) ==
  /\ pc[t] = "attach" /\ CanLock
  /\ LET o == loc[t].actor IN
       \/ InScheme(Id(o)) /\ Keep(o) /\ UNCHANGED actors
       \/ ~InScheme(Id(o)) /\ held' = held \ {o} /\ actors' = actors \cup {o}
  /\ End(t)
  /\ UNCHANGED <<tables, memento, orderly, calls>>

\* Spawn creates an actor without links and attaches it.  Nothing is created
\* when every copy is in use (bound).
Spawn(t) ==
  /\ pc[t] = "spawn" /\ CanLock
  /\ LET i == loc[t].id
         created == {o \in Actors : Id(o) = i /\ Unused(o)}
     IN \/ /\ InScheme(i) \/ created = {}
           /\ IF loc[t].job \in Cloning THEN End(t) ELSE Goto(t, "actors") /\ UNCHANGED loc
           /\ UNCHANGED <<actors, tables>>
        \/ /\ ~InScheme(i) /\ created # {}
           /\ Goto(t, "actors")
           /\ UNCHANGED loc
           /\ LET o == CHOOSE x \in created : TRUE IN
                /\ actors' = actors \cup {o}
                /\ callbacks' = {c \in callbacks : c[1][1] # o}
                /\ reported' = {r \in reported : r[1][1] # o}
                /\ linkData' = {r \in linkData : r[1][1] # o}
  /\ UNCHANGED <<held, memento, orderly, calls>>

CallDetach(t, i) ==
  /\ Begin(t, "erase", [Rest EXCEPT !.job = "detach", !.id = i])
  /\ UNCHANGED <<actors, held, tables, memento>>

\* Detach first takes the actor out of the map ...
Erase(t) ==
  /\ pc[t] = "erase" /\ CanLock
  /\ \/ ~InScheme(loc[t].id) /\ End(t) /\ UNCHANGED actors
     \/ /\ InScheme(loc[t].id)
        /\ actors' = actors \ {ActorOf(loc[t].id)}
        /\ loc' = [loc EXCEPT ![t].actor = ActorOf(loc[t].id)]
        /\ Goto(t, "removeAll")
  /\ UNCHANGED <<held, tables, memento, orderly, calls>>

\* ... and then calls RemoveAllConectionsWithActor, which shares mutexScheme;
\* Clear and SetMemento call it with the lock shared already ("nested").
RemoveAllConections(t) ==
  /\ pc[t] \in {"removeAll", "nested"} /\ CanShare
  /\ loc' = [loc EXCEPT ![t].todo = actors \cup {loc[t].actor}]
  /\ Goto(t, "visit")
  /\ UNCHANGED <<actors, held, tables, memento, orderly, calls>>

\* Mutant: the actor's own observers are left alone.
VisitOthers(t) ==
  /\ pc[t] = "visit"
  /\ \E x \in loc[t].todo :
       /\ loc' = [loc EXCEPT ![t].todo = @ \ {x}]
       /\ DetachPorts(IF x \notin actors THEN {}
                      ELSE ({x} \X Ports) \X ({Id(loc[t].actor)} \X Ports))
  /\ UNCHANGED <<actors, held, memento, pc, orderly, calls>>

\* CleanObservers of the actor itself, DisconnectAll of those in the map.
Visit(t) ==
  /\ pc[t] = "visit"
  /\ LET target == loc[t].actor IN
       \E x \in loc[t].todo :
         LET names == IF x \notin actors THEN {}
                      ELSE ({x} \X Ports) \X ({Id(target)} \X Ports)
         IN /\ loc' = [loc EXCEPT ![t].todo = @ \ {x}]
            /\ callbacks' = {c \in callbacks : /\ Named(c) \notin names
                                               /\ ~(x = target /\ c[1][1] = x)}
            /\ reported' = reported \ names
            /\ linkData' = linkData \ names
  /\ UNCHANGED <<actors, held, memento, pc, orderly, calls>>

\* Detach gives the actor to the application.
VisitEnds(t) ==
  /\ pc[t] = "visit" /\ loc[t].todo = {}
  /\ IF loc[t].job = "detach"
     THEN Keep(loc[t].actor) /\ End(t)
     ELSE /\ loc' = [loc EXCEPT ![t].actor = None]
          /\ Goto(t, "outer")
          /\ UNCHANGED held
  /\ UNCHANGED <<actors, tables, memento, orderly, calls>>

\* The application lets go of a detached actor.
Release(o) ==
  /\ held' = held \ {o}
  /\ UNCHANGED <<actors, tables, memento, pc, loc, orderly, calls>>
-----------------------------------------------------------------------------
(* Clear, and the removal of actors in SetMemento *)

CallClear(t) ==
  /\ Begin(t, "share", [Rest EXCEPT !.job = "clear"])
  /\ UNCHANGED <<actors, held, tables, memento>>

Kept(t) == IF loc[t].job = "restore" THEN loc[t].plan.actors ELSE {}

\* Mutant: the test of updated is inverted.
ShareSchemeInverted(t) ==
  /\ pc[t] = "share" /\ CanShare
  /\ loc' = [loc EXCEPT ![t].targets = {o \in actors : Id(o) \in Kept(t)}]
  /\ Goto(t, "outer")
  /\ UNCHANGED <<actors, held, tables, memento, orderly, calls>>

ShareScheme(t) ==
  /\ pc[t] = "share" /\ CanShare
  /\ loc' = [loc EXCEPT ![t].targets = {o \in actors : Id(o) \notin Kept(t)}]
  /\ Goto(t, "outer")
  /\ UNCHANGED <<actors, held, tables, memento, orderly, calls>>

NextTarget(t) ==
  /\ pc[t] = "outer"
  /\ \/ \E o \in loc[t].targets :
          /\ loc' = [loc EXCEPT ![t].targets = @ \ {o}, ![t].actor = o]
          /\ Goto(t, "nested")
     \/ loc[t].targets = {} /\ Goto(t, "eraseRest") /\ UNCHANGED loc
  /\ UNCHANGED <<actors, held, tables, memento, orderly, calls>>

\* The actors are erased from the map, which may destroy them.
EraseRest(t) ==
  /\ pc[t] = "eraseRest" /\ CanLock
  /\ actors' = {o \in actors : Id(o) \in Kept(t)}
  /\ CASE loc[t].job = "clear" -> End(t)
       [] loc[t].job = "init" -> Goto(t, "actors") /\ UNCHANGED loc
       [] loc[t].job = "restore" -> Goto(t, "links") /\ UNCHANGED loc
  /\ UNCHANGED <<held, tables, memento, orderly, calls>>
-----------------------------------------------------------------------------
(* Connect, Disconnect, the user data of a link *)

\* What follows a call of Connect, Disconnect or SetLinkUserData.
Return(t, label) ==
  IF loc[t].job \in {"connect", "disconnect", "setData"}
  THEN End(t)
  ELSE /\ loc' = [loc EXCEPT ![t].link = None, ![t].actor = None, ![t].peer = None]
       /\ Goto(t, label)

CallConnect(t, r) ==
  /\ Begin(t, "find", [Rest EXCEPT !.job = "connect", !.link = r])
  /\ UNCHANGED <<actors, held, tables, memento>>

\* The two GetActorById of Connect.
FindSource(t) ==
  /\ pc[t] = "find" /\ CanShare
  /\ LET i == loc[t].link[1][1][1] IN
       \/ ~InScheme(i) /\ Return(t, "apply")
       \/ /\ InScheme(i)
          /\ loc' = [loc EXCEPT ![t].peer = ActorOf(i)]
          /\ Goto(t, "findOther")
  /\ UNCHANGED <<actors, held, tables, memento, orderly, calls>>

FindDestination(t) ==
  /\ pc[t] = "findOther" /\ CanShare
  /\ LET i == loc[t].link[1][2][1] IN
       \/ ~InScheme(i) /\ Return(t, "apply")
       \/ /\ InScheme(i)
          /\ loc' = [loc EXCEPT ![t].actor = ActorOf(i)]
          /\ Goto(t, "connect")
  /\ UNCHANGED <<actors, held, tables, memento, orderly, calls>>

\* ConnectTo: the first actor may have been destroyed.
Connect(t) ==
  /\ pc[t] = "connect"
  /\ LET l == loc[t].link[1]
         from == <<loc[t].peer, l[1][2]>>
         to == <<loc[t].actor, l[2][2]>>
     IN \/ /\ Alive(loc[t].peer)
           /\ AttachPorts(Connected(from, to))
           /\ IF loc[t].link[2]
              THEN /\ loc' = [loc EXCEPT ![t].actor = None, ![t].peer = None]
                   /\ Goto(t, "data")
              ELSE Return(t, "apply")
        \/ /\ ~Alive(loc[t].peer)
           /\ Return(t, "apply")
           /\ UNCHANGED <<callbacks, reported>>
  /\ UNCHANGED <<actors, held, linkData, memento, orderly, calls>>

CallSetLinkUserData(t, r) ==
  /\ Begin(t, "data", [Rest EXCEPT !.job = "setData", !.link = r])
  /\ UNCHANGED <<actors, held, tables, memento>>

\* SetLinkUserData: the link need not exist; data that is null is not reported.
SetLinkUserData(t) ==
  /\ pc[t] = "data" /\ CanShare
  /\ LET l == loc[t].link[1]
         found == InScheme(l[1][1]) /\ l[1][2] \in Tables
         name == <<<<ActorOf(l[1][1]), l[1][2]>>, l[2]>>
     IN linkData' = CASE found /\ loc[t].link[2] -> linkData \cup {name}
                      [] found /\ ~loc[t].link[2] -> linkData \ {name}
                      [] OTHER -> linkData
  /\ Return(t, "apply")
  /\ UNCHANGED <<actors, held, callbacks, reported, memento, orderly, calls>>

CallDisconnect(t, l) ==
  /\ Begin(t, "findBoth", [Rest EXCEPT !.job = "disconnect", !.link = <<l, FALSE>>])
  /\ UNCHANGED <<actors, held, tables, memento>>

\* The two GetActorById of Disconnect.
FindBoth(t) ==
  /\ pc[t] = "findBoth" /\ CanShare
  /\ LET l == loc[t].link[1] IN
       \/ ~(InScheme(l[1][1]) /\ InScheme(l[2][1])) /\ Return(t, "prune")
       \/ /\ InScheme(l[1][1]) /\ InScheme(l[2][1])
          /\ loc' = [loc EXCEPT ![t].peer = ActorOf(l[1][1]),
                                ![t].actor = ActorOf(l[2][1])]
          /\ Goto(t, "detach")
  /\ UNCHANGED <<actors, held, tables, memento, orderly, calls>>

\* actor1->Disconnect detaches the two ports from each other.
DisconnectFirst(t) ==
  /\ pc[t] = "detach"
  /\ LET l == loc[t].link[1] IN
       DetachPorts({<<<<loc[t].peer, l[1][2]>>, l[2]>>,
                    <<<<loc[t].actor, l[2][2]>>, l[1]>>})
  /\ Goto(t, "detachAgain")
  /\ UNCHANGED <<actors, held, memento, loc, orderly, calls>>

\* actor2->Disconnect, for which port1 is looked up in actor2 under the id of
\* port2: port2 is told to detach the ports of its own id.
DisconnectSecond(t) ==
  /\ pc[t] = "detachAgain"
  /\ LET l == loc[t].link[1]
         port2 == <<loc[t].actor, l[2][2]>>
     IN DetachPorts({<<port2, <<l[1][1], l[2][2]>>>>, <<port2, l[2]>>})
  /\ Return(t, "prune")
  /\ UNCHANGED <<actors, held, memento, orderly, calls>>
-----------------------------------------------------------------------------
(* Init, Append, Clone, Scheme, SetMemento *)

\* Init(scheme) is Clear() and what Append(scheme) does.
CallInit(t, s) ==
  /\ Begin(t, "share", [Rest EXCEPT !.job = "init", !.plan = s, !.ids = s.actors])
  /\ UNCHANGED <<actors, held, tables, memento>>

CallAppend(t, s) ==
  /\ Begin(t, "actors", [Rest EXCEPT !.job = "append", !.plan = s, !.ids = s.actors])
  /\ UNCHANGED <<actors, held, tables, memento>>

CallSetMemento(t) ==
  /\ Begin(t, "actors", [Rest EXCEPT !.job = "restore", !.plan = memento,
                                     !.ids = memento.actors])
  /\ UNCHANGED <<actors, held, tables, memento>>

\* The next actor of the scheme; SetMemento only gives its properties to one
\* that is there.
NextActor(t) ==
  /\ pc[t] = "actors"
  /\ loc[t].job = "restore" => CanShare
  /\ \E i \in loc[t].ids :
       IF loc[t].job = "restore" /\ InScheme(i)
       THEN loc' = [loc EXCEPT ![t].ids = @ \ {i}] /\ UNCHANGED pc
       ELSE loc' = [loc EXCEPT ![t].ids = @ \ {i}, ![t].id = i] /\ Goto(t, "spawn")
  /\ UNCHANGED <<actors, held, tables, memento, orderly, calls>>

ActorsEnd(t) ==
  /\ pc[t] = "actors" /\ loc[t].ids = {}
  /\ CASE loc[t].job = "restore" -> Goto(t, "share") /\ UNCHANGED loc
       [] loc[t].job \in {"clone", "cloneList"} -> Goto(t, "links") /\ UNCHANGED loc
       [] loc[t].job = "cloneAlone" -> End(t)
       [] loc[t].job \in {"init", "append"} ->
            /\ loc' = [loc EXCEPT ![t].links = loc[t].plan.links]
            /\ Goto(t, "apply")
  /\ UNCHANGED <<actors, held, tables, memento, orderly, calls>>

\* Clone(id, true), Clone({id}, true) and Clone(id, false).
CallClone(t, i, job) ==
  /\ Begin(t, "original", [Rest EXCEPT !.job = job, !.original = i])
  /\ UNCHANGED <<actors, held, tables, memento>>

\* The clone gets an id that nothing has.
CloneActor(t) ==
  /\ pc[t] = "original" /\ CanShare
  /\ \/ ~InScheme(loc[t].original) /\ End(t)
     \/ /\ InScheme(loc[t].original)
        /\ LET new == {i \in Ids : /\ \A o \in Actors : Id(o) = i => ~Alive(o)
                                   /\ \A r \in reported : r[2][1] # i
                                   /\ \A u \in Callers : loc[u].id # i}
           IN \/ \E i \in new :
                   loc' = [loc EXCEPT ![t].id = i] /\ Goto(t, "spawn")
              \/ new = {} /\ End(t)
  /\ UNCHANGED <<actors, held, tables, memento, orderly, calls>>

CallScheme(t) ==
  /\ Begin(t, "links", [Rest EXCEPT !.job = "scheme"])
  /\ UNCHANGED <<actors, held, tables, memento>>

\* Scheme() and Links() go over the actors with mutexScheme shared.
BeginLinks(t) ==
  /\ pc[t] = "links" /\ CanShare
  /\ loc' = [loc EXCEPT ![t].todo = actors]
  /\ Goto(t, "read")
  /\ UNCHANGED <<actors, held, tables, memento, orderly, calls>>

LinksOfActor(t) ==
  /\ pc[t] = "read"
  /\ \E o \in loc[t].todo :
       loc' = [loc EXCEPT ![t].todo = @ \ {o},
                          ![t].read = @ \cup {<<LinkOf(r), r \in linkData>> :
                                              r \in {x \in reported : x[1][1] = o}}]
  /\ UNCHANGED <<actors, held, tables, memento, pc, orderly, calls>>

\* The links of the original with the clone in its place.  Clone(id, true) then
\* connects all links once more, Clone(ids, true) those that were changed.
Renamed(t, l) ==
  LET new(n) == IF n[1] = loc[t].original THEN <<loc[t].id, n[2]>> ELSE n
  IN <<new(l[1]), new(l[2])>>
CloneLinks(t) ==
  LET read == {r \in loc[t].read : loc[t].job = "cloneList" => Renamed(t, r[1]) # r[1]}
  IN {<<Renamed(t, r[1]), r[2]>> : r \in read}

LinksEnd(t) ==
  /\ pc[t] = "read" /\ loc[t].todo = {}
  /\ \/ /\ loc[t].job = "scheme"
        /\ memento' = [actors |-> {Id(o) : o \in actors}, links |-> loc[t].read]
        /\ End(t)
     \/ /\ loc[t].job = "restore"
        /\ loc' = [loc EXCEPT ![t].links = loc[t].plan.links]
        /\ Goto(t, "apply")
        /\ UNCHANGED memento
     \/ /\ loc[t].job \in Cloning
        /\ loc' = [loc EXCEPT ![t].links = CloneLinks(t), ![t].read = {}]
        /\ Goto(t, "apply")
        /\ UNCHANGED memento
  /\ UNCHANGED <<actors, held, tables, orderly, calls>>

\* The links of the scheme: new ones are connected, and a link whose data
\* differs from what was read gets its data.
ApplyLink(t) ==
  /\ pc[t] = "apply"
  /\ \E r \in loc[t].links :
       /\ loc' = [loc EXCEPT ![t].links = @ \ {r}, ![t].link = r]
       /\ Goto(t, CASE r[1] \notin Keys(loc[t].read) -> "find"
                    [] r \in loc[t].read -> "apply"
                    [] OTHER -> "data")
  /\ UNCHANGED <<actors, held, tables, memento, orderly, calls>>

\* Mutant: links are only added.
ApplyEndsKeeping(t) ==
  /\ pc[t] = "apply" /\ loc[t].links = {}
  /\ IF loc[t].job = "restore"
     THEN loc' = [loc EXCEPT ![t].link = None] /\ Goto(t, "prune")
     ELSE End(t)
  /\ UNCHANGED <<actors, held, tables, memento, orderly, calls>>

\* SetMemento then disconnects the links it read that the scheme has not.
ApplyEnds(t) ==
  /\ pc[t] = "apply" /\ loc[t].links = {}
  /\ IF loc[t].job = "restore"
     THEN /\ loc' = [loc EXCEPT ![t].link = None, ![t].links =
                       {r \in loc[t].read : r[1] \notin Keys(loc[t].plan.links)}]
          /\ Goto(t, "prune")
     ELSE End(t)
  /\ UNCHANGED <<actors, held, tables, memento, orderly, calls>>

PruneLink(t) ==
  /\ pc[t] = "prune"
  /\ \/ \E r \in loc[t].links :
          /\ loc' = [loc EXCEPT ![t].links = @ \ {r}, ![t].link = r]
          /\ Goto(t, "findBoth")
     \/ loc[t].links = {} /\ End(t)
  /\ UNCHANGED <<actors, held, tables, memento, orderly, calls>>
-----------------------------------------------------------------------------
Call(t) ==
  \/ \E o \in Actors : CallAttach(t, o)
  \/ \E i \in Ids : CallDetach(t, i) \/ \E job \in Cloning : CallClone(t, i, job)
  \/ \E l \in Links :
       \/ CallDisconnect(t, l)
       \/ \E d \in BOOLEAN : CallConnect(t, <<l, d>>) \/ CallSetLinkUserData(t, <<l, d>>)
  \/ \E s \in Schemes : CallInit(t, s) \/ CallAppend(t, s)
  \/ CallClear(t) \/ CallScheme(t) \/ CallSetMemento(t)

Step(t) ==
  \/ Attach(t) \/ Spawn(t) \/ Erase(t)
  \/ RemoveAllConections(t) \/ Visit(t) \/ VisitEnds(t)
  \/ ShareScheme(t) \/ NextTarget(t) \/ EraseRest(t)
  \/ FindSource(t) \/ FindDestination(t) \/ Connect(t) \/ SetLinkUserData(t)
  \/ FindBoth(t) \/ DisconnectFirst(t) \/ DisconnectSecond(t)
  \/ NextActor(t) \/ ActorsEnd(t) \/ CloneActor(t)
  \/ BeginLinks(t) \/ LinksOfActor(t) \/ LinksEnd(t)
  \/ ApplyLink(t) \/ ApplyEnds(t) \/ PruneLink(t)

Next ==
  \/ \E t \in Callers : Call(t) \/ Step(t)
  \/ \E o \in held : Release(o)

Spec == Init /\ [][Next]_vars

\* An operation that has begun goes on when it can.
FairSpec == Spec /\ \A t \in Callers : WF_vars(Step(t))
-----------------------------------------------------------------------------
\* The values the variables range over.
TypeOK ==
  /\ actors \subseteq Actors /\ held \subseteq Actors
  /\ callbacks \subseteq (Actors \X Tables) \X (Actors \X Ports)
  /\ reported \subseteq (Actors \X Tables) \X Nodes
  /\ linkData \subseteq (Actors \X Tables) \X Nodes
  /\ memento \in [actors : SUBSET Ids, links : SUBSET LinkRecords]
  /\ \A t \in Callers : loc[t].actor \in Actors \cup {None}
  /\ orderly \in BOOLEAN /\ calls \in 0..MaxCalls

\* No publisher of an actor that exists calls a port of one that was destroyed,
\* whether the actor was released after Detach or erased by Clear or SetMemento:
\* CleanObservers and DisconnectAll together have cut every link.
NoDanglingCallback ==
  orderly => \A c \in callbacks : Alive(c[1][1]) => Alive(c[2][1])

\* Links() of the actors in the scheme lead to actors in the scheme, but for the
\* actor that a Detach has erased and is still disconnecting.
LinksInScheme ==
  orderly =>
    \A r \in reported : r[1][1] \in actors =>
      \/ InScheme(r[2][1])
      \/ \E t \in Callers :
           /\ pc[t] \in {"removeAll", "visit"} /\ loc[t].job = "detach"
           /\ loc[t].id = r[2][1]

\* What Links() reports of the actors in the scheme is what their publishers call:
\* every callback is reported, and every reported link has its callback, but for
\* the links of an actor that Clear, Init or SetMemento is about to erase.
ReportedIsCalled ==
  orderly =>
    /\ \A c \in callbacks : Named(c) \in reported
    /\ \A r \in reported : r[1][1] \in actors =>
         \/ \E c \in callbacks : Named(c) = r
         \/ \E t \in Callers :
              /\ loc[t].job \in {"clear", "init", "restore"}
              /\ pc[t] \in {"outer", "nested", "visit", "eraseRest"}
              /\ Id(r[1][1]) \notin Kept(t)

\* A scheme whose links lead from output ports to input ports of its actors, each
\* of them with one value of its data.
WellFormed(m) ==
  /\ \A l \in Keys(m.links) : /\ {l[1][1], l[2][1]} \subseteq m.actors
                              /\ l[1][2] \in Tables /\ l[2][2] \notin Tables
  /\ \A r, q \in m.links : r[1] = q[1] => r = q

SchemeActors == {Id(o) : o \in actors}
SchemeLinks == {LinkOf(r) : r \in {x \in reported : x[1][1] \in actors}}
Delivering == {LinkOf(Named(c)) : c \in {x \in callbacks : {x[1][1], x[2][1]} \subseteq actors}}
DataLinks == {LinkOf(r) : r \in {x \in linkData : x[1][1] \in actors}}

\* SetMemento and Init, when nothing else is under way, leave the well-formed scheme
\* they were given, whatever there was before: its actors, its links and no others,
\* every link delivering to the actor that has the id now, and the user data of
\* the links that have some.
SchemeGiven ==
  \A t \in Callers :
    LET m == loc[t].plan IN
      /\ orderly /\ loc[t].alone /\ loc[t].links = {} /\ WellFormed(m)
      /\ <<loc[t].job, pc[t]>> \in {<<"restore", "prune">>, <<"init", "apply">>}
      => /\ SchemeActors = m.actors
         /\ SchemeLinks = Keys(m.links) /\ Delivering = SchemeLinks
         /\ {r[1] : r \in {x \in m.links : x[2]}} \subseteq DataLinks

\* Every operation returns: none waits for mutexScheme while it holds it in a
\* way that keeps itself out.
OperationsReturn == \A t \in Callers : (pc[t] # "idle") ~> (pc[t] = "idle")
=============================================================================
