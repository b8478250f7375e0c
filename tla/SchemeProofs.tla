---------------------------- MODULE SchemeProofs ----------------------------
(* The safety of Scheme for any number of callers, actors, ports and links: *)
(* actors that are removed leave no callback and no link behind, what is    *)
(* reported is called, and a scheme is restored as it was given.            *)
EXTENDS Scheme, TLAPS

Clearing == {"clear", "init", "restore"}
Applying == {"init", "append", "restore", "clone", "cloneList"}
Jobs ==
  Clearing \cup Applying \cup Cloning
    \cup {"none", "attach", "detach", "connect", "disconnect", "setData", "scheme"}
Labels ==
  {"idle", "attach", "spawn", "erase", "removeAll", "visit", "share", "outer",
   "nested", "eraseRest", "find", "findOther", "connect", "data", "findBoth",
   "detach", "detachAgain", "actors", "original", "links", "read", "apply", "prune"}

Plans == [actors : SUBSET Ids, links : SUBSET LinkRecords]
Locals ==
  [job : Jobs, alone : BOOLEAN, plan : Plans,
   ids : SUBSET Ids, id : Ids \cup {None}, original : Ids \cup {None},
   targets : SUBSET Actors, todo : SUBSET Actors,
   actor : Actors \cup {None}, peer : Actors \cup {None},
   links : SUBSET LinkRecords, link : LinkRecords \cup {None},
   read : SUBSET LinkRecords]

\* The jobs in which a caller comes to a label ...
JobOK(p, v) ==
  /\ p = "idle" => v.job = "none"
  /\ p = "attach" => v.job = "attach"
  /\ p \in {"erase", "removeAll"} => v.job = "detach"
  /\ p = "visit" => v.job \in Clearing \cup {"detach"}
  /\ p \in {"share", "outer", "nested", "eraseRest"} => v.job \in Clearing
  /\ p = "original" => v.job \in Cloning
  /\ p \in {"actors", "spawn"} => v.job \in Applying \cup {"cloneAlone"}
  /\ p \in {"links", "read"} => v.job \in {"scheme", "restore", "clone", "cloneList"}
  /\ p = "apply" => v.job \in Applying
  /\ p \in {"find", "findOther", "connect"} => v.job \in Applying \cup {"connect"}
  /\ p = "data" => v.job \in Applying \cup {"connect", "setData"}
  /\ p \in {"findBoth", "detach", "detachAgain"} => v.job \in {"disconnect", "restore"}
  /\ p = "prune" => v.job = "restore"

\* ... and what its local variables hold there.
LocalOK(p, v) ==
  /\ JobOK(p, v)
  /\ p \in {"attach", "removeAll", "nested", "visit", "connect", "detach", "detachAgain"}
       => v.actor \in Actors
  /\ p \in {"findOther", "connect", "detach", "detachAgain"} => v.peer \in Actors
  /\ p \in {"find", "findOther", "connect", "data", "findBoth", "detach", "detachAgain"}
       => v.link \in LinkRecords
  /\ p = "spawn" \/ v.job = "detach" \/ (v.job \in Cloning /\ p # "original") => v.id \in Ids
  /\ v.job = "detach" /\ p \in {"removeAll", "visit"} => Id(v.actor) = v.id

TypeInv ==
  /\ TypeOK
  /\ loc \in [Callers -> Locals] /\ pc \in [Callers -> Labels]
  /\ \A t \in Callers : LocalOK(pc[t], loc[t])

\* A step of caller t is its own.
Moves(t) ==
  /\ loc' \in [Callers -> Locals] /\ pc' \in [Callers -> Labels]
  /\ \A u \in Callers \ {t} : loc'[u] = loc[u] /\ pc'[u] = pc[u]
  /\ LocalOK(pc'[t], loc'[t])
  /\ loc'[t].job \in {loc[t].job, "none"}
  /\ orderly' = orderly
-----------------------------------------------------------------------------
(* Type correctness *)

\* The parts of actors, of links with their data, and of the names of links.
LEMMA ActorFacts ==
  /\ \A o \in Actors : Id(o) \in Ids
  /\ None \notin Actors /\ None \notin Ids /\ None \notin LinkRecords
BY SizesAssumption DEF Actors, Id

LEMMA LinkFacts ==
  ASSUME NEW r \in LinkRecords
  PROVE  /\ r[1] \in Nodes \X Nodes /\ r[2] \in BOOLEAN /\ r = <<r[1], r[2]>>
         /\ r[1][1] \in Nodes /\ r[1][2] \in Nodes
         /\ r[1][1][1] \in Ids /\ r[1][1][2] \in Ports
         /\ r[1][2][1] \in Ids /\ r[1][2][2] \in Ports
BY DEF LinkRecords, Nodes

LEMMA ReportFacts ==
  ASSUME NEW r \in (Actors \X Tables) \X Nodes
  PROVE  /\ r[1][1] \in Actors /\ r[2] \in Nodes /\ r[2][1] \in Ids
         /\ LinkOf(r) \in Nodes \X Nodes
BY ActorFacts, SchemesAssumption DEF Nodes, LinkOf

LEMMA SchemeFacts ==
  /\ Schemes \subseteq Plans
  /\ \A l \in Links, d \in BOOLEAN : <<l, d>> \in LinkRecords
BY SchemesAssumption DEF Plans, LinkRecords

LEMMA ActorOfFacts ==
  ASSUME NEW i, InScheme(i) PROVE ActorOf(i) \in actors /\ Id(ActorOf(i)) = i
BY DEF InScheme, ActorOf

LEMMA RestFacts == Rest \in Locals /\ LocalOK("idle", Rest) /\ Rest.job = "none"
BY DEF Rest, Locals, LocalOK, JobOK, Jobs, Plans, Cloning, Applying, Clearing

\* An operation ends.
LEMMA EndMoves ==
  ASSUME TypeInv, NEW t \in Callers, End(t), orderly' = orderly
  PROVE  Moves(t) /\ loc'[t] = Rest /\ pc'[t] = "idle"
BY RestFacts DEF TypeInv, End, Goto, Moves, Labels

\* It goes on, with other values in its locals.
LEMMA GotoMoves ==
  ASSUME TypeInv, NEW t \in Callers, NEW p \in Labels, NEW v \in Locals,
         loc' = [loc EXCEPT ![t] = v], Goto(t, p), orderly' = orderly,
         LocalOK(p, v), v.job = loc[t].job
  PROVE  Moves(t) /\ loc'[t] = v /\ pc'[t] = p
BY DEF TypeInv, Goto, Moves

\* Every step is of its caller only and leaves it what the next label needs.
LEMMA StepMoves ==
  ASSUME TypeInv, NEW t \in Callers, Step(t)
  PROVE  Moves(t)
<1>t. /\ loc \in [Callers -> Locals] /\ loc[t] \in Locals
      /\ pc[t] \in Labels /\ LocalOK(pc[t], loc[t])
      /\ actors \subseteq Actors
  BY DEF TypeInv, TypeOK
<1>o. orderly' = orderly
  BY DEF Step, Attach, Spawn, Erase, RemoveAllConections, Visit, VisitEnds, ShareScheme,
         NextTarget, EraseRest, FindSource, FindDestination, Connect, SetLinkUserData,
         FindBoth, DisconnectFirst, DisconnectSecond, NextActor, ActorsEnd, CloneActor,
         BeginLinks, LinksOfActor, LinksEnd, ApplyLink, ApplyEnds, PruneLink
<1> USE ActorFacts
<1>e. ASSUME End(t) PROVE Moves(t)
  BY <1>e, <1>o, EndMoves
\* The label changes and nothing else.
<1>g. ASSUME NEW p \in Labels, Goto(t, p), loc' = loc, LocalOK(p, loc[t]) PROVE Moves(t)
  BY <1>t, <1>o, <1>g DEF TypeInv, Goto, Moves
<1>r. ASSUME NEW p \in Labels, Return(t, p), pc[t] \in {"find", "findOther", "connect", "data", "findBoth", "detachAgain"},
             p = IF pc[t] \in {"findBoth", "detachAgain"} THEN "prune" ELSE "apply"
      PROVE  Moves(t)
  <2> DEFINE v == [loc[t] EXCEPT !.link = None, !.actor = None, !.peer = None]
  <2>1. CASE loc[t].job \in {"connect", "disconnect", "setData"}
    BY <1>e, <1>r, <2>1 DEF Return
  <2>2. CASE loc[t].job \notin {"connect", "disconnect", "setData"}
    <3>1. v \in Locals /\ v.job = loc[t].job /\ v.id = loc[t].id
      BY <1>t DEF Locals
    <3>2. LocalOK(p, v)
      BY <1>t, <1>r, <2>2, <3>1 DEF LocalOK, JobOK, Applying, Cloning
    <3>3. loc' = [loc EXCEPT ![t] = v] /\ Goto(t, p)
      BY <1>r, <2>2 DEF Return
    <3> QED BY <1>o, <3>1, <3>2, <3>3, GotoMoves
  <2> QED BY <2>1, <2>2
<1>1. CASE Attach(t)
  BY <1>1, <1>e DEF Attach
<1>2. CASE Spawn(t)
  BY <1>2, <1>e, <1>g, <1>t DEF Spawn, Labels, LocalOK, JobOK
<1>3. CASE Erase(t)
  <2> DEFINE v == [loc[t] EXCEPT !.actor = ActorOf(loc[t].id)]
  <2>1. CASE InScheme(loc[t].id)
    <3>1. ActorOf(loc[t].id) \in Actors /\ Id(ActorOf(loc[t].id)) = loc[t].id
      BY <1>t, <2>1, ActorOfFacts
    <3>2. /\ v \in Locals /\ v.job = loc[t].job /\ v.id = loc[t].id
          /\ v.actor = ActorOf(loc[t].id)
      BY <1>t, <3>1 DEF Locals
    <3>3. LocalOK("removeAll", v) /\ "removeAll" \in Labels
      BY <1>3, <1>t, <3>1, <3>2 DEF Erase, LocalOK, JobOK, Labels
    <3>4. loc' = [loc EXCEPT ![t] = v] /\ Goto(t, "removeAll")
      BY <1>3, <2>1 DEF Erase
    <3> QED BY <1>o, <3>2, <3>3, <3>4, GotoMoves
  <2> QED BY <1>3, <1>e, <2>1 DEF Erase
<1>4. CASE RemoveAllConections(t)
  <2> DEFINE v == [loc[t] EXCEPT !.todo = actors \cup {loc[t].actor}]
  <2>1. loc[t].actor \in Actors
    BY <1>4, <1>t DEF RemoveAllConections, LocalOK
  <2>2. /\ v \in Locals /\ v.job = loc[t].job /\ v.id = loc[t].id /\ v.actor = loc[t].actor
    BY <1>t, <2>1 DEF Locals
  <2>3. LocalOK("visit", v) /\ "visit" \in Labels
    BY <1>4, <1>t, <2>1, <2>2 DEF RemoveAllConections, LocalOK, JobOK, Labels, Clearing, Cloning
  <2> QED BY <1>4, <1>o, <2>2, <2>3, GotoMoves DEF RemoveAllConections
<1>5. CASE Visit(t)
  <2>1. PICK x \in loc[t].todo : loc' = [loc EXCEPT ![t].todo = @ \ {x}]
    BY <1>5 DEF Visit
  <2> DEFINE v == [loc[t] EXCEPT !.todo = @ \ {x}]
  <2>2. /\ v \in Locals /\ v.job = loc[t].job /\ v.id = loc[t].id /\ v.actor = loc[t].actor
    BY <1>t DEF Locals
  <2>3. LocalOK(pc[t], v) /\ pc[t] = "visit"
    BY <1>5, <1>t, <2>2 DEF Visit, LocalOK, JobOK
  <2>4. Goto(t, pc[t])
    BY <1>5 DEF Visit, Goto, TypeInv
  <2> QED BY <1>t, <1>o, <2>1, <2>2, <2>3, <2>4, GotoMoves
<1>6. CASE VisitEnds(t)
  <2> DEFINE v == [loc[t] EXCEPT !.actor = None]
  <2>1. CASE loc[t].job # "detach"
    <3>1. v \in Locals /\ v.job = loc[t].job /\ v.id = loc[t].id
      BY <1>t DEF Locals
    <3>2. LocalOK("outer", v) /\ "outer" \in Labels
      BY <1>6, <1>t, <2>1, <3>1 DEF VisitEnds, LocalOK, JobOK, Labels
    <3> QED BY <1>6, <1>o, <2>1, <3>1, <3>2, GotoMoves DEF VisitEnds
  <2> QED BY <1>6, <1>e, <2>1 DEF VisitEnds
<1>7. CASE ShareScheme(t)
  <2> DEFINE w == {o \in actors : Id(o) \notin Kept(t)}
             v == [loc[t] EXCEPT !.targets = w]
  <2>1. v \in Locals /\ v.job = loc[t].job /\ v.id = loc[t].id
    BY <1>t DEF Locals
  <2>2. LocalOK("outer", v) /\ "outer" \in Labels
    BY <1>7, <1>t, <2>1 DEF ShareScheme, LocalOK, JobOK, Labels
  <2> QED BY <1>7, <1>o, <2>1, <2>2, GotoMoves DEF ShareScheme
<1>8. CASE NextTarget(t)
  <2>1. ASSUME NEW o \in loc[t].targets, Goto(t, "nested"),
               loc' = [loc EXCEPT ![t].targets = @ \ {o}, ![t].actor = o]
        PROVE  Moves(t)
    <3> DEFINE v == [loc[t] EXCEPT !.targets = @ \ {o}, !.actor = o]
    <3>1. o \in Actors
      BY <1>t DEF Locals
    <3>2. v \in Locals /\ v.job = loc[t].job /\ v.id = loc[t].id /\ v.actor = o
      BY <1>t, <3>1 DEF Locals
    <3>3. LocalOK("nested", v) /\ "nested" \in Labels
      BY <1>8, <1>t, <3>1, <3>2 DEF NextTarget, LocalOK, JobOK, Labels
    <3>4. loc' = [loc EXCEPT ![t] = v]
      BY <1>t, <2>1
    <3> QED BY <1>o, <2>1, <3>2, <3>3, <3>4, GotoMoves
  <2>2. CASE Goto(t, "eraseRest") /\ loc' = loc
    BY <1>8, <1>t, <1>g, <2>2 DEF NextTarget, LocalOK, JobOK, Labels
  <2> QED BY <1>8, <2>1, <2>2 DEF NextTarget
<1>9. CASE EraseRest(t)
  <2>1. pc[t] = "eraseRest" /\ loc[t].job \in Clearing
    BY <1>9, <1>t DEF EraseRest, LocalOK, JobOK
  <2>2. CASE loc[t].job = "clear"
    BY <1>9, <1>e, <2>2 DEF EraseRest
  <2>3. CASE loc[t].job = "init"
    BY <1>9, <1>g, <1>t, <2>1, <2>3 DEF EraseRest, LocalOK, JobOK, Labels, Applying
  <2>4. CASE loc[t].job = "restore"
    BY <1>9, <1>g, <1>t, <2>1, <2>4 DEF EraseRest, LocalOK, JobOK, Labels, Applying
  <2> QED BY <2>1, <2>2, <2>3, <2>4 DEF Clearing
<1>10. CASE FindSource(t)
  <2> DEFINE i == loc[t].link[1][1][1]
             v == [loc[t] EXCEPT !.peer = ActorOf(i)]
  <2>1. CASE InScheme(i) /\ loc' = [loc EXCEPT ![t].peer = ActorOf(i)] /\ Goto(t, "findOther")
    <3>1. ActorOf(i) \in Actors
      BY <1>t, <2>1, ActorOfFacts
    <3>2. /\ v \in Locals /\ v.job = loc[t].job /\ v.id = loc[t].id /\ v.peer = ActorOf(i)
          /\ v.link = loc[t].link
      BY <1>t, <3>1 DEF Locals
    <3>3. LocalOK("findOther", v) /\ "findOther" \in Labels
      BY <1>10, <1>t, <3>1, <3>2 DEF FindSource, LocalOK, JobOK, Labels
    <3> QED BY <1>o, <2>1, <3>2, <3>3, GotoMoves
  <2> QED BY <1>10, <1>r, <2>1 DEF FindSource, Labels
<1>11. CASE FindDestination(t)
  <2> DEFINE i == loc[t].link[1][2][1]
             v == [loc[t] EXCEPT !.actor = ActorOf(i)]
  <2>1. CASE InScheme(i) /\ loc' = [loc EXCEPT ![t].actor = ActorOf(i)] /\ Goto(t, "connect")
    <3>1. ActorOf(i) \in Actors
      BY <1>t, <2>1, ActorOfFacts
    <3>2. /\ v \in Locals /\ v.job = loc[t].job /\ v.id = loc[t].id /\ v.actor = ActorOf(i)
          /\ v.peer = loc[t].peer /\ v.link = loc[t].link
      BY <1>t, <3>1 DEF Locals
    <3>3. LocalOK("connect", v) /\ "connect" \in Labels
      BY <1>11, <1>t, <3>1, <3>2 DEF FindDestination, LocalOK, JobOK, Labels
    <3> QED BY <1>o, <2>1, <3>2, <3>3, GotoMoves
  <2> QED BY <1>11, <1>r, <2>1 DEF FindDestination, Labels
<1>12. CASE Connect(t)
  <2> DEFINE v == [loc[t] EXCEPT !.actor = None, !.peer = None]
  <2>1. CASE loc' = [loc EXCEPT ![t].actor = None, ![t].peer = None] /\ Goto(t, "data")
    <3>1. /\ v \in Locals /\ v.job = loc[t].job /\ v.id = loc[t].id /\ v.link = loc[t].link
      BY <1>t DEF Locals
    <3>2. LocalOK("data", v) /\ "data" \in Labels
      BY <1>12, <1>t, <3>1 DEF Connect, LocalOK, JobOK, Labels
    <3>3. loc' = [loc EXCEPT ![t] = v]
      BY <1>t, <2>1
    <3> QED BY <1>o, <2>1, <3>1, <3>2, <3>3, GotoMoves
  <2> QED BY <1>12, <1>r, <2>1 DEF Connect, Labels
<1>13. CASE SetLinkUserData(t)
  BY <1>13, <1>r DEF SetLinkUserData, Labels
<1>14. CASE FindBoth(t)
  <2> DEFINE l == loc[t].link[1]
             v == [loc[t] EXCEPT !.peer = ActorOf(l[1][1]), !.actor = ActorOf(l[2][1])]
  <2>1. CASE /\ InScheme(l[1][1]) /\ InScheme(l[2][1])
             /\ loc' = [loc EXCEPT ![t].peer = ActorOf(l[1][1]), ![t].actor = ActorOf(l[2][1])]
             /\ Goto(t, "detach")
    <3>1. ActorOf(l[1][1]) \in Actors /\ ActorOf(l[2][1]) \in Actors
      BY <1>t, <2>1, ActorOfFacts
    <3>2. /\ v \in Locals /\ v.job = loc[t].job /\ v.id = loc[t].id /\ v.link = loc[t].link
          /\ v.peer = ActorOf(l[1][1]) /\ v.actor = ActorOf(l[2][1])
      BY <1>t, <3>1 DEF Locals
    <3>3. LocalOK("detach", v) /\ "detach" \in Labels
      BY <1>14, <1>t, <3>1, <3>2 DEF FindBoth, LocalOK, JobOK, Labels, Cloning
    <3>4. loc' = [loc EXCEPT ![t] = v]
      BY <1>t, <2>1
    <3> QED BY <1>o, <2>1, <3>2, <3>3, <3>4, GotoMoves
  <2> QED BY <1>14, <1>r, <2>1 DEF FindBoth, Labels
<1>15. CASE DisconnectFirst(t)
  BY <1>15, <1>g, <1>t DEF DisconnectFirst, LocalOK, JobOK, Labels
<1>16. CASE DisconnectSecond(t)
  BY <1>16, <1>r DEF DisconnectSecond, Labels
<1>17. CASE NextActor(t)
  <2>1. ASSUME NEW i \in loc[t].ids, loc' = [loc EXCEPT ![t].ids = @ \ {i}], pc' = pc
        PROVE  Moves(t)
    <3> DEFINE v == [loc[t] EXCEPT !.ids = @ \ {i}]
    <3>1. v \in Locals /\ v.job = loc[t].job /\ v.id = loc[t].id
      BY <1>t DEF Locals
    <3>2. LocalOK("actors", v) /\ "actors" \in Labels
      BY <1>17, <1>t, <3>1 DEF NextActor, LocalOK, JobOK, Labels
    <3>3. Goto(t, "actors")
      BY <1>17, <2>1 DEF NextActor, Goto, TypeInv
    <3> QED BY <1>o, <2>1, <3>1, <3>2, <3>3, GotoMoves
  <2>2. ASSUME NEW i \in loc[t].ids, Goto(t, "spawn"),
               loc' = [loc EXCEPT ![t].ids = @ \ {i}, ![t].id = i]
        PROVE  Moves(t)
    <3> DEFINE v == [loc[t] EXCEPT !.ids = @ \ {i}, !.id = i]
    <3>1. i \in Ids
      BY <1>t DEF Locals
    <3>2. v \in Locals /\ v.job = loc[t].job /\ v.id = i
      BY <1>t, <3>1 DEF Locals
    <3>3. LocalOK("spawn", v) /\ "spawn" \in Labels
      BY <1>17, <1>t, <3>1, <3>2 DEF NextActor, LocalOK, JobOK, Labels, Applying, Cloning
    <3>4. loc' = [loc EXCEPT ![t] = v]
      BY <1>t, <2>2
    <3> QED BY <1>o, <2>2, <3>2, <3>3, <3>4, GotoMoves
  <2> QED BY <1>17, <2>1, <2>2 DEF NextActor
<1>18. CASE ActorsEnd(t)
  <2>1. pc[t] = "actors" /\ loc[t].job \in Applying \cup {"cloneAlone"}
    BY <1>18, <1>t DEF ActorsEnd, LocalOK, JobOK
  <2>2. CASE loc[t].job = "restore"
    BY <1>18, <1>g, <1>t, <2>1, <2>2 DEF ActorsEnd, LocalOK, JobOK, Labels, Clearing
  <2>3. CASE loc[t].job \in {"clone", "cloneList"}
    BY <1>18, <1>g, <1>t, <2>1, <2>3 DEF ActorsEnd, LocalOK, JobOK, Labels
  <2>4. CASE loc[t].job = "cloneAlone"
    BY <1>18, <1>e, <2>4 DEF ActorsEnd
  <2>5. CASE loc[t].job \in {"init", "append"}
    <3> DEFINE v == [loc[t] EXCEPT !.links = loc[t].plan.links]
    <3>1. v \in Locals /\ v.job = loc[t].job
      BY <1>t DEF Locals, Plans
    <3>2. LocalOK("apply", v) /\ "apply" \in Labels
      BY <1>t, <2>1, <2>5, <3>1 DEF LocalOK, JobOK, Labels, Applying, Cloning
    <3>3. loc' = [loc EXCEPT ![t] = v] /\ Goto(t, "apply")
      BY <1>18, <1>t, <2>5 DEF ActorsEnd
    <3> QED BY <1>o, <3>1, <3>2, <3>3, GotoMoves
  <2> QED BY <2>1, <2>2, <2>3, <2>4, <2>5 DEF Applying
<1>19. CASE CloneActor(t)
  <2>1. ASSUME NEW i \in Ids, loc' = [loc EXCEPT ![t].id = i], Goto(t, "spawn")
        PROVE  Moves(t)
    <3> DEFINE v == [loc[t] EXCEPT !.id = i]
    <3>1. v \in Locals /\ v.job = loc[t].job /\ v.id = i
      BY <1>t DEF Locals
    <3>2. LocalOK("spawn", v) /\ "spawn" \in Labels
      BY <1>19, <1>t, <3>1 DEF CloneActor, LocalOK, JobOK, Labels, Cloning, Applying
    <3> QED BY <1>o, <2>1, <3>1, <3>2, GotoMoves
  <2> QED BY <1>19, <1>e, <2>1 DEF CloneActor
<1>20. CASE BeginLinks(t)
  <2> DEFINE v == [loc[t] EXCEPT !.todo = actors]
  <2>1. v \in Locals /\ v.job = loc[t].job /\ v.id = loc[t].id
    BY <1>t DEF Locals
  <2>2. LocalOK("read", v) /\ "read" \in Labels
    BY <1>20, <1>t, <2>1 DEF BeginLinks, LocalOK, JobOK, Labels
  <2> QED BY <1>20, <1>o, <2>1, <2>2, GotoMoves DEF BeginLinks
<1>21. CASE LinksOfActor(t)
  <2> DEFINE found(o) == {<<LinkOf(r), r \in linkData>> : r \in {x \in reported : x[1][1] = o}}
  <2>1. PICK o \in loc[t].todo :
          loc' = [loc EXCEPT ![t].todo = @ \ {o}, ![t].read = @ \cup found(o)]
    BY <1>21 DEF LinksOfActor
  <2> DEFINE v == [loc[t] EXCEPT !.todo = @ \ {o}, !.read = @ \cup found(o)]
  <2>2. found(o) \subseteq LinkRecords
    <3>1. \A r \in reported : LinkOf(r) \in Nodes \X Nodes
      BY ReportFacts DEF TypeInv, TypeOK
    <3>2. ASSUME NEW r \in reported PROVE <<LinkOf(r), r \in linkData>> \in LinkRecords
      <4>1. (r \in linkData) \in BOOLEAN
        OBVIOUS
      <4> QED BY <3>1, <4>1, Zenon DEF LinkRecords
    <3> QED BY <3>2
  <2> HIDE DEF found
  <2>3. v \in Locals /\ v.job = loc[t].job /\ v.id = loc[t].id
    BY <1>t, <2>2 DEF Locals
  <2>4. LocalOK("read", v) /\ "read" \in Labels
    BY <1>21, <1>t, <2>3 DEF LinksOfActor, LocalOK, JobOK, Labels
  <2>5. loc' = [loc EXCEPT ![t] = v] /\ Goto(t, "read")
    BY <1>21, <1>t, <2>1 DEF LinksOfActor, Goto, TypeInv
  <2> QED BY <1>o, <2>3, <2>4, <2>5, GotoMoves
<1>22. CASE LinksEnd(t)
  <2>1. CASE loc[t].job = "restore" /\ loc' = [loc EXCEPT ![t].links = loc[t].plan.links] /\ Goto(t, "apply")
    <3> DEFINE v == [loc[t] EXCEPT !.links = loc[t].plan.links]
    <3>1. v \in Locals /\ v.job = loc[t].job
      BY <1>t DEF Locals, Plans
    <3>2. LocalOK("apply", v) /\ "apply" \in Labels
      BY <1>t, <2>1, <3>1 DEF LocalOK, JobOK, Labels, Applying, Cloning
    <3> QED BY <1>o, <2>1, <3>1, <3>2, GotoMoves
  <2>2. CASE /\ loc[t].job \in Cloning /\ Goto(t, "apply")
             /\ loc' = [loc EXCEPT ![t].links = CloneLinks(t), ![t].read = {}]
    <3> DEFINE v == [loc[t] EXCEPT !.links = CloneLinks(t), !.read = {}]
    <3>0. pc[t] = "read" /\ loc[t].job \in {"clone", "cloneList"} /\ loc[t].id \in Ids
      BY <1>22, <1>t, <2>2 DEF LinksEnd, LocalOK, JobOK, Cloning
    <3>1. CloneLinks(t) \subseteq LinkRecords
      <4>1. ASSUME NEW r \in loc[t].read PROVE <<Renamed(t, r[1]), r[2]>> \in LinkRecords
        <5>1. r \in LinkRecords
          BY <1>t DEF Locals
        <5>2. Renamed(t, r[1]) \in Nodes \X Nodes
          BY <3>0, <5>1, LinkFacts DEF Renamed, Nodes
        <5> QED BY <5>1, <5>2, LinkFacts DEF LinkRecords
      <4> QED BY <4>1 DEF CloneLinks
    <3>2. v \in Locals /\ v.job = loc[t].job /\ v.id = loc[t].id
      BY <1>t, <3>1 DEF Locals
    <3>3. LocalOK("apply", v) /\ "apply" \in Labels
      BY <1>t, <3>0, <3>2 DEF LocalOK, JobOK, Labels, Applying
    <3>4. loc' = [loc EXCEPT ![t] = v]
      BY <1>t, <2>2
    <3> QED BY <1>o, <2>2, <3>2, <3>3, <3>4, GotoMoves
  <2> QED BY <1>22, <1>e, <2>1, <2>2 DEF LinksEnd
<1>23. CASE ApplyLink(t)
  <2>1. PICK r \in loc[t].links :
          /\ loc' = [loc EXCEPT ![t].links = @ \ {r}, ![t].link = r]
          /\ \E p \in {"find", "apply", "data"} : Goto(t, p)
    BY <1>23 DEF ApplyLink
  <2>2. PICK p \in {"find", "apply", "data"} : Goto(t, p)
    BY <2>1
  <2> DEFINE v == [loc[t] EXCEPT !.links = @ \ {r}, !.link = r]
  <2>3. r \in LinkRecords
    BY <1>t DEF Locals
  <2>4. v \in Locals /\ v.job = loc[t].job /\ v.id = loc[t].id /\ v.link = r
    BY <1>t, <2>3 DEF Locals
  <2>5. LocalOK(p, v) /\ p \in Labels
    BY <1>23, <1>t, <2>3, <2>4 DEF ApplyLink, LocalOK, JobOK, Labels, Applying, Cloning
  <2>6. loc' = [loc EXCEPT ![t] = v]
    BY <1>t, <2>1
  <2> QED BY <1>o, <2>2, <2>4, <2>5, <2>6, GotoMoves
<1>24. CASE ApplyEnds(t)
  <2>1. CASE loc[t].job = "restore"
    <3> DEFINE w == {r \in loc[t].read : r[1] \notin Keys(loc[t].plan.links)}
               v == [loc[t] EXCEPT !.link = None, !.links = w]
    <3>0. loc' = [loc EXCEPT ![t].link = None, ![t].links = w] /\ Goto(t, "prune")
      BY <1>24, <2>1 DEF ApplyEnds
    <3>1. w \subseteq LinkRecords
      BY <1>t DEF Locals
    <3> HIDE DEF w
    <3>2. v \in Locals /\ v.job = loc[t].job /\ v.id = loc[t].id
      BY <1>t, <3>1 DEF Locals
    <3>3. LocalOK("prune", v) /\ "prune" \in Labels
      BY <1>t, <2>1, <3>2 DEF LocalOK, JobOK, Labels, Cloning
    <3>4. loc' = [loc EXCEPT ![t] = v]
      BY <1>t, <3>0
    <3> QED BY <1>o, <3>0, <3>2, <3>3, <3>4, GotoMoves
  <2> QED BY <1>24, <1>e, <2>1 DEF ApplyEnds
<1>25. CASE PruneLink(t)
  <2>1. ASSUME NEW r \in loc[t].links, Goto(t, "findBoth"),
               loc' = [loc EXCEPT ![t].links = @ \ {r}, ![t].link = r]
        PROVE  Moves(t)
    <3> DEFINE v == [loc[t] EXCEPT !.links = @ \ {r}, !.link = r]
    <3>1. r \in LinkRecords
      BY <1>t DEF Locals
    <3>2. v \in Locals /\ v.job = loc[t].job /\ v.id = loc[t].id /\ v.link = r
      BY <1>t, <3>1 DEF Locals
    <3>3. LocalOK("findBoth", v) /\ "findBoth" \in Labels
      BY <1>25, <1>t, <3>1, <3>2 DEF PruneLink, LocalOK, JobOK, Labels, Cloning
    <3>4. loc' = [loc EXCEPT ![t] = v]
      BY <1>t, <2>1
    <3> QED BY <1>o, <2>1, <3>2, <3>3, <3>4, GotoMoves
  <2> QED BY <1>25, <1>e, <2>1 DEF PruneLink
<1> QED BY <1>1, <1>2, <1>3, <1>4, <1>5, <1>6, <1>7, <1>8, <1>9, <1>10, <1>11, <1>12, <1>13,
           <1>14, <1>15, <1>16, <1>17, <1>18, <1>19, <1>20, <1>21, <1>22, <1>23, <1>24, <1>25
        DEF Step

\* A subset of links, and of reported links.
Callbacks == (Actors \X Tables) \X (Actors \X Ports)
Reports == (Actors \X Tables) \X Nodes

LEMMA CallbackFacts ==
  ASSUME NEW c \in Callbacks
  PROVE  /\ c[1] \in Actors \X Tables /\ c[2] \in Actors \X Ports
         /\ c[1][1] \in Actors /\ c[2][1] \in Actors
         /\ Named(c) \in Reports
         /\ Named(c)[1] = c[1] /\ Named(c)[2][1] = Id(c[2][1])
BY ActorFacts DEF Callbacks, Reports, Named, Nodes

\* What two ports are connected by.
LEMMA ConnectedFacts ==
  ASSUME NEW a \in Actors, NEW b \in Actors, NEW p \in Ports, NEW q \in Ports
  PROVE  Connected(<<a, p>>, <<b, q>>) \subseteq Callbacks
<1> DEFINE x == <<a, p>>
           y == <<b, q>>
<1>1. SUFFICES ASSUME NEW c \in Connected(x, y) PROVE c \in Callbacks
  OBVIOUS
<1>2. (c = <<x, y>> \/ c = <<y, x>>) /\ c[1][2] \in Tables
  BY <1>1 DEF Connected
<1> QED BY <1>2 DEF Callbacks

\* No step makes an actor, a link or a scheme of the wrong kind.
LEMMA StepTyped ==
  ASSUME TypeInv, NEW t \in Callers, Step(t)
  PROVE  TypeOK'
<1>t. /\ loc \in [Callers -> Locals] /\ loc[t] \in Locals
      /\ pc[t] \in Labels /\ LocalOK(pc[t], loc[t])
      /\ actors \subseteq Actors /\ held \subseteq Actors
      /\ callbacks \subseteq Callbacks /\ reported \subseteq Reports /\ linkData \subseteq Reports
      /\ memento \in Plans /\ orderly \in BOOLEAN /\ calls \in 0..MaxCalls
  BY DEF TypeInv, TypeOK, Callbacks, Reports, Plans
<1>l. /\ \A u \in Callers : loc'[u].actor \in Actors \cup {None}
      /\ orderly' = orderly
  BY StepMoves DEF Moves, Locals
<1>c. calls' = calls
  BY DEF Step, Attach, Spawn, Erase, RemoveAllConections, Visit, VisitEnds, ShareScheme,
         NextTarget, EraseRest, FindSource, FindDestination, Connect, SetLinkUserData,
         FindBoth, DisconnectFirst, DisconnectSecond, NextActor, ActorsEnd, CloneActor,
         BeginLinks, LinksOfActor, LinksEnd, ApplyLink, ApplyEnds, PruneLink
<1>s. SUFFICES /\ actors' \subseteq Actors /\ held' \subseteq Actors
               /\ callbacks' \subseteq Callbacks /\ reported' \subseteq Reports
               /\ linkData' \subseteq Reports /\ memento' \in Plans
  BY <1>t, <1>l, <1>c DEF TypeOK, Callbacks, Reports, Plans
<1>u. ASSUME UNCHANGED <<actors, held, tables, memento>>
      PROVE  /\ actors' \subseteq Actors /\ held' \subseteq Actors
             /\ callbacks' \subseteq Callbacks /\ reported' \subseteq Reports
             /\ linkData' \subseteq Reports /\ memento' \in Plans
  BY <1>t, <1>u DEF tables
<1>1. CASE Attach(t)
  BY <1>1, <1>t DEF Attach, Keep, LocalOK, tables
<1>2. CASE Spawn(t)
  <2>1. CASE UNCHANGED <<actors, tables>>
    BY <1>2, <1>t, <2>1 DEF Spawn, tables
  <2>2. ASSUME NEW o \in Actors, actors' = actors \cup {o},
               callbacks' \subseteq callbacks, reported' \subseteq reported,
               linkData' \subseteq linkData
        PROVE  /\ actors' \subseteq Actors /\ held' \subseteq Actors
               /\ callbacks' \subseteq Callbacks /\ reported' \subseteq Reports
               /\ linkData' \subseteq Reports /\ memento' \in Plans
    BY <1>2, <1>t, <2>2 DEF Spawn
  <2> DEFINE created == {o \in Actors : Id(o) = loc[t].id /\ Unused(o)}
             o == CHOOSE x \in created : TRUE
  <2>3. CASE /\ created # {} /\ actors' = actors \cup {o}
             /\ callbacks' = {c \in callbacks : c[1][1] # o}
             /\ reported' = {r \in reported : r[1][1] # o}
             /\ linkData' = {r \in linkData : r[1][1] # o}
    <3>1. o \in Actors
      BY <2>3
    <3> HIDE DEF o
    <3> QED BY <2>2, <2>3, <3>1
  <2> QED BY <1>2, <2>1, <2>3 DEF Spawn
<1>3. CASE Erase(t)
  BY <1>3, <1>t DEF Erase, tables
<1>4. CASE RemoveAllConections(t)
  BY <1>4, <1>u DEF RemoveAllConections
<1>5. CASE Visit(t)
  BY <1>5, <1>t DEF Visit
<1>6. CASE VisitEnds(t)
  BY <1>6, <1>t DEF VisitEnds, Keep, LocalOK, tables
<1>7. CASE ShareScheme(t)
  BY <1>7, <1>u DEF ShareScheme
<1>8. CASE NextTarget(t)
  BY <1>8, <1>u DEF NextTarget
<1>9. CASE EraseRest(t)
  BY <1>9, <1>t DEF EraseRest, tables
<1>10. CASE FindSource(t)
  BY <1>10, <1>u DEF FindSource
<1>11. CASE FindDestination(t)
  BY <1>11, <1>u DEF FindDestination
<1>12. CASE Connect(t)
  <2> DEFINE l == loc[t].link[1]
             new == Connected(<<loc[t].peer, l[1][2]>>, <<loc[t].actor, l[2][2]>>)
  <2>1. new \subseteq Callbacks
    <3>1. /\ loc[t].peer \in Actors /\ loc[t].actor \in Actors /\ loc[t].link \in LinkRecords
      BY <1>12, <1>t DEF Connect, LocalOK
    <3> QED BY <3>1, LinkFacts, ConnectedFacts
  <2> HIDE DEF new
  <2>2. UNCHANGED <<actors, held, linkData, memento>>
    BY <1>12 DEF Connect
  <2>3. CASE AttachPorts(new)
    <3>1. callbacks' \subseteq Callbacks
      BY <1>t, <2>1, <2>3 DEF AttachPorts
    <3>2. reported' \subseteq Reports
      BY <1>t, <2>1, <2>3, CallbackFacts DEF AttachPorts
    <3> QED BY <1>t, <2>2, <3>1, <3>2
  <2>4. CASE UNCHANGED <<callbacks, reported>>
    BY <1>t, <2>2, <2>4
  <2> QED BY <1>12, <2>3, <2>4 DEF Connect, new
<1>13. CASE SetLinkUserData(t)
  <2> DEFINE l == loc[t].link[1]
             found == InScheme(l[1][1]) /\ l[1][2] \in Tables
             name == <<<<ActorOf(l[1][1]), l[1][2]>>, l[2]>>
  <2>1. UNCHANGED <<actors, held, callbacks, reported, memento>>
    BY <1>13 DEF SetLinkUserData
  <2>2. found => name \in Reports
    <3>1. loc[t].link \in LinkRecords
      BY <1>13, <1>t DEF SetLinkUserData, LocalOK
    <3>2. l[2] \in Nodes
      BY <3>1, LinkFacts
    <3> QED BY <1>t, <3>2, ActorOfFacts DEF Reports
  <2>3. \/ linkData' \subseteq linkData
        \/ found /\ linkData' = linkData \cup {name}
    BY <1>13 DEF SetLinkUserData
  <2> HIDE DEF found, name
  <2> QED BY <1>t, <2>1, <2>2, <2>3
<1>14. CASE FindBoth(t)
  BY <1>14, <1>u DEF FindBoth
<1>15. CASE DisconnectFirst(t)
  BY <1>15, <1>t DEF DisconnectFirst, DetachPorts
<1>16. CASE DisconnectSecond(t)
  BY <1>16, <1>t DEF DisconnectSecond, DetachPorts
<1>17. CASE NextActor(t)
  BY <1>17, <1>u DEF NextActor
<1>18. CASE ActorsEnd(t)
  BY <1>18, <1>u DEF ActorsEnd
<1>19. CASE CloneActor(t)
  BY <1>19, <1>u DEF CloneActor
<1>20. CASE BeginLinks(t)
  BY <1>20, <1>u DEF BeginLinks
<1>21. CASE LinksOfActor(t)
  BY <1>21, <1>u DEF LinksOfActor
<1>22. CASE LinksEnd(t)
  <2>1. UNCHANGED <<actors, held, tables>>
    BY <1>22 DEF LinksEnd
  <2>2. memento' \in Plans
    <3>1. [actors |-> {Id(o) : o \in actors}, links |-> loc[t].read] \in Plans
      <4>1. {Id(o) : o \in actors} \subseteq Ids
        BY <1>t, ActorFacts
      <4> QED BY <1>t, <4>1 DEF Plans, Locals
    <3> QED BY <1>22, <1>t, <3>1 DEF LinksEnd
  <2> QED BY <1>t, <2>1, <2>2 DEF tables
<1>23. CASE ApplyLink(t)
  BY <1>23, <1>u DEF ApplyLink
<1>24. CASE ApplyEnds(t)
  BY <1>24, <1>u DEF ApplyEnds
<1>25. CASE PruneLink(t)
  BY <1>25, <1>u DEF PruneLink
<1> QED BY <1>1, <1>2, <1>3, <1>4, <1>5, <1>6, <1>7, <1>8, <1>9, <1>10, <1>11, <1>12, <1>13,
           <1>14, <1>15, <1>16, <1>17, <1>18, <1>19, <1>20, <1>21, <1>22, <1>23, <1>24, <1>25
        DEF Step

\* A call begins: the other callers only learn that they are not alone.
BeginsWith(t, p, v) ==
  /\ pc[t] = "idle" /\ pc' = [pc EXCEPT ![t] = p]
  /\ loc' \in [Callers -> Locals]
  /\ loc'[t] = [v EXCEPT !.alone = loc'[t].alone]
  /\ \A u \in Callers \ {t} : loc'[u] = [loc[u] EXCEPT !.alone = loc'[u].alone]

LEMMA BeginFacts ==
  ASSUME TypeInv, NEW t \in Callers, NEW p \in Labels, NEW v \in Locals, LocalOK(p, v),
         Begin(t, p, v)
  PROVE  /\ BeginsWith(t, p, v) /\ calls' = calls + 1 /\ calls < MaxCalls
         /\ pc' \in [Callers -> Labels] /\ \A u \in Callers : LocalOK(pc'[u], loc'[u])
         /\ orderly' \in BOOLEAN
<1> DEFINE others == {u \in Callers \ {t} : pc[u] # "idle"}
           w(u) == CASE u = t -> [v EXCEPT !.alone = (others = {})]
                     [] u \in others -> [loc[u] EXCEPT !.alone = FALSE]
                     [] OTHER -> loc[u]
<1>1. /\ loc \in [Callers -> Locals] /\ pc \in [Callers -> Labels] /\ orderly \in BOOLEAN
      /\ \A u \in Callers : LocalOK(pc[u], loc[u])
  BY DEF TypeInv, TypeOK
<1>2. loc' = [u \in Callers |-> w(u)]
  BY DEF Begin
<1>3. w(t) \in Locals /\ w(t) = [v EXCEPT !.alone = w(t).alone]
  <2>1. w(t) = [v EXCEPT !.alone = (others = {})]
    OBVIOUS
  <2>2. (others = {}) \in BOOLEAN
    OBVIOUS
  <2> HIDE DEF others, w
  <2> QED BY <2>1, <2>2 DEF Locals
<1>4. ASSUME NEW u \in Callers \ {t} PROVE w(u) \in Locals /\ w(u) = [loc[u] EXCEPT !.alone = w(u).alone]
  <2>1. w(u) = [loc[u] EXCEPT !.alone = FALSE] \/ w(u) = loc[u]
    BY <1>4
  <2>2. loc[u] \in Locals
    BY <1>1
  <2> HIDE DEF others, w
  <2> QED BY <2>1, <2>2 DEF Locals
<1>5. loc' \in [Callers -> Locals]
  <2> HIDE DEF w
  <2> QED BY <1>2, <1>3, <1>4
<1>6. \A u \in Callers : loc'[u] = w(u)
  <2> HIDE DEF w
  <2> QED BY <1>2
<1>7. BeginsWith(t, p, v) /\ pc' \in [Callers -> Labels]
  <2> HIDE DEF w
  <2> QED BY <1>1, <1>3, <1>4, <1>5, <1>6 DEF BeginsWith, Begin, Goto
<1>8. LocalOK(pc'[t], loc'[t])
  <2>1. pc'[t] = p /\ loc'[t] = [v EXCEPT !.alone = loc'[t].alone]
    BY <1>1, <1>7 DEF BeginsWith
  <2>2. \A f \in {"job", "actor", "peer", "link", "id"} : loc'[t][f] = v[f]
    BY <2>1 DEF Locals
  <2> QED BY <2>1, <2>2 DEF LocalOK, JobOK
<1>9. ASSUME NEW u \in Callers \ {t} PROVE LocalOK(pc'[u], loc'[u])
  <2>1. pc'[u] = pc[u] /\ loc'[u] = [loc[u] EXCEPT !.alone = loc'[u].alone] /\ LocalOK(pc[u], loc[u])
    BY <1>1, <1>7 DEF BeginsWith
  <2>2. \A f \in {"job", "actor", "peer", "link", "id"} : loc'[u][f] = loc[u][f]
    BY <1>1, <2>1 DEF Locals
  <2> QED BY <2>1, <2>2 DEF LocalOK, JobOK
<1>10. orderly' \in BOOLEAN
  BY <1>1 DEF Begin
<1> QED BY <1>7, <1>8, <1>9, <1>10 DEF Begin

\* What each call begins with.
CallsWith(t, p, v) ==
  /\ p \in Labels /\ v \in Locals /\ LocalOK(p, v) /\ Begin(t, p, v)
  /\ v.targets = {} /\ p \notin {"removeAll", "visit", "outer", "nested", "eraseRest"}
  /\ p \notin {"findOther", "connect"} /\ v.job # "none"
  /\ p = "attach" \/ v.actor = None

LEMMA CallFacts ==
  ASSUME TypeInv, NEW t \in Callers, Call(t)
  PROVE  /\ actors' = actors /\ held' = held /\ memento' = memento
         /\ callbacks' \subseteq callbacks /\ reported' \subseteq reported
         /\ linkData' \subseteq linkData
         /\ \E p \in Labels, v \in Locals :
              /\ CallsWith(t, p, v)
              /\ p = "attach" => v.actor \in Actors /\ (Unused(v.actor) \/ v.actor \in held)
              /\ \/ callbacks' = callbacks /\ reported' = reported
                 \/ /\ p = "attach"
                    /\ callbacks' = {c \in callbacks : c[1][1] # v.actor}
                    /\ reported' = {r \in reported : r[1][1] # v.actor}
              /\ p = "attach" /\ Unused(v.actor) =>
                   \A r \in reported' : r[1][1] # v.actor
<1> USE RestFacts, ActorFacts, SchemeFacts
<1> DEFINE Goal ==
         /\ actors' = actors /\ held' = held /\ memento' = memento
         /\ callbacks' \subseteq callbacks /\ reported' \subseteq reported
         /\ linkData' \subseteq linkData
         /\ \E p \in Labels, v \in Locals :
              /\ CallsWith(t, p, v)
              /\ p = "attach" => v.actor \in Actors /\ (Unused(v.actor) \/ v.actor \in held)
              /\ \/ callbacks' = callbacks /\ reported' = reported
                 \/ /\ p = "attach"
                    /\ callbacks' = {c \in callbacks : c[1][1] # v.actor}
                    /\ reported' = {r \in reported : r[1][1] # v.actor}
              /\ p = "attach" /\ Unused(v.actor) =>
                   \A r \in reported' : r[1][1] # v.actor
\* All calls but that of Attach leave the scheme alone.
<1>p. ASSUME NEW p \in Labels, NEW v \in Locals, LocalOK(p, v), Begin(t, p, v), v.targets = {}, v.actor = None,
             p \in {"erase", "share", "find", "data", "findBoth", "actors", "original", "links"},
             v.job # "none", UNCHANGED <<actors, held, tables, memento>>
      PROVE  Goal
  BY <1>p DEF CallsWith, tables
<1>1. ASSUME NEW o \in Actors, CallAttach(t, o) PROVE Goal
  <2> DEFINE v == [Rest EXCEPT !.job = "attach", !.actor = o]
  <2>1. v \in Locals /\ v.job = "attach" /\ v.actor = o /\ v.targets = {}
    BY DEF Rest, Locals, Jobs
  <2>2. LocalOK("attach", v) /\ "attach" \in Labels
    BY <2>1 DEF LocalOK, JobOK, Labels, Cloning
  <2>3. CallsWith(t, "attach", v)
    BY <1>1, <2>1, <2>2 DEF CallAttach, CallsWith
  <2>4. /\ actors' = actors /\ held' = held /\ memento' = memento
        /\ Unused(o) \/ o \in held
        /\ callbacks' = IF Unused(o) THEN {c \in callbacks : c[1][1] # o} ELSE callbacks
        /\ reported' = IF Unused(o) THEN {r \in reported : r[1][1] # o} ELSE reported
        /\ linkData' = IF Unused(o) THEN {r \in linkData : r[1][1] # o} ELSE linkData
    BY <1>1 DEF CallAttach
  <2> HIDE DEF v
  <2> QED BY <2>1, <2>2, <2>3, <2>4
<1>2. ASSUME NEW i \in Ids, CallDetach(t, i) PROVE Goal
  <2> DEFINE v == [Rest EXCEPT !.job = "detach", !.id = i]
  <2>1. v \in Locals /\ v.job = "detach" /\ v.id = i /\ v.targets = {} /\ v.actor = None
    BY DEF Rest, Locals, Jobs
  <2>2. LocalOK("erase", v) /\ "erase" \in Labels
    BY <2>1 DEF LocalOK, JobOK, Labels, Cloning
  <2> QED BY <1>2, <1>p, <2>1, <2>2 DEF CallDetach
<1>3. ASSUME NEW i \in Ids, NEW job \in Cloning, CallClone(t, i, job) PROVE Goal
  <2> DEFINE v == [Rest EXCEPT !.job = job, !.original = i]
  <2>1. v \in Locals /\ v.job = job /\ v.targets = {} /\ v.actor = None
    BY DEF Rest, Locals, Jobs
  <2>2. LocalOK("original", v) /\ "original" \in Labels
    BY <2>1 DEF LocalOK, JobOK, Labels, Cloning
  <2> QED BY <1>3, <1>p, <2>1, <2>2 DEF CallClone, Cloning
<1>4. ASSUME NEW l \in Links, CallDisconnect(t, l) PROVE Goal
  <2> DEFINE v == [Rest EXCEPT !.job = "disconnect", !.link = <<l, FALSE>>]
  <2>1. /\ v \in Locals /\ v.job = "disconnect" /\ v.targets = {} /\ v.actor = None
        /\ v.link \in LinkRecords
    BY DEF Rest, Locals, Jobs
  <2>2. LocalOK("findBoth", v) /\ "findBoth" \in Labels
    BY <2>1 DEF LocalOK, JobOK, Labels, Cloning
  <2> QED BY <1>4, <1>p, <2>1, <2>2 DEF CallDisconnect
<1>5. ASSUME NEW l \in Links, NEW d \in BOOLEAN, CallConnect(t, <<l, d>>) PROVE Goal
  <2> DEFINE v == [Rest EXCEPT !.job = "connect", !.link = <<l, d>>]
  <2>1. /\ v \in Locals /\ v.job = "connect" /\ v.targets = {} /\ v.actor = None
        /\ v.link \in LinkRecords
    BY DEF Rest, Locals, Jobs
  <2>2. LocalOK("find", v) /\ "find" \in Labels
    BY <2>1 DEF LocalOK, JobOK, Labels, Cloning
  <2> QED BY <1>5, <1>p, <2>1, <2>2 DEF CallConnect
<1>6. ASSUME NEW l \in Links, NEW d \in BOOLEAN, CallSetLinkUserData(t, <<l, d>>) PROVE Goal
  <2> DEFINE v == [Rest EXCEPT !.job = "setData", !.link = <<l, d>>]
  <2>1. /\ v \in Locals /\ v.job = "setData" /\ v.targets = {} /\ v.actor = None
        /\ v.link \in LinkRecords
    BY DEF Rest, Locals, Jobs
  <2>2. LocalOK("data", v) /\ "data" \in Labels
    BY <2>1 DEF LocalOK, JobOK, Labels, Cloning
  <2> QED BY <1>6, <1>p, <2>1, <2>2 DEF CallSetLinkUserData
<1>7. ASSUME NEW s \in Schemes, CallInit(t, s) PROVE Goal
  <2> DEFINE v == [Rest EXCEPT !.job = "init", !.plan = s, !.ids = s.actors]
  <2>1. v \in Locals /\ v.job = "init" /\ v.targets = {} /\ v.actor = None
    BY DEF Rest, Locals, Jobs, Plans, Clearing
  <2>2. LocalOK("share", v) /\ "share" \in Labels
    BY <2>1 DEF LocalOK, JobOK, Labels, Cloning, Clearing
  <2> QED BY <1>7, <1>p, <2>1, <2>2 DEF CallInit
<1>8. ASSUME NEW s \in Schemes, CallAppend(t, s) PROVE Goal
  <2> DEFINE v == [Rest EXCEPT !.job = "append", !.plan = s, !.ids = s.actors]
  <2>1. v \in Locals /\ v.job = "append" /\ v.targets = {} /\ v.actor = None
    BY DEF Rest, Locals, Jobs, Plans, Applying
  <2>2. LocalOK("actors", v) /\ "actors" \in Labels
    BY <2>1 DEF LocalOK, JobOK, Labels, Cloning, Applying
  <2> QED BY <1>8, <1>p, <2>1, <2>2 DEF CallAppend
<1>9. CASE CallClear(t)
  <2> DEFINE v == [Rest EXCEPT !.job = "clear"]
  <2>1. v \in Locals /\ v.job = "clear" /\ v.targets = {} /\ v.actor = None
    BY DEF Rest, Locals, Jobs, Clearing
  <2>2. LocalOK("share", v) /\ "share" \in Labels
    BY <2>1 DEF LocalOK, JobOK, Labels, Cloning, Clearing
  <2> QED BY <1>9, <1>p, <2>1, <2>2 DEF CallClear
<1>10. CASE CallScheme(t)
  <2> DEFINE v == [Rest EXCEPT !.job = "scheme"]
  <2>1. v \in Locals /\ v.job = "scheme" /\ v.targets = {} /\ v.actor = None
    BY DEF Rest, Locals, Jobs
  <2>2. LocalOK("links", v) /\ "links" \in Labels
    BY <2>1 DEF LocalOK, JobOK, Labels, Cloning
  <2> QED BY <1>10, <1>p, <2>1, <2>2 DEF CallScheme
<1>11. CASE CallSetMemento(t)
  <2> DEFINE v == [Rest EXCEPT !.job = "restore", !.plan = memento, !.ids = memento.actors]
  <2>0. memento \in Plans
    BY DEF TypeInv, TypeOK, Plans
  <2>1. v \in Locals /\ v.job = "restore" /\ v.targets = {} /\ v.actor = None
    BY <2>0 DEF Rest, Locals, Jobs, Plans, Clearing
  <2>2. LocalOK("actors", v) /\ "actors" \in Labels
    BY <2>1 DEF LocalOK, JobOK, Labels, Cloning, Applying
  <2> QED BY <1>11, <1>p, <2>1, <2>2 DEF CallSetMemento
<1> HIDE DEF Goal
<1>12. CASE \E o \in Actors : CallAttach(t, o)
  BY <1>1, <1>12 DEF Goal
<1>13. CASE \E i \in Ids : CallDetach(t, i) \/ \E job \in Cloning : CallClone(t, i, job)
  BY <1>2, <1>3, <1>13 DEF Goal
<1>14. CASE \E l \in Links :
               \/ CallDisconnect(t, l)
               \/ \E d \in BOOLEAN : CallConnect(t, <<l, d>>) \/ CallSetLinkUserData(t, <<l, d>>)
  BY <1>4, <1>5, <1>6, <1>14 DEF Goal
<1>15. CASE \E s \in Schemes : CallInit(t, s) \/ CallAppend(t, s)
  BY <1>7, <1>8, <1>15 DEF Goal
<1>16. CASE CallClear(t) \/ CallScheme(t) \/ CallSetMemento(t)
  BY <1>9, <1>10, <1>11, <1>16 DEF Goal
<1> QED BY <1>12, <1>13, <1>14, <1>15, <1>16, Zenon DEF Call

LEMMA CallTyped ==
  ASSUME TypeInv, NEW t \in Callers, Call(t)
  PROVE  TypeInv'
<1>1. PICK p \in Labels, v \in Locals : CallsWith(t, p, v)
  BY CallFacts
<1>2. /\ BeginsWith(t, p, v) /\ calls' = calls + 1 /\ calls < MaxCalls
      /\ pc' \in [Callers -> Labels] /\ \A u \in Callers : LocalOK(pc'[u], loc'[u])
      /\ orderly' \in BOOLEAN
  BY <1>1, BeginFacts DEF CallsWith
<1>3. loc' \in [Callers -> Locals]
  BY <1>2 DEF BeginsWith
<1>4. calls' \in 0..MaxCalls
  BY <1>2, SizesAssumption DEF TypeInv, TypeOK
<1>5. \A u \in Callers : loc'[u].actor \in Actors \cup {None}
  BY <1>3 DEF Locals
<1> QED BY <1>2, <1>3, <1>4, <1>5, CallFacts DEF TypeInv, TypeOK

LEMMA InitTyped == Init => TypeInv
<1> SUFFICES ASSUME Init PROVE TypeInv
  OBVIOUS
<1> DEFINE node(n) == <<<<n[1], 1>>, n[2]>>
<1>1. PICK s \in Schemes :
        LET links == {l \in Keys(s.links) : {l[1][1], l[2][1]} \subseteq s.actors}
            new == UNION {Connected(node(l[1]), node(l[2])) : l \in links}
        IN /\ actors = s.actors \X {1}
           /\ callbacks = new
           /\ reported = {Named(c) : c \in new}
           /\ linkData = {Named(c) : c \in {k \in new : <<LinkOf(Named(k)), TRUE>> \in s.links}}
  BY DEF Init
<1> DEFINE links == {l \in Keys(s.links) : {l[1][1], l[2][1]} \subseteq s.actors}
           new == UNION {Connected(node(l[1]), node(l[2])) : l \in links}
<1>2. actors \subseteq Actors
  <2>1. s.actors \subseteq Ids /\ 1 \in 1..Copies
    BY SchemesAssumption, SizesAssumption
  <2> QED BY <1>1, <2>1 DEF Actors
<1>3. new \subseteq Callbacks
  <2>1. ASSUME NEW r \in s.links
        PROVE  Connected(node(r[1][1]), node(r[1][2])) \subseteq Callbacks
    <3>1. r \in LinkRecords
      BY SchemeFacts DEF Plans
    <3>2. \A i \in Ids : <<i, 1>> \in Actors
      BY SizesAssumption DEF Actors
    <3> QED BY <3>1, <3>2, LinkFacts, ConnectedFacts
  <2> HIDE DEF node
  <2> QED BY <2>1 DEF Keys
<1>4. /\ callbacks \subseteq Callbacks /\ reported \subseteq Reports /\ linkData \subseteq Reports
  <2> HIDE DEF new
  <2>1. \A c \in new : Named(c) \in Reports
    BY <1>3, CallbackFacts
  <2> QED BY <1>1, <1>3, <2>1 DEF new
<1>5. memento \in Plans /\ held = {} /\ orderly = TRUE /\ calls = 0
  BY SchemeFacts DEF Init
<1>6. /\ loc \in [Callers -> Locals] /\ pc \in [Callers -> Labels]
      /\ \A t \in Callers : LocalOK(pc[t], loc[t])
  BY RestFacts DEF Init, Labels
<1>7. TypeOK
  BY <1>2, <1>4, <1>5, <1>6, SizesAssumption DEF TypeOK, Callbacks, Reports, Plans, Locals
<1> QED BY <1>6, <1>7 DEF TypeInv

LEMMA NextTyped == TypeInv /\ [Next]_vars => TypeInv'
<1> SUFFICES ASSUME TypeInv, [Next]_vars PROVE TypeInv'
  OBVIOUS
<1>1. ASSUME NEW t \in Callers, Step(t) PROVE TypeInv'
  <2>1. TypeOK' /\ Moves(t)
    BY <1>1, StepTyped, StepMoves
  <2>2. \A u \in Callers : LocalOK(pc'[u], loc'[u])
    BY <2>1 DEF Moves, TypeInv
  <2> QED BY <2>1, <2>2 DEF Moves, TypeInv
<1>2. ASSUME NEW o \in held, Release(o) PROVE TypeInv'
  BY <1>2 DEF Release, TypeInv, TypeOK, tables
<1>3. CASE UNCHANGED vars
  BY <1>3 DEF vars, tables, TypeInv, TypeOK
<1> QED BY <1>1, <1>2, <1>3, CallTyped DEF Next

\* Every operation keeps actors, links, mementos and the locals of its caller of
\* their kinds, whatever the other threads do.
THEOREM TypeCorrect == Spec => []TypeOK
<1>1. TypeInv => TypeOK
  BY DEF TypeInv
<1>2. Spec => []TypeInv
  BY InitTyped, NextTyped, PTL DEF Spec
<1> QED BY <1>1, <1>2, PTL
-----------------------------------------------------------------------------
(* The inductive invariant about links *)

NoClash == \A t, u \in Callers : t # u => ~Clash(loc[t].job, loc[u].job)

\* Detach has erased the actor; Clear, Init or SetMemento has chosen its targets.
Leaving(t) == loc[t].job = "detach" /\ pc[t] \in {"removeAll", "visit"}
Cutting(t) == loc[t].job \in Clearing /\ pc[t] \in {"outer", "nested", "visit", "eraseRest"}
Current(t) == pc[t] \in {"nested", "visit"}
ToVisit(t, x) == pc[t] = "visit" => x \in loc[t].todo
Ends(c) == {c[1][1], c[2][1]}

\* A callback is of actors in the scheme, or of one that leaves it and has yet
\* to visit the publisher ...
CallbackInv ==
  \A c \in callbacks : \A o \in Ends(c) :
    \/ o \in actors
    \/ \E t \in Callers : Leaving(t) /\ o = loc[t].actor /\ ToVisit(t, c[1][1])

\* ... and one of an actor that will be erased is of a target still to be cut.
CutInv ==
  \A t \in Callers : Cutting(t) =>
    \A c \in callbacks : \A o \in Ends(c) : Id(o) \notin Kept(t) =>
      \/ o \in loc[t].targets
      \/ Current(t) /\ o = loc[t].actor /\ ToVisit(t, c[1][1])

\* The same for the links that the ports report.
ReportInv ==
  \A r \in reported : r[1][1] \in actors =>
    \/ InScheme(r[2][1])
    \/ \E t \in Callers : Leaving(t) /\ r[2][1] = loc[t].id /\ ToVisit(t, r[1][1])
ReportCutInv ==
  \A t \in Callers : Cutting(t) =>
    \A r \in reported : r[1][1] \in actors /\ r[2][1] \notin Kept(t) =>
      \/ \E o \in loc[t].targets : Id(o) = r[2][1]
      \/ Current(t) /\ r[2][1] = Id(loc[t].actor) /\ ToVisit(t, r[1][1])

\* An actor that is being attached is nowhere else and reports no links.
NewOK(t) ==
  pc[t] = "attach" =>
    /\ loc[t].actor \notin actors
    /\ \A u \in Callers \ {t} : loc[u].actor # loc[t].actor
    /\ \A r \in reported : r[1][1] # loc[t].actor
NewInv == \A t \in Callers : NewOK(t)

\* What a caller has found is still in the scheme.
FoundOK(t) ==
  /\ pc[t] \in {"findOther", "connect"} => loc[t].peer \in actors
  /\ pc[t] = "connect" => loc[t].actor \in actors
  /\ Cutting(t) => loc[t].targets \subseteq actors
  /\ pc[t] = "eraseRest" => loc[t].targets = {}
FoundInv == \A t \in Callers : FoundOK(t)

LinkInv ==
  /\ NoClash /\ CallbackInv /\ CutInv /\ ReportInv /\ ReportCutInv /\ NewInv /\ FoundInv

\* What the invariant says of a caller stays as it is.
Same(u) ==
  /\ pc'[u] = pc[u]
  /\ loc'[u].job = loc[u].job /\ loc'[u].plan = loc[u].plan /\ loc'[u].id = loc[u].id
  /\ loc'[u].targets = loc[u].targets /\ loc'[u].todo = loc[u].todo
  /\ loc'[u].actor = loc[u].actor /\ loc'[u].peer = loc[u].peer

LEMMA SameFacts ==
  ASSUME NEW u, Same(u)
  PROVE  /\ Leaving(u)' = Leaving(u) /\ Cutting(u)' = Cutting(u) /\ Current(u)' = Current(u)
         /\ Kept(u)' = Kept(u) /\ \A x : ToVisit(u, x)' = ToVisit(u, x)
BY DEF Same, Leaving, Cutting, Current, Kept, ToVisit

\* Who removes actors is alone in that, and nobody connects them meanwhile.
LEMMA OneRemoves ==
  ASSUME TypeInv, NoClash, NEW t \in Callers, loc[t].job \in Removing
  PROVE  \A u \in Callers \ {t} :
           /\ loc[u].job \notin Removing \cup Connecting
           /\ ~Leaving(u) /\ ~Cutting(u)
           /\ pc[u] \notin {"findOther", "connect", "eraseRest"}
<1> SUFFICES ASSUME NEW u \in Callers \ {t}
             PROVE  /\ loc[u].job \notin Removing \cup Connecting
                    /\ ~Leaving(u) /\ ~Cutting(u)
                    /\ pc[u] \notin {"findOther", "connect", "eraseRest"}
  OBVIOUS
<1>1. loc[u].job \notin Removing \cup Connecting
  BY DEF NoClash, Clash
<1>2. JobOK(pc[u], loc[u])
  BY DEF TypeInv, LocalOK
<1> QED BY <1>1, <1>2 DEF JobOK, Leaving, Cutting, Removing, Connecting, Clearing, Applying

\* No other caller is in the way of one that connects.
LEMMA NobodyCuts ==
  ASSUME NoClash, NEW t \in Callers, loc[t].job \in Connecting
  PROVE  \A u \in Callers \ {t} : ~Leaving(u) /\ ~Cutting(u)
BY DEF NoClash, Clash, Leaving, Cutting, Removing, Clearing

\* A step that keeps the actors there are, adds no link, and of which the caller
\* neither removes an actor nor begins to.
LEMMA QuietStep ==
  ASSUME TypeInv, LinkInv, NEW t \in Callers, \A u \in Callers \ {t} : Same(u), NoClash',
         actors \subseteq actors', callbacks' \subseteq callbacks, reported' \subseteq reported,
         \A o \in actors' \ actors :
           /\ \A r \in reported' : r[1][1] # o
           /\ \A u \in Callers \ {t} : loc[u].actor # o,
         ~Leaving(t), ~Cutting(t)', FoundOK(t)', NewOK(t)',
         \/ loc'[t].actor \in actors \cup {None, loc[t].actor}
         \/ \A u \in Callers \ {t} : loc[u].actor # loc'[t].actor
  PROVE  LinkInv'
<1>s. \A u \in Callers \ {t} :
        /\ Same(u) /\ Leaving(u)' = Leaving(u) /\ Cutting(u)' = Cutting(u)
        /\ Current(u)' = Current(u) /\ Kept(u)' = Kept(u)
        /\ \A x : ToVisit(u, x)' = ToVisit(u, x)
  BY SameFacts
<1>1. CallbackInv'
  <2> SUFFICES ASSUME NEW c \in callbacks', NEW o \in Ends(c), o \notin actors'
               PROVE  \E u \in Callers : Leaving(u)' /\ o = loc'[u].actor /\ ToVisit(u, c[1][1])'
    BY DEF CallbackInv, Ends
  <2>1. PICK u \in Callers : Leaving(u) /\ o = loc[u].actor /\ ToVisit(u, c[1][1])
    BY DEF LinkInv, CallbackInv
  <2> QED BY <1>s, <2>1 DEF Same
<1>2. CutInv'
  <2> SUFFICES ASSUME NEW u \in Callers \ {t}, Cutting(u)',
                      NEW c \in callbacks', NEW o \in Ends(c), Id(o) \notin Kept(u)'
               PROVE  \/ o \in loc'[u].targets
                      \/ Current(u)' /\ o = loc'[u].actor /\ ToVisit(u, c[1][1])'
    BY DEF CutInv, Ends, Id
  <2> QED BY <1>s DEF LinkInv, CutInv, Same
<1>3. ReportInv'
  <2> SUFFICES ASSUME NEW r \in reported', r[1][1] \in actors', ~InScheme(r[2][1])'
               PROVE  \E u \in Callers : /\ Leaving(u)' /\ r[2][1] = loc'[u].id
                                         /\ ToVisit(u, r[1][1])'
    BY DEF ReportInv
  <2>1. r[1][1] \in actors /\ ~InScheme(r[2][1])
    BY DEF InScheme, Id
  <2>2. PICK u \in Callers : Leaving(u) /\ r[2][1] = loc[u].id /\ ToVisit(u, r[1][1])
    BY <2>1 DEF LinkInv, ReportInv
  <2> QED BY <1>s, <2>2 DEF Same
<1>4. ReportCutInv'
  <2> SUFFICES ASSUME NEW u \in Callers \ {t}, Cutting(u)',
                      NEW r \in reported', r[1][1] \in actors', r[2][1] \notin Kept(u)'
               PROVE  \/ \E o \in loc'[u].targets : Id(o) = r[2][1]
                      \/ /\ Current(u)' /\ r[2][1] = Id(loc'[u].actor)
                         /\ ToVisit(u, r[1][1])'
    BY DEF ReportCutInv, Id
  <2>1. r[1][1] \in actors
    OBVIOUS
  <2> QED BY <1>s, <2>1 DEF LinkInv, ReportCutInv, Same
<1>5. NewInv'
  <2> SUFFICES ASSUME NEW u \in Callers \ {t}, pc'[u] = "attach"
               PROVE  /\ loc'[u].actor \notin actors'
                      /\ \A w \in Callers \ {u} : loc'[w].actor # loc'[u].actor
                      /\ \A r \in reported' : r[1][1] # loc'[u].actor
    BY DEF NewInv, NewOK
  <2>1. /\ pc[u] = "attach" /\ loc'[u].actor = loc[u].actor
        /\ loc[u].actor \in Actors /\ loc[u].actor # None
    BY <1>s, ActorFacts DEF Same, TypeInv, LocalOK
  <2>2. /\ loc[u].actor \notin actors
        /\ \A w \in Callers \ {u} : loc[w].actor # loc[u].actor
        /\ \A r \in reported : r[1][1] # loc[u].actor
    BY <2>1 DEF LinkInv, NewInv, NewOK
  <2>3. loc'[t].actor # loc[u].actor
    BY <2>1, <2>2
  <2> QED BY <1>s, <2>1, <2>2, <2>3 DEF Same
<1>6. FoundInv'
  <2> SUFFICES ASSUME NEW u \in Callers \ {t} PROVE FoundOK(u)'
    BY DEF FoundInv
  <2>1. FoundOK(u) /\ Same(u) /\ Cutting(u)' = Cutting(u)
    BY <1>s DEF LinkInv, FoundInv
  <2> QED BY <2>1 DEF FoundOK, Same
<1> QED BY <1>1, <1>2, <1>3, <1>4, <1>5, <1>6 DEF LinkInv

\* The same, for a step of an operation.
LEMMA MovesSame ==
  ASSUME TypeInv, LinkInv, NEW t \in Callers, Moves(t)
  PROVE  NoClash' /\ \A u \in Callers \ {t} : Same(u)
<1>1. \A u \in Callers \ {t} : Same(u)
  BY DEF Moves, Same
<1>2. \A u \in Callers : loc'[u].job \in {loc[u].job, "none"}
  BY DEF Moves
<1> QED BY <1>1, <1>2 DEF LinkInv, NoClash, Clash, Removing, Connecting

\* Detach erases the actor: it is leaving from now on.
LEMMA EraseLinks ==
  ASSUME TypeInv, LinkInv, NEW t \in Callers, Erase(t), InScheme(loc[t].id),
         actors' = actors \ {ActorOf(loc[t].id)},
         loc' = [loc EXCEPT ![t].actor = ActorOf(loc[t].id)], Goto(t, "removeAll"),
         NoClash', \A u \in Callers \ {t} : Same(u)
  PROVE  LinkInv'
<1> DEFINE a == ActorOf(loc[t].id)
<1>a. a \in actors /\ Id(a) = loc[t].id
  BY ActorOfFacts
<1>t. /\ pc[t] = "erase" /\ loc[t].job = "detach" /\ pc'[t] = "removeAll"
      /\ loc'[t].job = "detach" /\ loc'[t].actor = a /\ loc'[t].id = loc[t].id
      /\ UNCHANGED <<callbacks, reported>>
  BY DEF Erase, Goto, TypeInv, Locals, LocalOK, JobOK, tables
<1> HIDE DEF a
<1>l. Leaving(t)' /\ ~Cutting(t)' /\ \A x : ToVisit(t, x)'
  BY <1>t DEF Leaving, Cutting, ToVisit, Clearing
<1>s. \A u \in Callers \ {t} :
        /\ Same(u) /\ Leaving(u)' = Leaving(u) /\ Cutting(u)' = Cutting(u)
        /\ \A x : ToVisit(u, x)' = ToVisit(u, x)
        /\ ~Leaving(u) /\ ~Cutting(u) /\ pc[u] \notin {"findOther", "connect", "eraseRest"}
  BY <1>t, SameFacts, OneRemoves DEF LinkInv, Removing
<1>n. ~Leaving(t)
  BY <1>t DEF Leaving
<1>1. CallbackInv'
  <2>1. \A c \in callbacks : \A o \in Ends(c) : o \in actors
    BY <1>n, <1>s DEF LinkInv, CallbackInv
  <2> QED BY <1>t, <1>l, <2>1 DEF CallbackInv, Ends, a
<1>2. CutInv' /\ ReportCutInv'
  BY <1>l, <1>s DEF CutInv, ReportCutInv
<1>3. ReportInv'
  <2> SUFFICES ASSUME NEW r \in reported, r[1][1] \in actors, ~InScheme(r[2][1])'
               PROVE  r[2][1] = loc[t].id
    BY <1>t, <1>l DEF ReportInv, a
  <2>1. PICK o \in actors : Id(o) = r[2][1]
    BY <1>n, <1>s DEF LinkInv, ReportInv, InScheme
  <2> QED BY <1>a, <2>1 DEF InScheme, a, Id
<1>4. NewInv'
  <2> SUFFICES ASSUME NEW u \in Callers \ {t}, pc[u] = "attach"
               PROVE  /\ loc[u].actor \notin actors'
                      /\ \A w \in Callers \ {u} : loc'[w].actor # loc[u].actor
                      /\ \A r \in reported : r[1][1] # loc[u].actor
    BY <1>t, <1>s DEF NewInv, NewOK, Same
  <2>1. /\ loc[u].actor \notin actors
        /\ \A w \in Callers \ {u} : loc[w].actor # loc[u].actor
        /\ \A r \in reported : r[1][1] # loc[u].actor
    BY DEF LinkInv, NewInv, NewOK
  <2> QED BY <1>a, <1>t, <1>s, <2>1 DEF Same
<1>5. FoundInv'
  BY <1>t, <1>l, <1>s DEF FoundInv, FoundOK, Same
<1> QED BY <1>1, <1>2, <1>3, <1>4, <1>5 DEF LinkInv

\* The list of those to visit has every publisher that calls the actor.
LEMMA RemoveAllLinks ==
  ASSUME TypeInv, LinkInv, NEW t \in Callers, RemoveAllConections(t),
         NoClash', \A u \in Callers \ {t} : Same(u)
  PROVE  LinkInv'
<1>t. /\ pc[t] \in {"removeAll", "nested"} /\ pc'[t] = "visit"
      /\ loc'[t].todo = actors \cup {loc[t].actor}
      /\ loc'[t].job = loc[t].job /\ loc'[t].actor = loc[t].actor /\ loc'[t].id = loc[t].id
      /\ loc'[t].targets = loc[t].targets /\ loc'[t].plan = loc[t].plan
      /\ loc[t].job \in Clearing \cup {"detach"}
      /\ pc[t] = "removeAll" => loc[t].job = "detach"
      /\ pc[t] = "nested" => loc[t].job \in Clearing
      /\ UNCHANGED <<actors, callbacks, reported>>
  BY DEF RemoveAllConections, Goto, TypeInv, Locals, LocalOK, JobOK, tables
<1>l. /\ Leaving(t)' = Leaving(t) /\ Cutting(t)' = Cutting(t) /\ Kept(t)' = Kept(t)
      /\ Cutting(t) => Current(t) /\ Current(t)'
      /\ Leaving(t) \/ Cutting(t)
      /\ \A x \in actors \cup {loc[t].actor} : ToVisit(t, x)'
  BY <1>t DEF Leaving, Cutting, Kept, Current, ToVisit, Clearing
<1>s. \A u \in Callers \ {t} :
        /\ Same(u) /\ Leaving(u)' = Leaving(u) /\ Cutting(u)' = Cutting(u)
        /\ ~Leaving(u) /\ ~Cutting(u) /\ pc[u] \notin {"findOther", "connect", "eraseRest"}
  BY <1>t, SameFacts, OneRemoves DEF LinkInv, Removing, Clearing
<1>c. \A c \in callbacks : \A o \in Ends(c) : o \in actors \/ (Leaving(t) /\ o = loc[t].actor)
  BY <1>s DEF LinkInv, CallbackInv
<1>v. \A c \in callbacks : ToVisit(t, c[1][1])'
  BY <1>l, <1>c DEF Ends
<1>1. CallbackInv'
  BY <1>t, <1>l, <1>c, <1>v DEF CallbackInv, Ends
<1>2. CutInv'
  <2> SUFFICES ASSUME Cutting(t), NEW c \in callbacks, NEW o \in Ends(c), Id(o) \notin Kept(t)
               PROVE  o \in loc[t].targets \/ o = loc[t].actor
    BY <1>t, <1>l, <1>s, <1>v DEF CutInv, Ends, Id
  <2> QED BY DEF LinkInv, CutInv
<1>3. ReportInv'
  <2> SUFFICES ASSUME NEW r \in reported, r[1][1] \in actors, ~InScheme(r[2][1])
               PROVE  Leaving(t) /\ r[2][1] = loc[t].id
    BY <1>t, <1>l DEF ReportInv, InScheme, Id
  <2> QED BY <1>s DEF LinkInv, ReportInv
<1>4. ReportCutInv'
  <2> SUFFICES ASSUME Cutting(t), NEW r \in reported, r[1][1] \in actors, r[2][1] \notin Kept(t)
               PROVE  (\E o \in loc[t].targets : Id(o) = r[2][1]) \/ r[2][1] = Id(loc[t].actor)
    BY <1>t, <1>l, <1>s DEF ReportCutInv, Id
  <2> QED BY DEF LinkInv, ReportCutInv
<1>5. NewInv'
  BY <1>t, <1>s DEF LinkInv, NewInv, NewOK, Same
<1>6. FoundInv'
  BY <1>t, <1>l, <1>s DEF LinkInv, FoundInv, FoundOK, Same
<1> QED BY <1>1, <1>2, <1>3, <1>4, <1>5, <1>6 DEF LinkInv

\* What is visited does not call the actor, or report it, any more.
LEMMA VisitLinks ==
  ASSUME TypeInv, LinkInv, NEW t \in Callers, Visit(t),
         NoClash', \A u \in Callers \ {t} : Same(u)
  PROVE  LinkInv'
<1> DEFINE target == loc[t].actor
           names(x) == IF x \notin actors THEN {} ELSE ({x} \X Ports) \X ({Id(target)} \X Ports)
<1>x. PICK x \in loc[t].todo :
        /\ loc' = [loc EXCEPT ![t].todo = @ \ {x}]
        /\ callbacks' = {c \in callbacks : /\ Named(c) \notin names(x)
                                           /\ ~(x = target /\ c[1][1] = x)}
        /\ reported' = reported \ names(x)
  BY DEF Visit
<1>t. /\ pc[t] = "visit" /\ pc'[t] = "visit" /\ loc'[t].todo = loc[t].todo \ {x}
      /\ loc'[t].job = loc[t].job /\ loc'[t].actor = loc[t].actor /\ loc'[t].id = loc[t].id
      /\ loc'[t].targets = loc[t].targets /\ loc'[t].plan = loc[t].plan
      /\ loc[t].job \in Clearing \cup {"detach"}
      /\ loc[t].job = "detach" => Id(target) = loc[t].id
      /\ UNCHANGED actors
  BY <1>x DEF Visit, TypeInv, Locals, LocalOK, JobOK
<1>l. /\ Leaving(t)' = Leaving(t) /\ Cutting(t)' = Cutting(t) /\ Kept(t)' = Kept(t)
      /\ Current(t) /\ Current(t)'
      /\ \A y : ToVisit(t, y)' = (ToVisit(t, y) /\ y # x)
  BY <1>t DEF Leaving, Cutting, Kept, Current, ToVisit
<1>s. \A u \in Callers \ {t} :
        /\ Same(u) /\ Leaving(u)' = Leaving(u) /\ Cutting(u)' = Cutting(u)
        /\ ~Leaving(u) /\ ~Cutting(u) /\ pc[u] \notin {"findOther", "connect", "eraseRest"}
  BY <1>t, SameFacts, OneRemoves DEF LinkInv, Removing, Clearing
<1>c. \A c \in callbacks : \A o \in Ends(c) : o \in actors \/ (Leaving(t) /\ o = target)
  BY <1>s DEF LinkInv, CallbackInv
<1>k. callbacks \subseteq Callbacks /\ reported \subseteq Reports /\ Tables \subseteq Ports
  BY SchemesAssumption DEF TypeInv, TypeOK, Callbacks, Reports
\* After the visit x has no callback that is of the actor, and reports none.
<1>v. ASSUME NEW c \in callbacks', target \in Ends(c) PROVE c[1][1] # x
  <2> SUFFICES ASSUME c[1][1] = x PROVE FALSE
    OBVIOUS
  <2>0. c \in callbacks /\ Named(c) \notin names(x) /\ x # target
    BY <1>x
  <2>1. x \in actors
    BY <1>c, <2>0 DEF Ends
  <2>2. c[2][1] = target
    BY <1>v, <2>0 DEF Ends
  <2>3. c[1] \in {x} \X Ports /\ c[2][2] \in Ports
    BY <1>k, <2>0 DEF Callbacks
  <2>4. Named(c) \in names(x)
    BY <2>1, <2>2, <2>3 DEF Named
  <2> QED BY <2>0, <2>4
<1>w. ASSUME NEW r \in reported', r[1][1] \in actors, r[2][1] = Id(target) PROVE r[1][1] # x
  <2> SUFFICES ASSUME r[1][1] = x PROVE FALSE
    OBVIOUS
  <2>1. r \in Reports /\ r \notin names(x)
    BY <1>x, <1>k
  <2>2. r[1] \in {x} \X Ports /\ r[2] \in {Id(target)} \X Ports /\ r = <<r[1], r[2]>>
    BY <1>k, <1>w, <2>1 DEF Reports, Nodes
  <2> QED BY <1>w, <2>1, <2>2
<1>sub. callbacks' \subseteq callbacks /\ reported' \subseteq reported
  BY <1>x
<1> HIDE DEF target, names
<1>1. CallbackInv'
  <2> SUFFICES ASSUME NEW c \in callbacks', NEW o \in Ends(c), o \notin actors
               PROVE  Leaving(t) /\ o = target /\ ToVisit(t, c[1][1]) /\ c[1][1] # x
    BY <1>t, <1>l DEF CallbackInv, Ends, target
  <2>1. Leaving(t) /\ o = target /\ ToVisit(t, c[1][1])
    BY <1>s, <1>sub DEF LinkInv, CallbackInv, target
  <2> QED BY <1>v, <2>1
<1>2. CutInv'
  <2> SUFFICES ASSUME Cutting(t), NEW c \in callbacks', NEW o \in Ends(c), Id(o) \notin Kept(t)
               PROVE  o \in loc[t].targets \/ (o = target /\ ToVisit(t, c[1][1]) /\ c[1][1] # x)
    BY <1>t, <1>l, <1>s DEF CutInv, Ends, Id, target
  <2>1. o \in loc[t].targets \/ (o = target /\ ToVisit(t, c[1][1]))
    BY <1>sub DEF LinkInv, CutInv, target
  <2> QED BY <1>v, <2>1
<1>3. ReportInv'
  <2> SUFFICES ASSUME NEW r \in reported', r[1][1] \in actors, ~InScheme(r[2][1])
               PROVE  Leaving(t) /\ r[2][1] = loc[t].id /\ ToVisit(t, r[1][1]) /\ r[1][1] # x
    BY <1>t, <1>l DEF ReportInv, InScheme, Id
  <2>1. Leaving(t) /\ r[2][1] = loc[t].id /\ ToVisit(t, r[1][1])
    BY <1>s, <1>sub DEF LinkInv, ReportInv
  <2>2. r[2][1] = Id(target)
    BY <1>t, <2>1 DEF Leaving
  <2> QED BY <1>w, <2>1, <2>2
<1>4. ReportCutInv'
  <2> SUFFICES ASSUME Cutting(t), NEW r \in reported', r[1][1] \in actors, r[2][1] \notin Kept(t)
               PROVE  \/ \E o \in loc[t].targets : Id(o) = r[2][1]
                      \/ r[2][1] = Id(target) /\ ToVisit(t, r[1][1]) /\ r[1][1] # x
    BY <1>t, <1>l, <1>s DEF ReportCutInv, Id, target
  <2>1. \/ \E o \in loc[t].targets : Id(o) = r[2][1]
        \/ r[2][1] = Id(target) /\ ToVisit(t, r[1][1])
    BY <1>sub DEF LinkInv, ReportCutInv, target
  <2> QED BY <1>w, <2>1
<1>5. NewInv'
  BY <1>t, <1>s, <1>sub DEF LinkInv, NewInv, NewOK, Same
<1>6. FoundInv'
  BY <1>t, <1>l, <1>s DEF LinkInv, FoundInv, FoundOK, Same
<1> QED BY <1>1, <1>2, <1>3, <1>4, <1>5, <1>6 DEF LinkInv

\* Nothing is left to visit, so nothing has a link of the actor.
LEMMA VisitEndsLinks ==
  ASSUME TypeInv, LinkInv, NEW t \in Callers, VisitEnds(t), Moves(t),
         NoClash', \A u \in Callers \ {t} : Same(u)
  PROVE  LinkInv'
<1>t. /\ pc[t] = "visit" /\ loc[t].todo = {} /\ loc[t].job \in Clearing \cup {"detach"}
      /\ UNCHANGED <<actors, callbacks, reported>>
  BY DEF VisitEnds, TypeInv, LocalOK, JobOK, tables
<1>p. \/ loc[t].job = "detach" /\ pc'[t] = "idle" /\ loc'[t] = Rest
      \/ /\ loc[t].job \in Clearing /\ pc'[t] = "outer"
         /\ loc'[t].job = loc[t].job /\ loc'[t].plan = loc[t].plan
         /\ loc'[t].targets = loc[t].targets /\ loc'[t].actor = None
  BY <1>t DEF VisitEnds, End, Goto, TypeInv, Locals, Clearing
<1>l. /\ ~Leaving(t)' /\ ~Current(t)' /\ pc'[t] \in {"idle", "outer"}
      /\ \A x : ~ToVisit(t, x)
      /\ Cutting(t)' => Cutting(t) /\ Kept(t)' = Kept(t) /\ loc'[t].targets = loc[t].targets
      /\ loc'[t].actor = None
  BY <1>t, <1>p DEF Leaving, Cutting, Kept, Current, ToVisit, Clearing, Rest
<1>s. \A u \in Callers \ {t} :
        /\ Same(u) /\ Leaving(u)' = Leaving(u) /\ Cutting(u)' = Cutting(u)
        /\ ~Leaving(u) /\ ~Cutting(u) /\ pc[u] \notin {"findOther", "connect", "eraseRest"}
  BY <1>t, SameFacts, OneRemoves DEF LinkInv, Removing, Clearing
<1>1. CallbackInv'
  BY <1>t, <1>l, <1>s DEF LinkInv, CallbackInv, Ends
<1>2. CutInv'
  <2> SUFFICES ASSUME Cutting(t)', NEW c \in callbacks, NEW o \in Ends(c), Id(o) \notin Kept(t)
               PROVE  o \in loc[t].targets
    BY <1>t, <1>l, <1>s DEF CutInv, Ends, Id
  <2> QED BY <1>l DEF LinkInv, CutInv
<1>3. ReportInv'
  BY <1>t, <1>l, <1>s DEF LinkInv, ReportInv, InScheme, Id
<1>4. ReportCutInv'
  <2> SUFFICES ASSUME Cutting(t)', NEW r \in reported, r[1][1] \in actors, r[2][1] \notin Kept(t)
               PROVE  \E o \in loc[t].targets : Id(o) = r[2][1]
    BY <1>t, <1>l, <1>s DEF ReportCutInv, Id
  <2> QED BY <1>l DEF LinkInv, ReportCutInv
<1>5. NewInv'
  <2> SUFFICES ASSUME NEW u \in Callers \ {t}, pc[u] = "attach"
               PROVE  /\ loc[u].actor \notin actors
                      /\ \A w \in Callers \ {u} : loc'[w].actor # loc[u].actor
                      /\ \A r \in reported : r[1][1] # loc[u].actor
    BY <1>t, <1>l, <1>s DEF NewInv, NewOK, Same
  <2>1. loc[u].actor # None
    BY ActorFacts DEF TypeInv, LocalOK
  <2> QED BY <1>l, <1>s, <2>1 DEF LinkInv, NewInv, NewOK, Same
<1>6. FoundInv'
  BY <1>t, <1>l, <1>s DEF LinkInv, FoundInv, FoundOK, Same
<1> QED BY <1>1, <1>2, <1>3, <1>4, <1>5, <1>6 DEF LinkInv

\* The targets: all actors that are in the scheme and will not be.
LEMMA ShareLinks ==
  ASSUME TypeInv, LinkInv, NEW t \in Callers, ShareScheme(t),
         NoClash', \A u \in Callers \ {t} : Same(u)
  PROVE  LinkInv'
<1>t. /\ pc[t] = "share" /\ pc'[t] = "outer" /\ loc[t].job \in Clearing
      /\ loc'[t].targets = {o \in actors : Id(o) \notin Kept(t)}
      /\ loc'[t].job = loc[t].job /\ loc'[t].plan = loc[t].plan /\ loc'[t].actor = loc[t].actor
      /\ UNCHANGED <<actors, callbacks, reported>>
  BY DEF ShareScheme, Goto, TypeInv, Locals, LocalOK, JobOK, tables
<1>l. ~Leaving(t) /\ ~Leaving(t)' /\ Cutting(t)' /\ Kept(t)' = Kept(t)
  BY <1>t DEF Leaving, Cutting, Kept
<1>s. \A u \in Callers \ {t} :
        /\ Same(u) /\ Leaving(u)' = Leaving(u) /\ Cutting(u)' = Cutting(u)
        /\ ~Leaving(u) /\ ~Cutting(u) /\ pc[u] \notin {"findOther", "connect", "eraseRest"}
  BY <1>t, SameFacts, OneRemoves DEF LinkInv, Removing, Clearing
<1>c. \A c \in callbacks : \A o \in Ends(c) : o \in actors
  BY <1>l, <1>s DEF LinkInv, CallbackInv
<1>1. CallbackInv'
  BY <1>t, <1>c DEF CallbackInv, Ends
<1>2. CutInv'
  BY <1>t, <1>l, <1>s, <1>c DEF CutInv, Ends, Id
<1>r. \A r \in reported : r[1][1] \in actors => InScheme(r[2][1])
  BY <1>l, <1>s DEF LinkInv, ReportInv
<1>3. ReportInv'
  BY <1>t, <1>r DEF ReportInv, InScheme, Id
<1>4. ReportCutInv'
  <2> SUFFICES ASSUME NEW r \in reported, r[1][1] \in actors, r[2][1] \notin Kept(t)
               PROVE  \E o \in loc'[t].targets : Id(o) = r[2][1]
    BY <1>t, <1>l, <1>s DEF ReportCutInv, Id
  <2> QED BY <1>t, <1>r DEF InScheme, Id
<1>5. NewInv'
  BY <1>t, <1>s DEF LinkInv, NewInv, NewOK, Same
<1>6. FoundInv'
  BY <1>t, <1>l, <1>s DEF LinkInv, FoundInv, FoundOK, Same
<1> QED BY <1>1, <1>2, <1>3, <1>4, <1>5, <1>6 DEF LinkInv

\* A target becomes the actor that is cut; without one nothing is left to cut.
LEMMA NextLinks ==
  ASSUME TypeInv, LinkInv, NEW t \in Callers, NextTarget(t),
         NoClash', \A u \in Callers \ {t} : Same(u)
  PROVE  LinkInv'
<1>k. /\ loc \in [Callers -> Locals] /\ pc \in [Callers -> Labels]
      /\ pc[t] = "outer" /\ loc[t].job \in Clearing
      /\ UNCHANGED <<actors, callbacks, reported>>
  BY DEF NextTarget, TypeInv, LocalOK, JobOK, tables
<1>p. /\ loc'[t].job = loc[t].job /\ loc'[t].plan = loc[t].plan
      /\ \/ /\ pc'[t] = "nested" /\ loc'[t].actor \in loc[t].targets
            /\ loc'[t].targets = loc[t].targets \ {loc'[t].actor}
         \/ /\ pc'[t] = "eraseRest" /\ loc'[t].actor = loc[t].actor
            /\ loc[t].targets = {} /\ loc'[t].targets = {}
  <2>1. ASSUME NEW o \in loc[t].targets, Goto(t, "nested"),
               loc' = [loc EXCEPT ![t].targets = @ \ {o}, ![t].actor = o]
        PROVE  /\ loc'[t].job = loc[t].job /\ loc'[t].plan = loc[t].plan
               /\ pc'[t] = "nested" /\ loc'[t].actor = o
               /\ loc'[t].targets = loc[t].targets \ {o}
    <3>1. loc'[t] = [loc[t] EXCEPT !.targets = @ \ {o}, !.actor = o]
      BY <1>k, <2>1
    <3> QED BY <1>k, <2>1, <3>1 DEF Locals, Goto
  <2>2. CASE loc[t].targets = {} /\ Goto(t, "eraseRest") /\ UNCHANGED loc
    BY <1>k, <2>2 DEF Goto
  <2> QED BY <2>1, <2>2 DEF NextTarget
<1>l. /\ ~Leaving(t) /\ ~Leaving(t)' /\ Cutting(t) /\ Cutting(t)' /\ Kept(t)' = Kept(t)
      /\ ~Current(t) /\ \A x : ToVisit(t, x)'
      /\ pc'[t] = "nested" => Current(t)'
  BY <1>k, <1>p DEF Leaving, Cutting, Kept, Current, ToVisit, Clearing
<1>s. \A u \in Callers \ {t} :
        /\ Same(u) /\ Leaving(u)' = Leaving(u) /\ Cutting(u)' = Cutting(u)
        /\ ~Leaving(u) /\ ~Cutting(u) /\ pc[u] \notin {"findOther", "connect", "eraseRest"}
  BY <1>k, <1>p, SameFacts, OneRemoves DEF LinkInv, Removing, Clearing
<1>1. CallbackInv'
  BY <1>k, <1>p, <1>l, <1>s DEF LinkInv, CallbackInv, Ends
<1>2. CutInv'
  <2> SUFFICES ASSUME NEW c \in callbacks, NEW o \in Ends(c), Id(o) \notin Kept(t)
               PROVE  o \in loc'[t].targets \/ (pc'[t] = "nested" /\ o = loc'[t].actor)
    BY <1>k, <1>p, <1>l, <1>s DEF CutInv, Ends, Id
  <2>1. o \in loc[t].targets
    BY <1>l DEF LinkInv, CutInv
  <2> QED BY <1>p, <2>1
<1>3. ReportInv'
  BY <1>k, <1>p, <1>l, <1>s DEF LinkInv, ReportInv, InScheme, Id
<1>4. ReportCutInv'
  <2> SUFFICES ASSUME NEW r \in reported, r[1][1] \in actors, r[2][1] \notin Kept(t)
               PROVE  \/ \E o \in loc'[t].targets : Id(o) = r[2][1]
                      \/ pc'[t] = "nested" /\ r[2][1] = Id(loc'[t].actor)
    BY <1>k, <1>p, <1>l, <1>s DEF ReportCutInv, Id
  <2>1. \E o \in loc[t].targets : Id(o) = r[2][1]
    BY <1>l DEF LinkInv, ReportCutInv
  <2> QED BY <1>p, <2>1
<1>5. NewInv'
  <2> SUFFICES ASSUME NEW u \in Callers \ {t}, pc[u] = "attach"
               PROVE  /\ loc[u].actor \notin actors
                      /\ \A w \in Callers \ {u} : loc'[w].actor # loc[u].actor
                      /\ \A r \in reported : r[1][1] # loc[u].actor
    BY <1>k, <1>p, <1>s DEF NewInv, NewOK, Same
  <2>1. loc[t].targets \subseteq actors
    BY <1>l DEF LinkInv, FoundInv, FoundOK
  <2>2. loc'[t].actor # loc[u].actor
    BY <1>p, <2>1 DEF LinkInv, NewInv, NewOK
  <2> QED BY <1>s, <2>2 DEF LinkInv, NewInv, NewOK, Same
<1>6. FoundInv'
  BY <1>k, <1>p, <1>l, <1>s DEF LinkInv, FoundInv, FoundOK, Same
<1> QED BY <1>1, <1>2, <1>3, <1>4, <1>5, <1>6 DEF LinkInv

\* No target is left: what is erased has no link.
LEMMA EraseRestLinks ==
  ASSUME TypeInv, LinkInv, NEW t \in Callers, EraseRest(t), Moves(t),
         NoClash', \A u \in Callers \ {t} : Same(u)
  PROVE  LinkInv'
<1>k. /\ loc \in [Callers -> Locals] /\ pc \in [Callers -> Labels]
      /\ pc[t] = "eraseRest" /\ loc[t].job \in Clearing
      /\ actors' = {o \in actors : Id(o) \in Kept(t)}
      /\ UNCHANGED <<callbacks, reported>>
  BY DEF EraseRest, TypeInv, LocalOK, JobOK, tables
<1>p. pc'[t] \in {"idle", "actors", "links"} /\ loc'[t].actor \in {None, loc[t].actor}
  <2>1. \/ End(t)
        \/ (Goto(t, "actors") \/ Goto(t, "links")) /\ UNCHANGED loc
    BY <1>k DEF EraseRest, Clearing
  <2> QED BY <1>k, <2>1 DEF End, Goto, Rest
<1>l. ~Leaving(t) /\ ~Leaving(t)' /\ Cutting(t) /\ ~Cutting(t)' /\ ~Current(t) /\ loc[t].targets = {}
  BY <1>k, <1>p DEF Leaving, Cutting, Current, Clearing, LinkInv, FoundInv, FoundOK
<1>s. \A u \in Callers \ {t} :
        /\ Same(u) /\ Leaving(u)' = Leaving(u) /\ Cutting(u)' = Cutting(u)
        /\ ~Leaving(u) /\ ~Cutting(u) /\ pc[u] \notin {"findOther", "connect", "eraseRest"}
  BY <1>k, <1>p, SameFacts, OneRemoves DEF LinkInv, Removing, Clearing
<1>1. CallbackInv'
  <2>1. \A c \in callbacks : \A o \in Ends(c) : o \in actors
    BY <1>l, <1>s DEF LinkInv, CallbackInv
  <2>2. \A c \in callbacks : \A o \in Ends(c) : Id(o) \in Kept(t)
    BY <1>l DEF LinkInv, CutInv
  <2> QED BY <1>k, <1>p, <2>1, <2>2 DEF CallbackInv, Ends
<1>2. CutInv' /\ ReportCutInv'
  BY <1>l, <1>s DEF CutInv, ReportCutInv
<1>3. ReportInv'
  <2> SUFFICES ASSUME NEW r \in reported, r[1][1] \in actors PROVE InScheme(r[2][1])'
    BY <1>k, <1>p DEF ReportInv
  <2>1. PICK o \in actors : Id(o) = r[2][1]
    BY <1>l, <1>s DEF LinkInv, ReportInv, InScheme
  <2>2. r[2][1] \in Kept(t)
    BY <1>l DEF LinkInv, ReportCutInv
  <2> QED BY <1>k, <1>p, <2>1, <2>2 DEF InScheme, Id
<1>5. NewInv'
  <2> SUFFICES ASSUME NEW u \in Callers \ {t}, pc[u] = "attach"
               PROVE  /\ loc[u].actor \notin actors
                      /\ \A w \in Callers \ {u} : loc'[w].actor # loc[u].actor
                      /\ \A r \in reported : r[1][1] # loc[u].actor
    BY <1>k, <1>p, <1>s DEF NewInv, NewOK, Same
  <2>1. loc[u].actor # None
    BY ActorFacts DEF TypeInv, LocalOK
  <2> QED BY <1>k, <1>p, <1>s, <2>1 DEF LinkInv, NewInv, NewOK, Same
<1>6. FoundInv'
  BY <1>k, <1>p, <1>l, <1>s DEF FoundInv, FoundOK, Same
<1> QED BY <1>1, <1>2, <1>3, <1>5, <1>6 DEF LinkInv

\* Who connects two actors found them in the scheme, where they still are.
LEMMA ConnectLinks ==
  ASSUME TypeInv, LinkInv, NEW t \in Callers, Connect(t), Moves(t),
         NoClash', \A u \in Callers \ {t} : Same(u)
  PROVE  LinkInv'
<1> DEFINE l == loc[t].link[1]
           new == Connected(<<loc[t].peer, l[1][2]>>, <<loc[t].actor, l[2][2]>>)
<1>t. /\ pc[t] = "connect" /\ loc[t].job \in Connecting /\ UNCHANGED actors
      /\ loc[t].peer \in actors /\ loc[t].actor \in actors
      /\ loc[t].peer \in Actors /\ loc[t].actor \in Actors /\ loc[t].link \in LinkRecords
  BY DEF Connect, TypeInv, LocalOK, JobOK, Applying, Connecting, LinkInv, FoundInv, FoundOK
<1>p. pc'[t] \in {"data", "apply", "idle"} /\ loc'[t].actor = None
  <2>1. \/ loc' = [loc EXCEPT ![t].actor = None, ![t].peer = None] /\ Goto(t, "data")
        \/ Return(t, "apply")
    BY DEF Connect
  <2> QED BY <2>1 DEF Return, End, Goto, Rest, TypeInv, Locals
<1>c. /\ callbacks' \subseteq callbacks \cup new
      /\ reported' \subseteq reported \cup {Named(c) : c \in new}
  BY DEF Connect, AttachPorts
<1>n. /\ \A c \in new : Ends(c) \subseteq actors
      /\ \A c \in new : Named(c)[1][1] \in actors /\ InScheme(Named(c)[2][1])
  <2> SUFFICES ASSUME NEW c \in new
               PROVE  Ends(c) \subseteq actors /\ Named(c)[1][1] \in actors
                      /\ InScheme(Named(c)[2][1])
    OBVIOUS
  <2> DEFINE x == <<loc[t].peer, l[1][2]>>
             y == <<loc[t].actor, l[2][2]>>
  <2>1. c = <<x, y>> \/ c = <<y, x>>
    BY DEF Connected
  <2>2. Ends(c) = {loc[t].peer, loc[t].actor}
    BY <2>1 DEF Ends
  <2> QED BY <1>t, <2>2 DEF Ends, Named, InScheme
<1> HIDE DEF new
<1>l. ~Leaving(t) /\ ~Leaving(t)' /\ ~Cutting(t)'
  BY <1>t, <1>p DEF Leaving, Cutting
<1>s. \A u \in Callers \ {t} :
        /\ Same(u) /\ Leaving(u)' = Leaving(u) /\ Cutting(u)' = Cutting(u)
        /\ ~Leaving(u) /\ ~Cutting(u)
  BY <1>t, SameFacts, NobodyCuts DEF LinkInv
<1>1. CallbackInv'
  <2>1. \A c \in callbacks : \A o \in Ends(c) : o \in actors
    BY <1>l, <1>s DEF LinkInv, CallbackInv
  <2> QED BY <1>t, <1>c, <1>n, <2>1 DEF CallbackInv, Ends
<1>2. CutInv' /\ ReportCutInv'
  BY <1>l, <1>s DEF CutInv, ReportCutInv
<1>3. ReportInv'
  <2>1. \A r \in reported : r[1][1] \in actors => InScheme(r[2][1])
    BY <1>l, <1>s DEF LinkInv, ReportInv
  <2> QED BY <1>t, <1>c, <1>n, <2>1 DEF ReportInv, InScheme, Id
<1>5. NewInv'
  <2> SUFFICES ASSUME NEW u \in Callers \ {t}, pc[u] = "attach"
               PROVE  /\ loc[u].actor \notin actors
                      /\ \A w \in Callers \ {u} : loc'[w].actor # loc[u].actor
                      /\ \A r \in reported' : r[1][1] # loc[u].actor
    BY <1>t, <1>p, <1>s DEF NewInv, NewOK, Same
  <2>1. loc[u].actor # None
    BY ActorFacts DEF TypeInv, LocalOK
  <2>2. loc[u].actor \notin actors /\ \A r \in reported : r[1][1] # loc[u].actor
    BY DEF LinkInv, NewInv, NewOK
  <2> QED BY <1>p, <1>c, <1>n, <1>s, <2>1, <2>2 DEF LinkInv, NewInv, NewOK, Same
<1>6. FoundInv'
  BY <1>t, <1>p, <1>l, <1>s DEF LinkInv, FoundInv, FoundOK, Same
<1> QED BY <1>1, <1>2, <1>3, <1>5, <1>6 DEF LinkInv

\* A step to a label at which nothing is said of what the caller has found.
LEMMA PlainStep ==
  ASSUME TypeInv, LinkInv, NEW t \in Callers, \A u \in Callers \ {t} : Same(u), NoClash',
         pc[t] \notin {"removeAll", "visit"},
         pc'[t] \in {"idle", "spawn", "erase", "find", "data", "findBoth", "detach", "detachAgain",
                     "actors", "original", "links", "read", "apply", "prune", "share"},
         loc'[t].actor \in actors \cup {None, loc[t].actor},
         actors' = actors, callbacks' \subseteq callbacks, reported' \subseteq reported
  PROVE  LinkInv'
<1>1. ~Leaving(t) /\ ~Cutting(t)' /\ FoundOK(t)' /\ NewOK(t)'
  BY DEF Leaving, Cutting, FoundOK, NewOK
<1> QED BY <1>1, QuietStep

LEMMA ReturnFacts ==
  ASSUME TypeInv, NEW t \in Callers, NEW p, Return(t, p)
  PROVE  pc'[t] \in {"idle", p} /\ loc'[t].actor = None
BY DEF Return, End, Goto, Rest, TypeInv, Locals

LEMMA EndFacts ==
  ASSUME TypeInv, NEW t \in Callers, End(t)
  PROVE  pc'[t] = "idle" /\ loc'[t].actor = None
BY DEF End, Goto, Rest, TypeInv

\* An actor that comes into the scheme has no links and is in no other hands.
LEMMA AttachLinks ==
  ASSUME TypeInv, LinkInv, NEW t \in Callers, Attach(t),
         NoClash', \A u \in Callers \ {t} : Same(u)
  PROVE  LinkInv'
<1>1. pc[t] = "attach" /\ End(t) /\ UNCHANGED <<callbacks, reported>>
  BY DEF Attach, tables
<1>2. pc'[t] = "idle" /\ loc'[t].actor = None
  BY <1>1, EndFacts
<1>3. ~Leaving(t) /\ ~Cutting(t)' /\ FoundOK(t)' /\ NewOK(t)'
  BY <1>1, <1>2 DEF Leaving, Cutting, FoundOK, NewOK
<1>4. actors' = actors \/ actors' = actors \cup {loc[t].actor}
  BY DEF Attach
<1>5. /\ \A u \in Callers \ {t} : loc[u].actor # loc[t].actor
      /\ \A r \in reported : r[1][1] # loc[t].actor
  BY <1>1 DEF LinkInv, NewInv, NewOK
<1> QED BY <1>1, <1>2, <1>3, <1>4, <1>5, QuietStep

LEMMA SpawnLinks ==
  ASSUME TypeInv, LinkInv, NEW t \in Callers, Spawn(t),
         NoClash', \A u \in Callers \ {t} : Same(u)
  PROVE  LinkInv'
<1> DEFINE created == {o \in Actors : Id(o) = loc[t].id /\ Unused(o)}
           a == CHOOSE x \in created : TRUE
<1>1. pc[t] = "spawn" /\ pc'[t] \in {"idle", "actors"} /\ loc'[t].actor \in {None, loc[t].actor}
  <2>1. End(t) \/ (Goto(t, "actors") /\ UNCHANGED loc)
    BY DEF Spawn
  <2> QED BY <2>1, EndFacts DEF Spawn, Goto, TypeInv
<1>2. CASE UNCHANGED <<actors, tables>>
  BY <1>1, <1>2, PlainStep DEF tables
<1>3. CASE /\ created # {} /\ actors' = actors \cup {a}
           /\ callbacks' = {c \in callbacks : c[1][1] # a}
           /\ reported' = {r \in reported : r[1][1] # a}
  <2>1. Unused(a)
    BY <1>3
  <2> HIDE DEF a, created
  <2>2. \A u \in Callers : loc[u].actor # a
    BY <2>1 DEF Unused, Alive, Pinned
  <2>3. ~Leaving(t) /\ ~Cutting(t)' /\ FoundOK(t)' /\ NewOK(t)'
    BY <1>1 DEF Leaving, Cutting, FoundOK, NewOK
  <2> QED BY <1>1, <1>3, <2>2, <2>3, QuietStep
<1> QED BY <1>2, <1>3 DEF Spawn

LEMMA StepLinks ==
  ASSUME TypeInv, LinkInv, NEW t \in Callers, Step(t)
  PROVE  LinkInv'
<1>m. Moves(t) /\ NoClash' /\ \A u \in Callers \ {t} : Same(u)
  BY StepMoves, MovesSame
<1>t. loc \in [Callers -> Locals] /\ loc[t] \in Locals /\ pc \in [Callers -> Labels]
  BY DEF TypeInv
\* A step that leaves the scheme alone, or only takes links away.
<1>p. ASSUME NEW p \in {"spawn", "find", "data", "findBoth", "detach", "detachAgain", "actors",
                        "links", "read", "apply", "prune", "share"},
             \/ End(t)
             \/ Return(t, p)
             \/ Goto(t, p) /\ loc'[t].actor \in actors \cup {loc[t].actor},
             pc[t] \notin {"removeAll", "visit"},
             actors' = actors, callbacks' \subseteq callbacks, reported' \subseteq reported
      PROVE  LinkInv'
  <2>1. pc'[t] \in {"idle", p} /\ loc'[t].actor \in actors \cup {None, loc[t].actor}
    BY <1>t, <1>p, EndFacts, ReturnFacts DEF Goto
  <2> QED BY <1>m, <1>p, <2>1, PlainStep
<1>1. CASE Attach(t)
  BY <1>1, <1>m, AttachLinks
<1>2. CASE Spawn(t)
  BY <1>2, <1>m, SpawnLinks
<1>3. CASE Erase(t)
  <2>1. CASE End(t) /\ UNCHANGED actors
    BY <1>3, <1>p, <2>1 DEF Erase, tables
  <2> QED BY <1>3, <1>m, <2>1, EraseLinks DEF Erase
<1>4. CASE RemoveAllConections(t)
  BY <1>4, <1>m, RemoveAllLinks
<1>5. CASE Visit(t)
  BY <1>5, <1>m, VisitLinks
<1>6. CASE VisitEnds(t)
  BY <1>6, <1>m, VisitEndsLinks
<1>7. CASE ShareScheme(t)
  BY <1>7, <1>m, ShareLinks
<1>8. CASE NextTarget(t)
  BY <1>8, <1>m, NextLinks
<1>9. CASE EraseRest(t)
  BY <1>9, <1>m, EraseRestLinks
<1>10. CASE FindSource(t)
  <2>0. pc[t] = "find" /\ UNCHANGED <<actors, callbacks, reported>>
    BY <1>10 DEF FindSource, tables
  <2>1. CASE Return(t, "apply")
    BY <1>p, <2>0, <2>1
  <2> DEFINE i == loc[t].link[1][1][1]
  <2>2. CASE InScheme(i) /\ loc' = [loc EXCEPT ![t].peer = ActorOf(i)] /\ Goto(t, "findOther")
    <3>1. loc'[t] = [loc[t] EXCEPT !.peer = ActorOf(i)] /\ pc'[t] = "findOther"
      BY <1>t, <2>2 DEF Goto
    <3>2. loc'[t].peer = ActorOf(i) /\ loc'[t].actor = loc[t].actor /\ ActorOf(i) \in actors
      BY <1>t, <2>2, <3>1, ActorOfFacts DEF Locals
    <3>3. ~Leaving(t) /\ ~Cutting(t)' /\ FoundOK(t)' /\ NewOK(t)'
      BY <2>0, <3>1, <3>2 DEF Leaving, Cutting, FoundOK, NewOK
    <3> QED BY <1>m, <2>0, <3>1, <3>2, <3>3, QuietStep
  <2> QED BY <1>10, <2>1, <2>2 DEF FindSource
<1>11. CASE FindDestination(t)
  <2>0. pc[t] = "findOther" /\ UNCHANGED <<actors, callbacks, reported>>
    BY <1>11 DEF FindDestination, tables
  <2>1. CASE Return(t, "apply")
    BY <1>p, <2>0, <2>1
  <2> DEFINE i == loc[t].link[1][2][1]
  <2>2. CASE InScheme(i) /\ loc' = [loc EXCEPT ![t].actor = ActorOf(i)] /\ Goto(t, "connect")
    <3>1. loc'[t] = [loc[t] EXCEPT !.actor = ActorOf(i)] /\ pc'[t] = "connect"
      BY <1>t, <2>2 DEF Goto
    <3>2. loc'[t].peer = loc[t].peer /\ loc'[t].actor = ActorOf(i) /\ ActorOf(i) \in actors
      BY <1>t, <2>2, <3>1, ActorOfFacts DEF Locals
    <3>3. ~Leaving(t) /\ ~Cutting(t)' /\ FoundOK(t)' /\ NewOK(t)'
      BY <2>0, <3>1, <3>2 DEF Leaving, Cutting, LinkInv, FoundInv, FoundOK, NewOK
    <3> QED BY <1>m, <2>0, <3>1, <3>2, <3>3, QuietStep
  <2> QED BY <1>11, <2>1, <2>2 DEF FindDestination
<1>12. CASE Connect(t)
  BY <1>12, <1>m, ConnectLinks
<1>13. CASE SetLinkUserData(t)
  BY <1>13, <1>p DEF SetLinkUserData
<1>14. CASE FindBoth(t)
  <2>0. pc[t] = "findBoth" /\ UNCHANGED <<actors, callbacks, reported>>
    BY <1>14 DEF FindBoth, tables
  <2> DEFINE l == loc[t].link[1]
  <2>2. CASE /\ InScheme(l[2][1]) /\ Goto(t, "detach")
             /\ loc' = [loc EXCEPT ![t].peer = ActorOf(l[1][1]), ![t].actor = ActorOf(l[2][1])]
    <3>1. loc'[t] = [loc[t] EXCEPT !.peer = ActorOf(l[1][1]), !.actor = ActorOf(l[2][1])]
      BY <1>t, <2>2
    <3>2. loc'[t].actor \in actors
      BY <1>t, <2>2, <3>1, ActorOfFacts DEF Locals
    <3> QED BY <1>p, <2>0, <2>2, <3>2
  <2> QED BY <1>14, <1>p, <2>0, <2>2 DEF FindBoth
<1>15. CASE DisconnectFirst(t)
  BY <1>15, <1>p DEF DisconnectFirst, DetachPorts
<1>16. CASE DisconnectSecond(t)
  BY <1>16, <1>p DEF DisconnectSecond, DetachPorts
\* The other steps change a list, an id or a link of the caller.
<1>q. ASSUME UNCHANGED <<actors, tables>>, pc[t] \in {"actors", "original", "links", "read", "apply", "prune"},
             \/ End(t)
             \/ /\ pc'[t] \in {"spawn", "find", "data", "findBoth", "detach", "detachAgain",
                               "actors", "links", "read", "apply", "prune", "share"}
                /\ loc'[t].actor = loc[t].actor
      PROVE  LinkInv'
  <2>1. /\ pc'[t] \in {"idle", "spawn", "find", "data", "findBoth", "detach", "detachAgain",
                       "actors", "links", "read", "apply", "prune", "share"}
        /\ loc'[t].actor \in actors \cup {None, loc[t].actor}
    BY <1>q, EndFacts
  <2> QED BY <1>m, <1>q, <2>1, PlainStep DEF tables
<1>17. CASE NextActor(t)
  <2>1. PICK i \in loc[t].ids :
          \/ loc' = [loc EXCEPT ![t].ids = @ \ {i}] /\ UNCHANGED pc
          \/ loc' = [loc EXCEPT ![t].ids = @ \ {i}, ![t].id = i] /\ Goto(t, "spawn")
    BY <1>17 DEF NextActor
  <2>2. loc'[t].actor = loc[t].actor
    BY <1>t, <2>1 DEF Locals
  <2>3. pc[t] = "actors" /\ pc'[t] \in {"actors", "spawn"} /\ UNCHANGED <<actors, tables>>
    BY <1>17, <1>t, <2>1 DEF NextActor, Goto
  <2> QED BY <1>q, <2>2, <2>3
<1>18. CASE ActorsEnd(t)
  <2>1. pc[t] = "actors" /\ UNCHANGED <<actors, tables>> /\ JobOK(pc[t], loc[t])
    BY <1>18 DEF ActorsEnd, TypeInv, LocalOK
  <2>2. \/ End(t)
        \/ \E p \in {"share", "links"} : Goto(t, p) /\ UNCHANGED loc
        \/ Goto(t, "apply") /\ loc' = [loc EXCEPT ![t].links = loc[t].plan.links]
    BY <1>18, <2>1 DEF ActorsEnd, JobOK, Applying
  <2>3. \/ End(t)
        \/ pc'[t] \in {"share", "links", "apply"} /\ loc'[t].actor = loc[t].actor
    BY <1>t, <2>2 DEF Goto, Locals
  <2> QED BY <1>q, <2>1, <2>3
<1>19. CASE CloneActor(t)
  <2>1. pc[t] = "original" /\ UNCHANGED <<actors, tables>>
    BY <1>19 DEF CloneActor
  <2>2. End(t) \/ \E i \in Ids : loc' = [loc EXCEPT ![t].id = i] /\ Goto(t, "spawn")
    BY <1>19 DEF CloneActor
  <2>3. End(t) \/ (pc'[t] = "spawn" /\ loc'[t].actor = loc[t].actor)
    BY <1>t, <2>2 DEF Goto, Locals
  <2> QED BY <1>q, <2>1, <2>3
<1>20. CASE BeginLinks(t)
  BY <1>20, <1>q, <1>t DEF BeginLinks, Goto, Locals
<1>21. CASE LinksOfActor(t)
  <2>1. PICK o \in loc[t].todo :
          \E w : loc' = [loc EXCEPT ![t].todo = @ \ {o}, ![t].read = w]
    BY <1>21 DEF LinksOfActor
  <2>2. pc[t] = "read" /\ pc'[t] = "read" /\ UNCHANGED <<actors, tables>>
    BY <1>21 DEF LinksOfActor
  <2>3. loc'[t].actor = loc[t].actor
    BY <1>t, <2>1 DEF Locals
  <2> QED BY <1>q, <2>2, <2>3
<1>22. CASE LinksEnd(t)
  <2>1. pc[t] = "read" /\ UNCHANGED <<actors, tables>>
    BY <1>22 DEF LinksEnd
  <2>2. \/ End(t)
        \/ /\ Goto(t, "apply")
           /\ \/ loc' = [loc EXCEPT ![t].links = loc[t].plan.links]
              \/ loc' = [loc EXCEPT ![t].links = CloneLinks(t), ![t].read = {}]
    BY <1>22 DEF LinksEnd
  <2>3. End(t) \/ (pc'[t] = "apply" /\ loc'[t].actor = loc[t].actor)
    BY <1>t, <2>2 DEF Goto, Locals
  <2> QED BY <1>q, <2>1, <2>3
<1>23. CASE ApplyLink(t)
  <2>1. PICK r \in loc[t].links :
          /\ loc' = [loc EXCEPT ![t].links = @ \ {r}, ![t].link = r]
          /\ \E p \in {"find", "apply", "data"} : Goto(t, p)
    BY <1>23 DEF ApplyLink
  <2>2. pc'[t] \in {"find", "apply", "data"} /\ loc'[t].actor = loc[t].actor
    BY <1>t, <2>1 DEF Goto, Locals
  <2> QED BY <1>23, <1>q, <2>2 DEF ApplyLink
<1>24. CASE ApplyEnds(t)
  <2>1. \/ End(t)
        \/ Goto(t, "prune") /\ \E w : loc' = [loc EXCEPT ![t].link = None, ![t].links = w]
    BY <1>24 DEF ApplyEnds
  <2>2. End(t) \/ (pc'[t] = "prune" /\ loc'[t].actor = loc[t].actor)
    BY <1>t, <2>1 DEF Goto, Locals
  <2> QED BY <1>24, <1>q, <2>2 DEF ApplyEnds
<1>25. CASE PruneLink(t)
  <2>1. \/ End(t)
        \/ Goto(t, "findBoth") /\ \E w, r : loc' = [loc EXCEPT ![t].links = w, ![t].link = r]
    BY <1>25 DEF PruneLink
  <2>2. End(t) \/ (pc'[t] = "findBoth" /\ loc'[t].actor = loc[t].actor)
    BY <1>t, <2>1 DEF Goto, Locals
  <2> QED BY <1>25, <1>q, <2>2 DEF PruneLink
<1> QED BY <1>1, <1>2, <1>3, <1>4, <1>5, <1>6, <1>7, <1>8, <1>9, <1>10, <1>11, <1>12, <1>13,
           <1>14, <1>15, <1>16, <1>17, <1>18, <1>19, <1>20, <1>21, <1>22, <1>23, <1>24, <1>25
        DEF Step

\* A call begins: an actor that is attached is unused, as it is not one that the
\* application got back from Detach.
LEMMA CallLinks ==
  ASSUME TypeInv, LinkInv, NEW t \in Callers, Call(t), orderly'
  PROVE  LinkInv'
<1>1. PICK p \in Labels, v \in Locals :
        /\ CallsWith(t, p, v)
        /\ p = "attach" => v.actor \in Actors /\ (Unused(v.actor) \/ v.actor \in held)
        /\ p = "attach" /\ Unused(v.actor) => \A r \in reported' : r[1][1] # v.actor
  BY CallFacts
<1>2. actors' = actors /\ callbacks' \subseteq callbacks /\ reported' \subseteq reported
  BY CallFacts
<1>3. BeginsWith(t, p, v)
  BY <1>1, BeginFacts DEF CallsWith
<1>4. /\ loc \in [Callers -> Locals] /\ pc \in [Callers -> Labels]
      /\ pc[t] = "idle" /\ pc'[t] = p
      /\ loc'[t].job = v.job /\ loc'[t].actor = v.actor /\ loc'[t].targets = v.targets
  BY <1>3 DEF BeginsWith, TypeInv, Locals
<1>5. \A u \in Callers \ {t} : Same(u)
  <2> SUFFICES ASSUME NEW u \in Callers \ {t} PROVE Same(u)
    OBVIOUS
  <2>1. loc'[u] = [loc[u] EXCEPT !.alone = loc'[u].alone] /\ loc[u] \in Locals
    BY <1>3, <1>4 DEF BeginsWith
  <2>2. pc'[u] = pc[u]
    BY <1>3, <1>4 DEF BeginsWith
  <2> QED BY <2>1, <2>2 DEF Same, Locals
<1>6. /\ \A u \in Callers \ {t} : pc[u] # "idle" => ~Clash(v.job, loc[u].job)
      /\ v.job = "attach" => v.actor \notin held
  BY <1>1 DEF CallsWith, Begin
<1>7. NoClash'
  <2>1. \A u \in Callers \ {t} : ~Clash(v.job, loc[u].job) /\ ~Clash(loc[u].job, v.job)
    <3> SUFFICES ASSUME NEW u \in Callers \ {t}
                 PROVE  ~Clash(v.job, loc[u].job) /\ ~Clash(loc[u].job, v.job)
      OBVIOUS
    <3>1. pc[u] = "idle" => loc[u].job = "none"
      BY DEF TypeInv, LocalOK, JobOK
    <3> QED BY <1>6, <3>1 DEF Clash, Removing, Connecting
  <2> QED BY <1>4, <1>5, <2>1 DEF LinkInv, NoClash, Same
<1>8. ~Leaving(t) /\ ~Cutting(t)' /\ FoundOK(t)'
  BY <1>1, <1>4 DEF CallsWith, Leaving, Cutting, FoundOK
<1>9. CASE p # "attach"
  <2>1. NewOK(t)'
    BY <1>4, <1>9 DEF NewOK
  <2>2. v.actor = None
    BY <1>1, <1>9 DEF CallsWith
  <2> QED BY <1>2, <1>4, <1>5, <1>7, <1>8, <2>1, <2>2, QuietStep
<1>10. CASE p = "attach"
  <2>1. v.job = "attach"
    BY <1>1, <1>10 DEF CallsWith, LocalOK, JobOK
  <2>2. Unused(v.actor)
    BY <1>1, <1>6, <1>10, <2>1
  <2>3. v.actor \notin actors /\ \A u \in Callers : loc[u].actor # v.actor
    BY <2>2 DEF Unused, Alive, Pinned
  <2>4. NewOK(t)'
    BY <1>1, <1>2, <1>4, <1>5, <1>10, <2>2, <2>3 DEF NewOK, Same
  <2> QED BY <1>2, <1>4, <1>5, <1>7, <1>8, <2>3, <2>4, QuietStep
<1> QED BY <1>9, <1>10

\* The invariant: links are in order as long as the scheme is used as documented.
IInv == TypeInv /\ (orderly => LinkInv)

LEMMA InitLinks == Init => IInv
<1> SUFFICES ASSUME Init PROVE LinkInv
  BY InitTyped DEF IInv
<1>1. /\ \A t \in Callers : pc[t] = "idle" /\ loc[t].job = "none"
  BY RestFacts DEF Init
<1>2. NoClash /\ CutInv /\ ReportCutInv /\ NewInv /\ FoundInv
  BY <1>1 DEF NoClash, Clash, Removing, Connecting, CutInv, ReportCutInv, Cutting, NewInv,
              NewOK, FoundInv, FoundOK
<1> DEFINE node(n) == <<<<n[1], 1>>, n[2]>>
<1>3. PICK s \in Schemes :
        LET links == {l \in Keys(s.links) : {l[1][1], l[2][1]} \subseteq s.actors}
            new == UNION {Connected(node(l[1]), node(l[2])) : l \in links}
        IN actors = s.actors \X {1} /\ callbacks = new /\ reported = {Named(c) : c \in new}
  BY DEF Init
<1>4. \A c \in callbacks : Ends(c) \subseteq actors
  <2> SUFFICES ASSUME NEW c \in callbacks PROVE Ends(c) \subseteq actors
    OBVIOUS
  <2>1. PICK l \in Keys(s.links) :
          /\ {l[1][1], l[2][1]} \subseteq s.actors /\ c \in Connected(node(l[1]), node(l[2]))
    BY <1>3
  <2>2. c = <<node(l[1]), node(l[2])>> \/ c = <<node(l[2]), node(l[1])>>
    BY <2>1 DEF Connected
  <2>3. Ends(c) = {<<l[1][1], 1>>, <<l[2][1], 1>>}
    BY <2>2 DEF Ends
  <2> QED BY <1>3, <2>1, <2>3
<1>5. CallbackInv
  BY <1>4 DEF CallbackInv
<1>6. ReportInv
  <2> SUFFICES ASSUME NEW r \in reported PROVE InScheme(r[2][1])
    BY DEF ReportInv
  <2>1. PICK c \in callbacks : r = Named(c)
    BY <1>3
  <2> QED BY <1>4, <2>1 DEF Ends, Named, InScheme
<1> QED BY <1>2, <1>5, <1>6 DEF LinkInv

LEMMA NextInvariant == IInv /\ [Next]_vars => IInv'
<1> SUFFICES ASSUME IInv, [Next]_vars PROVE IInv'
  OBVIOUS
<1>1. TypeInv'
  BY NextTyped DEF IInv
<1>2. ASSUME orderly' PROVE LinkInv'
  <2>1. ASSUME NEW t \in Callers, Call(t) PROVE LinkInv'
    <3>1. orderly
      <4>1. PICK p \in Labels, v \in Locals : Begin(t, p, v)
        <5>1. \E p \in Labels, v \in Locals : CallsWith(t, p, v)
          BY <2>1, CallFacts DEF IInv
        <5> QED BY <5>1 DEF CallsWith
      <4> QED BY <1>2, <4>1 DEF Begin
    <3> QED BY <1>2, <2>1, <3>1, CallLinks DEF IInv
  <2>2. ASSUME NEW t \in Callers, Step(t) PROVE LinkInv'
    BY <1>2, <2>2, StepMoves, StepLinks DEF IInv, Moves
  <2>3. ASSUME UNCHANGED <<actors, tables, pc, loc, orderly>> PROVE LinkInv'
    BY <1>2, <2>3 DEF IInv, LinkInv, tables, NoClash, CallbackInv, CutInv, ReportInv, ReportCutInv,
                      NewInv, NewOK, FoundInv, FoundOK, Leaving, Cutting, Current, ToVisit, Kept,
                      InScheme
  <2> QED BY <2>1, <2>2, <2>3 DEF Next, Release, vars
<1> QED BY <1>1, <1>2 DEF IInv

LEMMA Invariance == Spec => []IInv
BY InitLinks, NextInvariant, PTL DEF Spec

\* No publisher of an actor that exists calls a port of one that is gone, however
\* many threads attach, detach, connect, clear and restore, as long as actors are
\* removed by one thread at a time and not connected meanwhile.
THEOREM NothingDangles == Spec => []NoDanglingCallback
<1>1. IInv => NoDanglingCallback
  <2> SUFFICES ASSUME IInv, orderly, NEW c \in callbacks PROVE Alive(c[2][1])
    BY DEF NoDanglingCallback
  <2> QED BY DEF IInv, LinkInv, CallbackInv, Ends, Alive, Pinned
<1> QED BY <1>1, Invariance, PTL

\* The links that the actors of the scheme report lead to actors of the scheme, but
\* for the actor that a Detach has erased and not yet disconnected.
THEOREM LinksStay == Spec => []LinksInScheme
<1>1. IInv => LinksInScheme
  <2> SUFFICES ASSUME IInv, orderly, NEW r \in reported, r[1][1] \in actors, ~InScheme(r[2][1])
               PROVE  \E t \in Callers : /\ pc[t] \in {"removeAll", "visit"}
                                         /\ loc[t].job = "detach" /\ loc[t].id = r[2][1]
    BY DEF LinksInScheme
  <2> QED BY DEF IInv, LinkInv, ReportInv, Leaving
<1> QED BY <1>1, Invariance, PTL
-----------------------------------------------------------------------------
(* One actor of an id; who is alone; callbacks that are reported *)

\* A step of an operation ends it, or goes on with the same arguments.
GoesOn(t) ==
  /\ pc'[t] # "idle"
  /\ loc'[t].job = loc[t].job /\ loc'[t].plan = loc[t].plan /\ loc'[t].alone = loc[t].alone

\* What follows Connect, Disconnect or SetLinkUserData.
LEMMA ReturnGoesOn ==
  ASSUME TypeInv, NEW t \in Callers, NEW p \in {"apply", "prune"}, Return(t, p)
  PROVE  End(t) \/ GoesOn(t)
BY DEF Return, Goto, GoesOn, TypeInv, Locals

\* Every step of an operation ends it or goes on with it.
LEMMA StepGoesOn ==
  ASSUME TypeInv, NEW t \in Callers, Step(t)
  PROVE  pc[t] # "idle" /\ (End(t) \/ GoesOn(t))
<1>t. /\ loc \in [Callers -> Locals] /\ loc[t] \in Locals
      /\ pc \in [Callers -> Labels] /\ LocalOK(pc[t], loc[t])
  BY DEF TypeInv
<1>1. CASE Attach(t)
  BY <1>1 DEF Attach
<1>2. CASE Spawn(t)
  BY <1>2, <1>t DEF Spawn, Goto, GoesOn
<1>3. CASE Erase(t)
  BY <1>3, <1>t DEF Erase, Goto, GoesOn, Locals
<1>4. CASE RemoveAllConections(t)
  BY <1>4, <1>t DEF RemoveAllConections, Goto, GoesOn, Locals
<1>5. CASE Visit(t)
  BY <1>5, <1>t DEF Visit, GoesOn, Locals
<1>6. CASE VisitEnds(t)
  BY <1>6, <1>t DEF VisitEnds, Goto, GoesOn, Locals
<1>7. CASE ShareScheme(t)
  BY <1>7, <1>t DEF ShareScheme, Goto, GoesOn, Locals
<1>8. CASE NextTarget(t)
  <2>1. ASSUME NEW o \in loc[t].targets, Goto(t, "nested"),
               loc' = [loc EXCEPT ![t].targets = @ \ {o}, ![t].actor = o]
        PROVE  GoesOn(t)
    <3>1. loc'[t] = [loc[t] EXCEPT !.targets = @ \ {o}, !.actor = o]
      BY <1>t, <2>1
    <3> QED BY <1>t, <2>1, <3>1 DEF Goto, GoesOn, Locals
  <2> QED BY <1>8, <1>t, <2>1 DEF NextTarget, Goto, GoesOn
<1>9. CASE EraseRest(t)
  BY <1>9, <1>t DEF EraseRest, Goto, GoesOn, LocalOK, JobOK, Clearing
<1>10. CASE FindSource(t)
  BY <1>10, <1>t, ReturnGoesOn DEF FindSource, Goto, GoesOn, Locals
<1>11. CASE FindDestination(t)
  BY <1>11, <1>t, ReturnGoesOn DEF FindDestination, Goto, GoesOn, Locals
<1>12. CASE Connect(t)
  BY <1>12, <1>t, ReturnGoesOn DEF Connect, Goto, GoesOn, Locals
<1>13. CASE SetLinkUserData(t)
  BY <1>13, ReturnGoesOn DEF SetLinkUserData
<1>14. CASE FindBoth(t)
  BY <1>14, <1>t, ReturnGoesOn DEF FindBoth, Goto, GoesOn, Locals
<1>15. CASE DisconnectFirst(t)
  BY <1>15, <1>t DEF DisconnectFirst, Goto, GoesOn
<1>16. CASE DisconnectSecond(t)
  BY <1>16, ReturnGoesOn DEF DisconnectSecond
<1>17. CASE NextActor(t)
  BY <1>17, <1>t DEF NextActor, Goto, GoesOn, Locals
<1>18. CASE ActorsEnd(t)
  <2>1. \/ End(t)
        \/ \E p \in {"share", "links"} : Goto(t, p) /\ UNCHANGED loc
        \/ Goto(t, "apply") /\ loc' = [loc EXCEPT ![t].links = loc[t].plan.links]
    BY <1>18, <1>t DEF ActorsEnd, LocalOK, JobOK, Applying
  <2> QED BY <1>18, <1>t, <2>1 DEF ActorsEnd, Goto, GoesOn, Locals
<1>19. CASE CloneActor(t)
  <2>1. End(t) \/ \E i \in Ids : loc' = [loc EXCEPT ![t].id = i] /\ Goto(t, "spawn")
    BY <1>19 DEF CloneActor
  <2> QED BY <1>19, <1>t, <2>1 DEF CloneActor, Goto, GoesOn, Locals
<1>20. CASE BeginLinks(t)
  BY <1>20, <1>t DEF BeginLinks, Goto, GoesOn, Locals
<1>21. CASE LinksOfActor(t)
  <2>1. \E o \in loc[t].todo : \E w : loc' = [loc EXCEPT ![t].todo = @ \ {o}, ![t].read = w]
    BY <1>21 DEF LinksOfActor
  <2> QED BY <1>21, <1>t, <2>1 DEF LinksOfActor, GoesOn, Locals
<1>22. CASE LinksEnd(t)
  <2>1. \/ End(t)
        \/ /\ Goto(t, "apply")
           /\ \/ loc' = [loc EXCEPT ![t].links = loc[t].plan.links]
              \/ loc' = [loc EXCEPT ![t].links = CloneLinks(t), ![t].read = {}]
    BY <1>22 DEF LinksEnd
  <2> QED BY <1>22, <1>t, <2>1 DEF LinksEnd, Goto, GoesOn, Locals
<1>23. CASE ApplyLink(t)
  <2>1. \E r \in loc[t].links :
          /\ loc' = [loc EXCEPT ![t].links = @ \ {r}, ![t].link = r]
          /\ \E p \in {"find", "apply", "data"} : Goto(t, p)
    BY <1>23 DEF ApplyLink
  <2> QED BY <1>23, <1>t, <2>1 DEF ApplyLink, Goto, GoesOn, Locals
<1>24. CASE ApplyEnds(t)
  <2>1. \/ End(t)
        \/ Goto(t, "prune") /\ \E w : loc' = [loc EXCEPT ![t].link = None, ![t].links = w]
    BY <1>24 DEF ApplyEnds
  <2> QED BY <1>24, <1>t, <2>1 DEF ApplyEnds, Goto, GoesOn, Locals
<1>25. CASE PruneLink(t)
  <2>1. CASE End(t)
    BY <1>25, <2>1 DEF PruneLink
  <2>2. ASSUME NEW r \in loc[t].links, Goto(t, "findBoth"),
               loc' = [loc EXCEPT ![t].links = @ \ {r}, ![t].link = r]
        PROVE  GoesOn(t)
    <3>1. loc'[t] = [loc[t] EXCEPT !.links = @ \ {r}, !.link = r]
      BY <1>t, <2>2
    <3> QED BY <1>t, <2>2, <3>1 DEF Goto, GoesOn, Locals
  <2> QED BY <1>25, <2>1, <2>2 DEF PruneLink
<1> QED BY <1>1, <1>2, <1>3, <1>4, <1>5, <1>6, <1>7, <1>8, <1>9, <1>10, <1>11, <1>12, <1>13,
           <1>14, <1>15, <1>16, <1>17, <1>18, <1>19, <1>20, <1>21, <1>22, <1>23, <1>24, <1>25
        DEF Step

\* The steps that change the map of actors, the tables of the ports, and what the
\* application keeps.
LEMMA StepChanges ==
  ASSUME TypeInv, NEW t \in Callers, Step(t)
  PROVE  /\ \/ Attach(t) \/ Spawn(t) \/ Erase(t) \/ EraseRest(t)
            \/ actors' = actors
         /\ \/ Spawn(t) \/ Visit(t) \/ Connect(t) \/ SetLinkUserData(t)
            \/ DisconnectFirst(t) \/ DisconnectSecond(t)
            \/ UNCHANGED tables
         /\ Attach(t) \/ VisitEnds(t) \/ held' = held
         /\ LinksEnd(t) \/ memento' = memento
BY DEF Step, Attach, Spawn, Erase, RemoveAllConections, Visit, VisitEnds, ShareScheme,
       NextTarget, EraseRest, FindSource, FindDestination, Connect, SetLinkUserData,
       FindBoth, DisconnectFirst, DisconnectSecond, NextActor, ActorsEnd, CloneActor,
       BeginLinks, LinksOfActor, LinksEnd, ApplyLink, ApplyEnds, PruneLink, tables

\* An actor comes into the map only when there is none of its id.
LEMMA ActorsChange ==
  ASSUME TypeInv, NEW t \in Callers, Step(t)
  PROVE  \/ actors' \subseteq actors
         \/ \E o \in Actors : ~InScheme(Id(o)) /\ actors' = actors \cup {o}
<1>1. CASE Attach(t)
  BY <1>1 DEF Attach, TypeInv, LocalOK
<1>2. CASE Spawn(t)
  <2> DEFINE created == {o \in Actors : Id(o) = loc[t].id /\ Unused(o)}
             a == CHOOSE x \in created : TRUE
  <2>1. CASE created # {} /\ ~InScheme(loc[t].id) /\ actors' = actors \cup {a}
    <3>1. a \in created
      BY <2>1
    <3> QED BY <2>1, <3>1
  <2> QED BY <1>2, <2>1 DEF Spawn
<1>3. CASE Erase(t)
  BY <1>3 DEF Erase
<1>4. CASE EraseRest(t)
  BY <1>4 DEF EraseRest
<1> QED BY <1>1, <1>2, <1>3, <1>4, StepChanges

\* What Begin does to the locals of all callers.
LEMMA CallAlone ==
  ASSUME TypeInv, NEW t \in Callers, Call(t)
  PROVE  /\ pc[t] = "idle" /\ pc'[t] # "idle"
         /\ loc'[t].alone => \A u \in Callers \ {t} : pc[u] = "idle"
         /\ \A u \in Callers \ {t} :
              /\ pc'[u] = pc[u]
              /\ pc[u] = "idle" => loc'[u] = loc[u]
              /\ pc[u] # "idle" => ~loc'[u].alone
<1>1. PICK p \in Labels, v \in Locals : CallsWith(t, p, v)
  BY CallFacts
<1> DEFINE others == {u \in Callers \ {t} : pc[u] # "idle"}
           w(u) == CASE u = t -> [v EXCEPT !.alone = (others = {})]
                     [] u \in others -> [loc[u] EXCEPT !.alone = FALSE]
                     [] OTHER -> loc[u]
<1>2. pc[t] = "idle" /\ pc' = [pc EXCEPT ![t] = p] /\ loc' = [u \in Callers |-> w(u)]
  BY <1>1 DEF CallsWith, Begin, Goto
<1>3. p # "idle"
  BY <1>1 DEF CallsWith, LocalOK, JobOK
<1>4. pc \in [Callers -> Labels] /\ loc \in [Callers -> Locals]
  BY DEF TypeInv
<1>5. \A u \in Callers : loc'[u] = w(u)
  <2> HIDE DEF w
  <2> QED BY <1>2
<1>6. loc'[t].alone => others = {}
  <2>1. w(t) = [v EXCEPT !.alone = (others = {})]
    OBVIOUS
  <2>2. w(t).alone = (others = {})
    <3> HIDE DEF w, others
    <3> QED BY <2>1 DEF Locals
  <2> HIDE DEF w, others
  <2> QED BY <1>5, <2>2
<1>7. ASSUME NEW u \in Callers \ {t}
      PROVE  /\ pc'[u] = pc[u]
             /\ pc[u] = "idle" => loc'[u] = loc[u]
             /\ pc[u] # "idle" => ~loc'[u].alone
  <2>1. pc'[u] = pc[u]
    BY <1>2, <1>4
  <2>2. pc[u] = "idle" => w(u) = loc[u]
    OBVIOUS
  <2>3. ASSUME pc[u] # "idle" PROVE ~w(u).alone
    <3>1. w(u) = [loc[u] EXCEPT !.alone = FALSE]
      BY <2>3
    <3> HIDE DEF w, others
    <3> QED BY <1>4, <3>1 DEF Locals
  <2> HIDE DEF w
  <2> QED BY <1>5, <2>1, <2>2, <2>3
<1> QED BY <1>2, <1>3, <1>4, <1>6, <1>7

\* One actor of an id in the scheme, and one in the hands of the application.
UniqueIds == \A o, a \in actors : Id(o) = Id(a) => o = a
OneKept == \A o, a \in held : Id(o) = Id(a) => o = a

\* A caller without operation has nothing in its locals; one that is alone is the
\* only one in an operation.
AloneInv ==
  \A t \in Callers :
    /\ pc[t] = "idle" => loc[t] = Rest
    /\ pc[t] # "idle" /\ loc[t].alone => \A u \in Callers \ {t} : pc[u] = "idle"

\* Every callback is reported.
NamedInv == \A c \in callbacks : Named(c) \in reported

\* An operation cuts what it does not keep.
TargetsOK(t) ==
  Cutting(t) => /\ \A o \in loc[t].targets : Id(o) \notin Kept(t)
                /\ Current(t) => Id(loc[t].actor) \notin Kept(t)
TargetInv == \A t \in Callers : TargetsOK(t)

BaseInv == UniqueIds /\ OneKept /\ AloneInv /\ NamedInv /\ TargetInv

\* No second actor of an id comes into the scheme.
LEMMA UniqueStep ==
  ASSUME TypeInv, NEW t \in Callers, Step(t), UniqueIds
  PROVE  UniqueIds'
<1>1. CASE actors' \subseteq actors
  BY <1>1 DEF UniqueIds, Id
<1>2. ASSUME NEW o \in Actors, ~InScheme(Id(o)), actors' = actors \cup {o} PROVE UniqueIds'
  BY <1>2 DEF UniqueIds, InScheme, Id
<1> QED BY <1>1, <1>2, ActorsChange

\* No second actor of an id is kept.
LEMMA KeptStep ==
  ASSUME TypeInv, NEW t \in Callers, Step(t), OneKept
  PROVE  OneKept'
<1>1. ASSUME NEW o, Keep(o) PROVE OneKept'
  BY <1>1 DEF OneKept, Keep, Id
<1>2. CASE Attach(t)
  BY <1>1, <1>2 DEF Attach, OneKept, Id
<1>3. CASE VisitEnds(t)
  BY <1>1, <1>3 DEF VisitEnds, OneKept, Id
<1>4. CASE held' = held
  BY <1>4 DEF OneKept, Id
<1> QED BY <1>2, <1>3, <1>4, StepChanges

\* Who is alone stays so: the others begin no operation without taking that from it.
LEMMA AloneStep ==
  ASSUME TypeInv, NEW t \in Callers, Step(t), AloneInv
  PROVE  AloneInv'
<1>1. /\ pc[t] # "idle" /\ \A u \in Callers \ {t} : loc'[u] = loc[u] /\ pc'[u] = pc[u]
  BY StepGoesOn, StepMoves DEF Moves
<1>2. ASSUME NEW u \in Callers \ {t} PROVE pc[u] = "idle" \/ ~loc[u].alone
  BY <1>1 DEF AloneInv
<1>3. CASE End(t)
  BY <1>1, <1>2, <1>3, EndMoves, StepMoves DEF AloneInv, Moves
<1>4. CASE GoesOn(t)
  BY <1>1, <1>2, <1>4 DEF AloneInv, GoesOn
<1> QED BY <1>3, <1>4, StepGoesOn

\* A callback goes no later than its report.
LEMMA NamedStep ==
  ASSUME TypeInv, NEW t \in Callers, Step(t), NamedInv
  PROVE  NamedInv'
<1>c. \A c \in callbacks : Named(c)[1] = c[1] /\ Named(c) \in reported
  BY CallbackFacts DEF NamedInv, TypeInv, TypeOK, Callbacks
<1>d. ASSUME NEW names, DetachPorts(names) PROVE NamedInv'
  BY <1>c, <1>d DEF DetachPorts, NamedInv, Named, Id
<1>1. CASE Spawn(t)
  <2>1. \/ UNCHANGED tables
        \/ \E o : /\ callbacks' = {c \in callbacks : c[1][1] # o}
                  /\ reported' = {r \in reported : r[1][1] # o}
    BY <1>1 DEF Spawn
  <2> QED BY <1>c, <2>1 DEF NamedInv, Named, Id, tables
<1>2. CASE Visit(t)
  <2>1. \E names : /\ \A c \in callbacks' : c \in callbacks /\ Named(c) \notin names
                   /\ reported' = reported \ names
    BY <1>2 DEF Visit
  <2> QED BY <1>c, <2>1 DEF NamedInv, Named, Id
<1>3. CASE Connect(t)
  <2>1. (\E new : AttachPorts(new)) \/ UNCHANGED <<callbacks, reported>>
    BY <1>3 DEF Connect
  <2> QED BY <1>c, <2>1 DEF AttachPorts, NamedInv, Named, Id
<1>4. CASE SetLinkUserData(t)
  BY <1>4 DEF SetLinkUserData, NamedInv, Named, Id
<1>5. CASE DisconnectFirst(t) \/ DisconnectSecond(t)
  BY <1>5, <1>d DEF DisconnectFirst, DisconnectSecond
<1>6. CASE UNCHANGED tables
  BY <1>6 DEF tables, NamedInv, Named, Id
<1> QED BY <1>1, <1>2, <1>3, <1>4, <1>5, <1>6, StepChanges

\* The actors that an operation cuts are those that it does not keep.
LEMMA TargetStep ==
  ASSUME TypeInv, NEW t \in Callers, Step(t), TargetInv
  PROVE  TargetInv'
<1>m. Moves(t) /\ (End(t) \/ GoesOn(t))
  BY StepMoves, StepGoesOn
<1>t. /\ loc \in [Callers -> Locals] /\ loc[t] \in Locals /\ pc \in [Callers -> Labels]
      /\ LocalOK(pc[t], loc[t]) /\ TargetsOK(t)
  BY DEF TypeInv, TargetInv
<1>u. ASSUME NEW u \in Callers \ {t} PROVE TargetsOK(u)'
  <2>1. TargetsOK(u) /\ loc'[u] = loc[u] /\ pc'[u] = pc[u]
    BY <1>m DEF Moves, TargetInv
  <2> QED BY <2>1 DEF TargetsOK, Cutting, Current, Kept, Id
<1> SUFFICES ASSUME Cutting(t)' PROVE TargetsOK(t)'
  BY <1>u DEF TargetInv, TargetsOK
<1>k. GoesOn(t) /\ Kept(t)' = Kept(t) /\ loc[t].job \in Clearing
  <2>1. GoesOn(t)
    BY <1>m, EndMoves, RestFacts DEF Cutting, Clearing, Moves
  <2> QED BY <2>1 DEF GoesOn, Kept, Cutting
<1>p. pc'[t] \in {"outer", "nested", "visit", "eraseRest"}
  BY DEF Cutting
<1>1. CASE RemoveAllConections(t)
  <2>1. loc'[t].targets = loc[t].targets /\ loc'[t].actor = loc[t].actor
    BY <1>1, <1>t DEF RemoveAllConections, Locals
  <2>2. Cutting(t) /\ Current(t)
    BY <1>1, <1>k, <1>t DEF RemoveAllConections, Cutting, Current, LocalOK, JobOK, Clearing
  <2> QED BY <1>k, <1>t, <2>1, <2>2 DEF TargetsOK, Id
<1>2. CASE Visit(t)
  <2>1. loc'[t].targets = loc[t].targets /\ loc'[t].actor = loc[t].actor
    BY <1>2, <1>t DEF Visit, Locals
  <2>2. Cutting(t) /\ Current(t)
    BY <1>2, <1>k, <1>t DEF Visit, Cutting, Current
  <2> QED BY <1>k, <1>t, <2>1, <2>2 DEF TargetsOK, Id
<1>3. CASE VisitEnds(t)
  <2>1. pc'[t] = "outer" /\ pc[t] = "visit" /\ loc'[t].targets = loc[t].targets
    BY <1>3, <1>k, <1>t DEF VisitEnds, Goto, Locals, Clearing
  <2>2. Cutting(t)
    BY <1>k, <2>1 DEF Cutting
  <2> QED BY <1>k, <1>t, <2>1, <2>2 DEF TargetsOK, Current, Id
<1>4. CASE ShareScheme(t)
  <2>1. pc'[t] = "outer" /\ loc'[t].targets = {o \in actors : Id(o) \notin Kept(t)}
    BY <1>4, <1>t DEF ShareScheme, Goto, Locals
  <2> QED BY <1>k, <2>1 DEF TargetsOK, Current, Id
<1>5. CASE NextTarget(t)
  <2>0. Cutting(t)
    BY <1>5, <1>k DEF NextTarget, Cutting
  <2>1. ASSUME NEW o \in loc[t].targets, loc' = [loc EXCEPT ![t].targets = @ \ {o}, ![t].actor = o]
        PROVE  TargetsOK(t)'
    <3>1. loc'[t] = [loc[t] EXCEPT !.targets = @ \ {o}, !.actor = o]
      BY <1>t, <2>1
    <3>2. loc'[t].targets \subseteq loc[t].targets /\ loc'[t].actor = o
      BY <1>t, <3>1 DEF Locals
    <3> QED BY <1>k, <1>t, <2>0, <3>2 DEF TargetsOK, Id
  <2>2. CASE loc' = loc /\ Goto(t, "eraseRest")
    BY <1>k, <1>t, <2>0, <2>2 DEF TargetsOK, Current, Goto, Id
  <2> QED BY <1>5, <2>1, <2>2 DEF NextTarget
\* The other steps do not lead to the labels of a removal.
<1>6. /\ \/ RemoveAllConections(t) \/ Visit(t) \/ VisitEnds(t) \/ ShareScheme(t)
         \/ NextTarget(t)
  <2>r. ASSUME NEW p \in {"apply", "prune"}, Return(t, p) PROVE FALSE
    BY <1>p, <1>t, <2>r DEF Return, End, Goto
  <2>e. ~End(t)
    BY <1>k, <1>t DEF End, Goto, GoesOn
  <2>g. ASSUME NEW p \in Labels \ {"outer", "nested", "visit", "eraseRest"}, Goto(t, p) PROVE FALSE
    BY <1>p, <1>t, <2>g DEF Goto
  <2>1. ~Attach(t) /\ ~Spawn(t) /\ ~Erase(t) /\ ~FindSource(t) /\ ~FindDestination(t)
    BY <2>e, <2>g, <2>r DEF Attach, Spawn, Erase, FindSource, FindDestination, Labels
  <2>2. ~Connect(t) /\ ~SetLinkUserData(t) /\ ~FindBoth(t) /\ ~DisconnectFirst(t)
        /\ ~DisconnectSecond(t)
    BY <2>e, <2>g, <2>r DEF Connect, SetLinkUserData, FindBoth, DisconnectFirst,
                            DisconnectSecond, Labels
  <2>3. ~NextActor(t) /\ ~CloneActor(t) /\ ~BeginLinks(t) /\ ~LinksOfActor(t)
    BY <1>p, <2>e, <2>g DEF NextActor, CloneActor, BeginLinks, LinksOfActor, Labels
  <2>4. ~LinksEnd(t) /\ ~ApplyEnds(t) /\ ~PruneLink(t)
    BY <2>e, <2>g DEF LinksEnd, ApplyEnds, PruneLink, Labels
  <2>5. ~ApplyLink(t)
    <3>1. ApplyLink(t) => \E p \in {"find", "apply", "data"} : Goto(t, p)
      BY DEF ApplyLink
    <3> QED BY <2>g, <3>1 DEF Labels
  <2>6. ~ActorsEnd(t)
    <3>1. ActorsEnd(t) => End(t) \/ \E p \in {"share", "links", "apply"} : Goto(t, p)
      BY <1>t DEF ActorsEnd, LocalOK, JobOK, Applying
    <3> QED BY <2>e, <2>g, <3>1 DEF Labels
  <2>7. ~EraseRest(t)
    <3>1. EraseRest(t) => End(t) \/ \E p \in {"actors", "links"} : Goto(t, p)
      BY <1>k DEF EraseRest, Clearing
    <3> QED BY <2>e, <2>g, <3>1 DEF Labels
  <2> QED BY <2>1, <2>2, <2>3, <2>4, <2>5, <2>6, <2>7 DEF Step
<1> QED BY <1>1, <1>2, <1>3, <1>4, <1>5, <1>6

\* A call disturbs none of this.
LEMMA CallBase ==
  ASSUME TypeInv, NEW t \in Callers, Call(t), BaseInv
  PROVE  BaseInv'
<1>a. AloneInv'
  BY CallAlone DEF BaseInv, AloneInv
<1>1. PICK p \in Labels, v \in Locals :
        /\ CallsWith(t, p, v)
        /\ \/ callbacks' = callbacks /\ reported' = reported
           \/ /\ callbacks' = {c \in callbacks : c[1][1] # v.actor}
              /\ reported' = {r \in reported : r[1][1] # v.actor}
  BY CallFacts
<1>2. actors' = actors /\ held' = held
  BY CallFacts
<1>3. NamedInv'
  <2>1. \A c \in callbacks : Named(c)[1] = c[1] /\ Named(c) \in reported
    BY CallbackFacts DEF BaseInv, NamedInv, TypeInv, TypeOK, Callbacks
  <2> QED BY <1>1, <2>1 DEF NamedInv, Named, Id
<1>4. UniqueIds' /\ OneKept'
  BY <1>2 DEF BaseInv, UniqueIds, OneKept, Id
<1>5. TargetInv'
  <2>1. BeginsWith(t, p, v)
    BY <1>1, BeginFacts DEF CallsWith
  <2>2. pc'[t] = p /\ p \notin {"outer", "nested", "visit", "eraseRest"}
    BY <1>1, <2>1 DEF BeginsWith, TypeInv, CallsWith
  <2>3. TargetsOK(t)'
    BY <2>2 DEF TargetsOK, Cutting
  <2>4. ASSUME NEW u \in Callers \ {t} PROVE TargetsOK(u)'
    <3>1. loc'[u] = [loc[u] EXCEPT !.alone = loc'[u].alone] /\ loc[u] \in Locals
      BY <2>1 DEF BeginsWith, TypeInv
    <3>2. /\ pc'[u] = pc[u] /\ loc'[u].job = loc[u].job /\ loc'[u].plan = loc[u].plan
          /\ loc'[u].targets = loc[u].targets /\ loc'[u].actor = loc[u].actor
      BY <2>1, <3>1 DEF BeginsWith, TypeInv, Locals
    <3>3. TargetsOK(u)
      BY DEF BaseInv, TargetInv
    <3> QED BY <3>2, <3>3 DEF TargetsOK, Cutting, Current, Kept, Id
  <2> QED BY <2>3, <2>4 DEF TargetInv
<1> QED BY <1>a, <1>3, <1>4, <1>5 DEF BaseInv

LEMMA InitBase == Init => BaseInv
<1> SUFFICES ASSUME Init PROVE BaseInv
  OBVIOUS
<1>1. AloneInv /\ TargetInv /\ OneKept
  BY DEF Init, AloneInv, TargetInv, TargetsOK, Cutting, OneKept
<1>2. UniqueIds
  <2>1. PICK S : actors = S \X {1}
    BY DEF Init
  <2> QED BY <2>1 DEF UniqueIds, Id
<1>3. NamedInv
  <2>1. reported = {Named(c) : c \in callbacks}
    BY DEF Init
  <2> QED BY <2>1 DEF NamedInv
<1> QED BY <1>1, <1>2, <1>3 DEF BaseInv

LEMMA NextBase ==
  ASSUME TypeInv, BaseInv, [Next]_vars
  PROVE  BaseInv'
<1>1. ASSUME NEW t \in Callers, Step(t) PROVE BaseInv'
  BY <1>1, UniqueStep, KeptStep, AloneStep, NamedStep, TargetStep DEF BaseInv
<1>2. ASSUME UNCHANGED <<actors, tables, pc, loc>>, held' \subseteq held PROVE BaseInv'
  BY <1>2 DEF BaseInv, UniqueIds, OneKept, AloneInv, NamedInv, TargetInv, TargetsOK, Cutting,
              Current, Kept, Named, Id, tables
<1>3. CASE UNCHANGED vars
  BY <1>2, <1>3 DEF vars
<1>4. ASSUME NEW o \in held, Release(o) PROVE BaseInv'
  BY <1>2, <1>4 DEF Release
<1> QED BY <1>1, <1>3, <1>4, CallBase DEF Next

-----------------------------------------------------------------------------
(* What is reported is called *)

\* Every reported link has a callback, unless its actor is about to be erased.
Doomed(i) == \E t \in Callers : Cutting(t) /\ i \notin Kept(t)
Called(r) == \E c \in callbacks : Named(c) = r
CalledInv == \A r \in reported : r[1][1] \in actors => Called(r) \/ Doomed(Id(r[1][1]))

\* The actor that a Detach disconnects is out of the scheme.
GoneInv == \A t \in Callers : Leaving(t) => loc[t].actor \notin actors

\* Who removes actors goes on to do so until they are erased.
LEMMA CuttingGoesOn ==
  ASSUME TypeInv, NEW t \in Callers, Step(t), Cutting(t), ~EraseRest(t)
  PROVE  Cutting(t)' /\ Kept(t)' = Kept(t)
<1>t. /\ loc \in [Callers -> Locals] /\ loc[t] \in Locals /\ pc \in [Callers -> Labels]
      /\ pc[t] \in {"outer", "nested", "visit", "eraseRest"}
      /\ loc[t].job \in Clearing /\ loc[t].job # "detach"
  BY DEF TypeInv, Cutting, Clearing
<1>1. RemoveAllConections(t) \/ Visit(t) \/ VisitEnds(t) \/ NextTarget(t)
  BY <1>t DEF Step, Attach, Spawn, Erase, ShareScheme, FindSource, FindDestination, Connect,
         SetLinkUserData, FindBoth, DisconnectFirst, DisconnectSecond, NextActor, ActorsEnd,
         CloneActor, BeginLinks, LinksOfActor, LinksEnd, ApplyLink, ApplyEnds, PruneLink
<1>2. pc'[t] \in {"outer", "nested", "visit", "eraseRest"}
  BY <1>t, <1>1 DEF RemoveAllConections, Visit, VisitEnds, NextTarget, Goto
<1>3. ~End(t)
  BY <1>2, EndMoves, StepMoves DEF Moves
<1>4. GoesOn(t)
  BY <1>3, StepGoesOn
<1> QED BY <1>2, <1>4 DEF Cutting, GoesOn, Kept

\* No step reports a link without a callback, or cuts a callback that stays reported.
LEMMA CalledStep ==
  ASSUME TypeInv, LinkInv, BaseInv, CalledInv, GoneInv, NEW t \in Callers, Step(t)
  PROVE  CalledInv'
<1>m. \A u \in Callers \ {t} : Same(u) /\ Cutting(u)' = Cutting(u) /\ Kept(u)' = Kept(u)
  BY StepMoves, MovesSame, SameFacts
<1>c. /\ \A c \in callbacks : Named(c)[1] = c[1] /\ c[1][1] \in Actors
      /\ \A c \in callbacks : Named(c) \in reported
      /\ \A c : Named(c)' = Named(c)
  BY CallbackFacts DEF BaseInv, NamedInv, TypeInv, TypeOK, Callbacks, Named, Id
<1>r. \A r : r[1][1] \in actors /\ r \in reported => Called(r) \/ Doomed(Id(r[1][1]))
  BY DEF CalledInv
\* Whoever removed the actor of a link goes on, or has erased it.
<1>d. ASSUME ~EraseRest(t) PROVE \A i : Doomed(i) => Doomed(i)'
  BY <1>m, <1>d, CuttingGoesOn DEF Doomed
<1>q. ASSUME ~EraseRest(t), actors' \subseteq actors,
             \A r \in reported' : r[1][1] \in actors =>
               Called(r)' \/ Doomed(Id(r[1][1])) \/ (r \in reported /\ (Called(r) => Called(r)'))
      PROVE  CalledInv'
  <2> SUFFICES ASSUME NEW r \in reported', r[1][1] \in actors'
               PROVE  Called(r)' \/ Doomed(Id(r[1][1]))'
    BY DEF CalledInv, Id
  <2> QED BY <1>d, <1>q, <1>r
<1>1. CASE Attach(t)
  <2>1. /\ actors' \subseteq actors \cup {loc[t].actor}
        /\ \A r \in reported : r[1][1] # loc[t].actor
        /\ UNCHANGED <<callbacks, reported>>
    BY <1>1 DEF Attach, LinkInv, NewInv, NewOK, tables
  <2>2. \A r : Called(r)' = Called(r)
    BY <1>c, <2>1 DEF Called
  <2>3. ~EraseRest(t)
    BY <1>1 DEF Attach, EraseRest
  <2> SUFFICES ASSUME NEW r \in reported', r[1][1] \in actors'
               PROVE  Called(r)' \/ Doomed(Id(r[1][1]))'
    BY DEF CalledInv, Id
  <2> QED BY <1>d, <1>r, <2>1, <2>2, <2>3
<1>2. CASE Spawn(t)
  <2>0. ~EraseRest(t)
    BY <1>2 DEF Spawn, EraseRest
  <2>1. CASE UNCHANGED <<actors, tables>>
    BY <1>c, <1>q, <2>0, <2>1 DEF Called, tables
  <2>2. ASSUME NEW o, actors' = actors \cup {o},
               callbacks' = {c \in callbacks : c[1][1] # o},
               reported' = {r \in reported : r[1][1] # o}
        PROVE  CalledInv'
    <3> SUFFICES ASSUME NEW r \in reported', r[1][1] \in actors'
                 PROVE  Called(r)' \/ Doomed(Id(r[1][1]))'
      BY DEF CalledInv, Id
    <3>1. r \in reported /\ r[1][1] \in actors /\ r[1][1] # o
      BY <2>2
    <3>2. Called(r) => Called(r)'
      BY <1>c, <2>2, <3>1 DEF Called
    <3> QED BY <1>d, <1>r, <2>0, <3>1, <3>2
  <2> QED BY <1>2, <2>1, <2>2 DEF Spawn
<1>3. CASE Erase(t)
  BY <1>3, <1>c, <1>q DEF Erase, EraseRest, Called, tables
<1>4. CASE EraseRest(t)
  <2>1. /\ pc[t] = "eraseRest" /\ actors' = {o \in actors : Id(o) \in Kept(t)}
        /\ UNCHANGED <<callbacks, reported>>
    BY <1>4 DEF EraseRest, tables
  <2>2. loc[t].job \in Clearing /\ loc[t].job \in Removing
    BY <2>1 DEF TypeInv, LocalOK, JobOK, Clearing, Removing
  <2>3. \A u \in Callers \ {t} : ~Cutting(u)
    BY <2>2, OneRemoves DEF LinkInv
  <2> SUFFICES ASSUME NEW r \in reported, r[1][1] \in actors'
               PROVE  Called(r)'
    BY <2>1 DEF CalledInv, Id
  <2>4. ~Doomed(Id(r[1][1]))
    BY <2>1, <2>3 DEF Doomed
  <2>5. Called(r)
    BY <1>r, <2>1, <2>4
  <2> QED BY <1>c, <2>1, <2>5 DEF Called
<1>5. CASE Visit(t)
  <2> DEFINE target == loc[t].actor
  <2>1. PICK x \in loc[t].todo :
          LET names == IF x \notin actors THEN {}
                       ELSE ({x} \X Ports) \X ({Id(target)} \X Ports)
          IN /\ callbacks' = {c \in callbacks : /\ Named(c) \notin names
                                                /\ ~(x = target /\ c[1][1] = x)}
             /\ reported' = reported \ names
    BY <1>5 DEF Visit
  <2>2. actors' = actors /\ pc[t] = "visit" /\ ~EraseRest(t)
    BY <1>5 DEF Visit, EraseRest
  <2> SUFFICES ASSUME NEW r \in reported', r[1][1] \in actors
               PROVE  Called(r)' \/ Doomed(Id(r[1][1])) \/ (r \in reported /\ (Called(r) => Called(r)'))
    BY <1>q, <2>2
  \* The target of a Detach is no longer in the scheme; that of another removal
  \* is about to be erased.
  <2>3. CASE r[1][1] = target
    <3>1. loc[t].job \in Clearing \cup {"detach"}
      BY <2>2 DEF TypeInv, LocalOK, JobOK
    <3>2. CASE loc[t].job = "detach"
      <4>1. Leaving(t)
        BY <2>2, <3>2 DEF Leaving
      <4> QED BY <2>3, <4>1 DEF GoneInv
    <3>3. CASE loc[t].job \in Clearing
      <4>1. Cutting(t) /\ Current(t)
        BY <2>2, <3>3 DEF Cutting, Current
      <4>2. Id(target) \notin Kept(t)
        BY <4>1 DEF BaseInv, TargetInv, TargetsOK
      <4> QED BY <2>3, <4>1, <4>2 DEF Doomed
    <3> QED BY <3>1, <3>2, <3>3
  <2>4. CASE r[1][1] # target
    <3>1. r \in reported
      BY <2>1
    <3>2. Called(r) => Called(r)'
      BY <1>c, <2>1, <2>4 DEF Called
    <3> QED BY <3>1, <3>2
  <2> QED BY <2>3, <2>4
<1>6. CASE Connect(t)
  <2>1. CASE UNCHANGED <<callbacks, reported>>
    BY <1>6, <1>c, <1>q, <2>1 DEF Connect, EraseRest, Called
  <2>2. ASSUME NEW new, AttachPorts(new) PROVE CalledInv'
    <3>1. \A r \in reported' : r \in reported \/ \E c \in new : Named(c) = r
      BY <2>2 DEF AttachPorts
    <3>2. ASSUME NEW c \in new PROVE \E k \in callbacks' : Named(k) = Named(c)
      BY <2>2 DEF AttachPorts
    <3>3. \A r : Called(r) => Called(r)'
      BY <1>c, <2>2 DEF AttachPorts, Called
    <3>4. \A r \in reported' : Called(r)' \/ (r \in reported /\ (Called(r) => Called(r)'))
      BY <1>c, <3>1, <3>2, <3>3 DEF Called
    <3> QED BY <1>6, <1>q, <3>4 DEF Connect, EraseRest
  <2> QED BY <1>6, <2>1, <2>2 DEF Connect
<1>7. CASE SetLinkUserData(t)
  BY <1>7, <1>c, <1>q DEF SetLinkUserData, EraseRest, Called
<1>8. CASE DisconnectFirst(t) \/ DisconnectSecond(t)
  <2>1. PICK names : DetachPorts(names)
    BY <1>8 DEF DisconnectFirst, DisconnectSecond
  <2>2. \A r \in reported' : r \in reported /\ (Called(r) => Called(r)')
    BY <1>c, <2>1 DEF DetachPorts, Called
  <2> QED BY <1>8, <1>q, <2>2 DEF DisconnectFirst, DisconnectSecond, EraseRest
<1>9. CASE UNCHANGED <<actors, tables>>
  <2>1. \A r \in reported' : r \in reported /\ (Called(r) => Called(r)')
    BY <1>c, <1>9 DEF Called, tables
  <2> QED BY <1>4, <1>9, <1>q, <2>1
<1> QED BY <1>1, <1>2, <1>3, <1>4, <1>5, <1>6, <1>7, <1>8, <1>9, StepChanges

\* The actor that a Detach disconnects does not come back meanwhile.
LEMMA GoneStep ==
  ASSUME TypeInv, LinkInv, GoneInv, NEW t \in Callers, Step(t)
  PROVE  GoneInv'
<1>m. /\ Moves(t) /\ \A u \in Callers \ {t} : Same(u) /\ Leaving(u)' = Leaving(u)
      /\ loc \in [Callers -> Locals] /\ pc \in [Callers -> Labels]
  BY StepMoves, MovesSame, SameFacts DEF TypeInv
\* No actor that comes into the scheme is one that leaves.
<1>1. \A u \in Callers \ {t} : Leaving(u) /\ loc[u].actor \in actors' => loc[u].actor \in actors
  <2>1. CASE Attach(t)
    <3>1. pc[t] = "attach" /\ actors' \subseteq actors \cup {loc[t].actor}
      BY <2>1 DEF Attach
    <3> QED BY <3>1 DEF LinkInv, NewInv, NewOK
  <2>2. CASE Spawn(t)
    <3> DEFINE created == {o \in Actors : Id(o) = loc[t].id /\ Unused(o)}
               a == CHOOSE x \in created : TRUE
    <3>1. CASE created # {} /\ actors' = actors \cup {a}
      <4>1. Unused(a)
        BY <3>1
      <4>2. \A u \in Callers : loc[u].actor # a
        BY <4>1 DEF Unused, Alive, Pinned
      <4> HIDE DEF a
      <4> QED BY <3>1, <4>2
    <3> QED BY <2>2, <3>1 DEF Spawn
  <2>3. CASE Erase(t) \/ EraseRest(t) \/ actors' = actors
    BY <2>3 DEF Erase, EraseRest
  <2> QED BY <2>1, <2>2, <2>3, StepChanges
<1>2. ASSUME Leaving(t)' PROVE loc'[t].actor \notin actors'
  <2>1. GoesOn(t) /\ loc[t].job = "detach"
    BY <1>2, <1>m, StepGoesOn, EndMoves DEF Leaving, Moves, GoesOn
  <2>2. pc[t] \in {"erase", "removeAll", "visit"}
    BY <2>1, StepGoesOn DEF TypeInv, LocalOK, JobOK, Clearing, Applying, Cloning, Labels
  <2>3. Erase(t) \/ RemoveAllConections(t) \/ Visit(t) \/ VisitEnds(t)
    BY <2>2 DEF Step, Attach, Spawn, ShareScheme, NextTarget, EraseRest, FindSource,
           FindDestination, Connect, SetLinkUserData, FindBoth, DisconnectFirst,
           DisconnectSecond, NextActor, ActorsEnd, CloneActor, BeginLinks, LinksOfActor,
           LinksEnd, ApplyLink, ApplyEnds, PruneLink
  <2>4. CASE Erase(t)
    <3>1. ~End(t)
      BY <1>m, <2>1 DEF End, Goto, GoesOn
    <3>2. /\ actors' = actors \ {ActorOf(loc[t].id)}
          /\ loc' = [loc EXCEPT ![t].actor = ActorOf(loc[t].id)]
      BY <2>4, <3>1 DEF Erase
    <3>3. loc'[t].actor = ActorOf(loc[t].id)
      BY <1>m, <3>2 DEF Locals
    <3> QED BY <3>2, <3>3
  <2>5. CASE RemoveAllConections(t) \/ Visit(t)
    <3>1. Leaving(t) /\ actors' = actors /\ loc'[t].actor = loc[t].actor
      BY <1>m, <2>1, <2>2, <2>5 DEF RemoveAllConections, Visit, Leaving, Locals
    <3> QED BY <3>1 DEF GoneInv
  <2>6. CASE VisitEnds(t)
    BY <1>m, <2>1, <2>6 DEF VisitEnds, End, Goto, GoesOn
  <2> QED BY <2>3, <2>4, <2>5, <2>6
<1>3. ASSUME NEW u \in Callers \ {t}, Leaving(u)' PROVE loc'[u].actor \notin actors'
  BY <1>1, <1>3, <1>m DEF GoneInv, Same
<1> QED BY <1>2, <1>3 DEF GoneInv

\* A call takes away reports of a link with its callback.
LEMMA CallCalled ==
  ASSUME TypeInv, LinkInv, CalledInv, GoneInv, NEW t \in Callers, Call(t)
  PROVE  CalledInv' /\ GoneInv'
<1>1. PICK p \in Labels, v \in Locals :
        /\ CallsWith(t, p, v)
        /\ \/ callbacks' = callbacks /\ reported' = reported
           \/ /\ callbacks' = {c \in callbacks : c[1][1] # v.actor}
              /\ reported' = {r \in reported : r[1][1] # v.actor}
  BY CallFacts
<1>2. actors' = actors
  BY CallFacts
<1>3. BeginsWith(t, p, v) /\ loc \in [Callers -> Locals] /\ pc \in [Callers -> Labels]
  BY <1>1, BeginFacts DEF CallsWith, TypeInv
<1>4. ASSUME NEW u \in Callers \ {t} PROVE Same(u)
  <2>1. loc'[u] = [loc[u] EXCEPT !.alone = loc'[u].alone] /\ loc[u] \in Locals
    BY <1>3 DEF BeginsWith
  <2>2. pc'[u] = pc[u]
    BY <1>3 DEF BeginsWith
  <2> QED BY <2>1, <2>2 DEF Same, Locals
<1>5. ~Leaving(t)' /\ ~Cutting(t)
  <2>1. pc'[t] = p /\ pc[t] = "idle"
    BY <1>3 DEF BeginsWith
  <2> QED BY <1>1, <2>1 DEF CallsWith, Leaving, Cutting
<1>6. GoneInv'
  BY <1>2, <1>4, <1>5, SameFacts DEF GoneInv, Same
<1>7. \A i : Doomed(i) => Doomed(i)'
  BY <1>4, <1>5, SameFacts DEF Doomed
<1>8. CalledInv'
  <2> SUFFICES ASSUME NEW r \in reported', r[1][1] \in actors
               PROVE  Called(r)' \/ Doomed(Id(r[1][1]))'
    BY <1>2 DEF CalledInv, Id
  <2>1. /\ \A c \in callbacks : Named(c)[1] = c[1]
        /\ \A c : Named(c)' = Named(c)
    BY CallbackFacts DEF TypeInv, TypeOK, Callbacks, Named, Id
  <2>2. r \in reported /\ (Called(r) => Called(r)')
    BY <1>1, <2>1 DEF Called
  <2> QED BY <1>7, <2>2 DEF CalledInv
<1> QED BY <1>6, <1>8

\* What is reported is called, as long as the scheme is used as documented.
ReportsInv == BaseInv /\ (orderly => CalledInv /\ GoneInv)

LEMMA InitReports == Init => ReportsInv
<1> SUFFICES ASSUME Init PROVE CalledInv /\ GoneInv
  BY InitBase DEF ReportsInv
<1>1. GoneInv
  BY DEF Init, GoneInv, Leaving
<1>2. reported = {Named(c) : c \in callbacks}
  BY DEF Init
<1> QED BY <1>1, <1>2 DEF CalledInv, Called

\* The scheme was used as documented before a call that is in order.
LEMMA OrderlyBefore ==
  ASSUME TypeInv, NEW t \in Callers, Call(t), orderly'
  PROVE  orderly
<1>1. \E p \in Labels, v \in Locals : CallsWith(t, p, v)
  BY CallFacts
<1> QED BY <1>1 DEF CallsWith, Begin

LEMMA NextReports ==
  ASSUME IInv, ReportsInv, [Next]_vars
  PROVE  ReportsInv'
<1>1. BaseInv'
  BY NextBase DEF IInv, ReportsInv
<1>2. ASSUME orderly' PROVE CalledInv' /\ GoneInv'
  <2>1. ASSUME NEW t \in Callers, Call(t) PROVE CalledInv' /\ GoneInv'
    BY <1>2, <2>1, OrderlyBefore, CallCalled DEF IInv, ReportsInv
  <2>2. ASSUME NEW t \in Callers, Step(t) PROVE CalledInv' /\ GoneInv'
    BY <1>2, <2>2, StepMoves, CalledStep, GoneStep DEF IInv, ReportsInv, Moves
  <2>3. ASSUME UNCHANGED <<actors, tables, pc, loc, orderly>> PROVE CalledInv' /\ GoneInv'
    BY <1>2, <2>3 DEF ReportsInv, CalledInv, GoneInv, Called, Doomed, Leaving, Cutting, Kept,
                      Named, Id, tables
  <2> QED BY <2>1, <2>2, <2>3 DEF Next, Release, vars
<1> QED BY <1>1, <1>2 DEF ReportsInv

LEMMA ReportsAlways == Spec => [](IInv /\ ReportsInv)
<1>1. Init => IInv /\ ReportsInv
  BY InitLinks, InitReports
<1>2. (IInv /\ ReportsInv) /\ [Next]_vars => (IInv /\ ReportsInv)'
  BY NextInvariant, NextReports
<1> QED BY <1>1, <1>2, PTL DEF Spec

\* What the actors of the scheme report is what their publishers call, however many
\* threads connect, disconnect and remove actors.
THEOREM ReportsAgree == Spec => []ReportedIsCalled
<1>1. IInv /\ ReportsInv => ReportedIsCalled
  <2> SUFFICES ASSUME IInv, ReportsInv, orderly PROVE ReportedIsCalled
    BY DEF ReportedIsCalled
  <2>1. \A i : Doomed(i) => \E t \in Callers :
                             /\ loc[t].job \in {"clear", "init", "restore"}
                             /\ pc[t] \in {"outer", "nested", "visit", "eraseRest"}
                             /\ i \notin Kept(t)
    BY DEF Doomed, Cutting, Clearing
  <2> QED BY <2>1 DEF ReportedIsCalled, ReportsInv, BaseInv, NamedInv, CalledInv, Called
<1> QED BY <1>1, ReportsAlways, PTL

-----------------------------------------------------------------------------
(* What Init and SetMemento have done so far *)

Restoring(t) ==
  loc[t].job \in {"init", "restore"} /\ loc[t].alone /\ WellFormed(loc[t].plan)

Adding == {"actors", "spawn"}
Erasing == {"share", "outer", "nested", "visit", "eraseRest"}
Reading == {"links", "read"}
Joining == {"apply", "find", "findOther", "connect", "data"}
Pruning == {"prune", "findBoth", "detach", "detachAgain"}

\* The actors and the links of the scheme that are still to come, and what was
\* read of the links of some actors.
Missing(p, v) == v.ids \cup {i \in {v.id} : p = "spawn"}
Done(p, v) == v.plan.links \ (v.links \cup {r \in {v.link} : p # "apply"})
Records(S) == {<<LinkOf(r), r \in linkData>> : r \in {x \in reported : x[1][1] \in S}}

AddOK(p, v) ==
  p \in Adding =>
    /\ Missing(p, v) \subseteq v.plan.actors /\ (p = "spawn" => v.id \notin v.ids)
    /\ v.plan.actors \ Missing(p, v) \subseteq SchemeActors
    /\ v.job = "init" => /\ SchemeActors = v.plan.actors \ Missing(p, v)
                         /\ SchemeLinks = {}

EraseOK(p, v) ==
  /\ p \in Erasing => /\ v.job = "restore" => v.plan.actors \subseteq SchemeActors
                      /\ v.job = "init" => v.ids = v.plan.actors
  /\ p \in Adding \cup Erasing => v.read = {} /\ v.peer = None
  /\ p \in (Adding \cup Erasing) \ {"nested", "visit"} => v.actor = None

ReadOK(p, v) ==
  /\ p \in Reading \cup Joining \cup Pruning => SchemeActors = v.plan.actors
  /\ p = "links" => v.read = {}
  /\ p = "read" => v.todo \subseteq actors /\ v.read = Records(actors \ v.todo)
  /\ v.job = "init" => v.read = {}
  /\ \A r \in v.read : r[1][1][2] \in Tables

JoinOK(p, v) ==
  p \in Joining =>
    /\ v.links \subseteq v.plan.links
    /\ p # "apply" => v.link \in v.plan.links \ v.links
    /\ SchemeLinks = Keys(v.read) \cup Keys(Done(p, v)) \cup {l \in {v.link[1]} : p = "data"}
    /\ \A r \in v.plan.links : r[2] /\ r \in Done(p, v) \cup v.read => r[1] \in DataLinks
    /\ p \in {"findOther", "connect"} => Id(v.peer) = v.link[1][1][1]
    /\ p = "connect" => Id(v.actor) = v.link[1][2][1]

PruneOK(p, v) ==
  p \in Pruning =>
    /\ v.links \subseteq v.read /\ Keys(v.links) \cap Keys(v.plan.links) = {}
    /\ p # "prune" => v.link \in v.read /\ v.link[1] \notin Keys(v.plan.links)
    /\ Keys(v.plan.links) \subseteq SchemeLinks
    /\ SchemeLinks \subseteq Keys(v.plan.links) \cup Keys(v.links)
                               \cup {l \in {v.link[1]} : p \in {"findBoth", "detach"}}
    /\ \A r \in v.plan.links : r[2] => r[1] \in DataLinks
    /\ p \in {"detach", "detachAgain"} =>
         /\ v.peer \in actors /\ Id(v.peer) = v.link[1][1][1]
         /\ v.actor \in actors /\ Id(v.actor) = v.link[1][2][1]

RestoreOK(p, v) ==
  AddOK(p, v) /\ EraseOK(p, v) /\ ReadOK(p, v) /\ JoinOK(p, v) /\ PruneOK(p, v)
RestoreInv == \A t \in Callers : Restoring(t) => RestoreOK(pc[t], loc[t])

\* Init or SetMemento is the only operation, at one of its labels.
LEMMA AloneFacts ==
  ASSUME TypeInv, BaseInv, NEW t \in Callers, Restoring(t)
  PROVE  /\ \A u \in Callers \ {t} : pc[u] = "idle" /\ loc[u] = Rest
         /\ loc[t] \in Locals /\ LocalOK(pc[t], loc[t]) /\ loc \in [Callers -> Locals]
         /\ pc \in [Callers -> Labels] /\ \A u \in Callers : ~Leaving(u)
         /\ pc[t] \in Adding \cup Erasing \cup Reading \cup Joining \cup Pruning
<1>1. loc[t] \in Locals /\ LocalOK(pc[t], loc[t]) /\ pc[t] \in Labels
  BY DEF TypeInv
<1>2. loc[t].job \in {"init", "restore"}
  BY DEF Restoring
<1>3. pc[t] \in Adding \cup Erasing \cup Reading \cup Joining \cup Pruning
  BY <1>1, <1>2 DEF LocalOK, JobOK, Labels, Adding, Erasing, Reading, Joining, Pruning, Cloning
<1>4. pc[t] # "idle"
  BY <1>3 DEF Adding, Erasing, Reading, Joining, Pruning
<1>5. \A u \in Callers \ {t} : pc[u] = "idle" /\ loc[u] = Rest
  BY <1>4 DEF Restoring, BaseInv, AloneInv
<1> QED BY <1>1, <1>2, <1>3, <1>5 DEF Leaving, TypeInv

\* A step that leaves the scheme and its links as they are.
LEMMA SameScheme ==
  ASSUME actors' = actors, UNCHANGED tables
  PROVE  /\ SchemeActors' = SchemeActors /\ SchemeLinks' = SchemeLinks
         /\ DataLinks' = DataLinks /\ \A S : Records(S)' = Records(S)
BY DEF SchemeActors, SchemeLinks, DataLinks, Records, LinkOf, Id, tables

\* There is a new actor for every id that is missing.
LEMMA UnusedCopy ==
  ASSUME TypeInv, LinkInv, BaseInv, NEW t \in Callers, Restoring(t), pc[t] = "spawn",
         RestoreOK(pc[t], loc[t]), NEW i \in Ids, ~InScheme(i)
  PROVE  \E o \in Actors : Id(o) = i /\ Unused(o)
<1>1. /\ <<i, 1>> \in Actors /\ <<i, 2>> \in Actors /\ Id(<<i, 1>>) = i /\ Id(<<i, 2>>) = i
      /\ <<i, 1>> # <<i, 2>>
  BY SizesAssumption DEF Actors, Id
<1>2. PICK o \in Actors : Id(o) = i /\ o \notin held
  BY <1>1 DEF BaseInv, OneKept
<1>3. o \notin actors /\ o # None
  BY <1>2, ActorFacts DEF InScheme
<1>4. \A u \in Callers : loc[u].actor = None /\ loc[u].peer = None
                         /\ pc[u] \notin {"detach", "detachAgain"}
  BY AloneFacts DEF RestoreOK, EraseOK, Adding, Rest
<1>5. ~Alive(o)
  BY <1>2, <1>3, <1>4 DEF Alive, Pinned
<1>6. \A c \in callbacks : c[2][1] # o
  BY <1>3, AloneFacts DEF LinkInv, CallbackInv, Ends
<1> QED BY <1>2, <1>3, <1>4, <1>5, <1>6 DEF Unused

\* Each missing actor is created.
LEMMA SpawnRestores ==
  ASSUME TypeInv, LinkInv, BaseInv, NEW t \in Callers, Restoring(t),
         RestoreOK(pc[t], loc[t]), Spawn(t)
  PROVE  RestoreOK(pc[t], loc[t])'
<1> DEFINE v == loc[t]
           i == v.id
           created == {o \in Actors : Id(o) = i /\ Unused(o)}
           a == CHOOSE x \in created : TRUE
<1>0. /\ pc[t] = "spawn" /\ pc \in [Callers -> Labels] /\ i \in Ids
      /\ v.job \notin Cloning /\ "spawn" \in Adding /\ "actors" \in Adding
      /\ "actors" \notin Erasing \cup Reading \cup Joining \cup Pruning
  BY AloneFacts DEF Spawn, LocalOK, Restoring, Cloning, Adding, Erasing, Reading, Joining, Pruning
<1>1. loc' = loc /\ pc'[t] = "actors"
  BY <1>0 DEF Spawn, Goto
<1>2. /\ Missing("actors", v) = v.ids /\ Missing("spawn", v) = v.ids \cup {i} /\ i \notin v.ids
      /\ v.ids \cup {i} \subseteq v.plan.actors
      /\ v.plan.actors \ (v.ids \cup {i}) \subseteq SchemeActors
      /\ v.job = "init" => SchemeActors = v.plan.actors \ (v.ids \cup {i}) /\ SchemeLinks = {}
      /\ v.read = {} /\ v.peer = None /\ v.actor = None
  BY <1>0 DEF RestoreOK, AddOK, EraseOK, Missing
<1>3. InScheme(i) <=> i \in SchemeActors
  BY DEF InScheme, SchemeActors
<1>4. /\ i \in SchemeActors' /\ SchemeActors' = SchemeActors \cup {i}
      /\ SchemeLinks = {} => SchemeLinks' = {}
  <2>1. CASE InScheme(i)
    <3>1. UNCHANGED <<actors, tables>>
      BY <2>1 DEF Spawn
    <3> QED BY <1>3, <2>1, <3>1, SameScheme
  <2>2. CASE ~InScheme(i)
    <3>1. created # {}
      BY <1>0, <2>2, UnusedCopy
    <3>2. /\ a \in created /\ actors' = actors \cup {a}
          /\ reported' = {r \in reported : r[1][1] # a}
      BY <2>2, <3>1 DEF Spawn
    <3>3. Id(a) = i
      BY <3>2
    <3> HIDE DEF a, created
    <3>4. SchemeActors' = SchemeActors \cup {i}
      BY <3>2, <3>3 DEF SchemeActors, Id
    <3>5. SchemeLinks' \subseteq SchemeLinks
      BY <3>2 DEF SchemeLinks, LinkOf, Id
    <3> QED BY <3>4, <3>5
  <2> QED BY <2>1, <2>2
<1>5. AddOK("actors", v)'
  BY <1>1, <1>2, <1>4 DEF AddOK, Missing
<1>6. EraseOK("actors", v)' /\ ReadOK("actors", v)' /\ JoinOK("actors", v)' /\ PruneOK("actors", v)'
  BY <1>0, <1>1, <1>2 DEF EraseOK, ReadOK, JoinOK, PruneOK, Reading, Joining, Pruning, Erasing
<1> QED BY <1>1, <1>5, <1>6 DEF RestoreOK

\* A label belongs to one part of the operation.
LEMMA Parts ==
  /\ Adding = {"actors", "spawn"} /\ Erasing = {"share", "outer", "nested", "visit", "eraseRest"}
  /\ Reading = {"links", "read"} /\ Joining = {"apply", "find", "findOther", "connect", "data"}
  /\ Pruning = {"prune", "findBoth", "detach", "detachAgain"}
BY DEF Adding, Erasing, Reading, Joining, Pruning

\* The next actor is there already or is missing now.
LEMMA NextActorRestores ==
  ASSUME TypeInv, LinkInv, BaseInv, NEW t \in Callers, Restoring(t),
         RestoreOK(pc[t], loc[t]), NextActor(t)
  PROVE  RestoreOK(pc[t], loc[t])'
<1> DEFINE v == loc[t]  w == loc'[t]
<1>0. /\ pc[t] = "actors" /\ pc \in [Callers -> Labels] /\ v \in Locals
      /\ loc \in [Callers -> Locals]
  BY AloneFacts DEF NextActor
<1>1. SchemeActors' = SchemeActors /\ SchemeLinks' = SchemeLinks
  BY SameScheme DEF NextActor
<1>2. PICK i \in v.ids :
        IF v.job = "restore" /\ InScheme(i)
        THEN loc' = [loc EXCEPT ![t].ids = @ \ {i}] /\ UNCHANGED pc
        ELSE loc' = [loc EXCEPT ![t].ids = @ \ {i}, ![t].id = i] /\ Goto(t, "spawn")
  BY DEF NextActor
<1>3. /\ w.ids = v.ids \ {i} /\ w.job = v.job /\ w.plan = v.plan
      /\ w.actor = v.actor /\ w.peer = v.peer /\ w.read = v.read
      /\ \/ pc'[t] = "actors" /\ i \in SchemeActors /\ v.job # "init"
         \/ pc'[t] = "spawn" /\ w.id = i
  <2>1. CASE v.job = "restore" /\ InScheme(i)
    BY <1>0, <1>2, <2>1 DEF Locals, SchemeActors, InScheme
  <2>2. CASE ~(v.job = "restore" /\ InScheme(i))
    <3>1. w = [v EXCEPT !.ids = @ \ {i}, !.id = i] /\ pc'[t] = "spawn"
      BY <1>0, <1>2, <2>2 DEF Goto
    <3> QED BY <1>0, <3>1 DEF Locals
  <2> QED BY <2>1, <2>2
<1>4. /\ Missing("actors", v) = v.ids /\ v.ids \subseteq v.plan.actors
      /\ v.plan.actors \ v.ids \subseteq SchemeActors
      /\ v.job = "init" => SchemeActors = v.plan.actors \ v.ids /\ SchemeLinks = {}
      /\ v.read = {} /\ v.peer = None /\ v.actor = None
  BY <1>0, Parts DEF RestoreOK, AddOK, EraseOK, Missing
<1>5. Missing(pc'[t], w) = IF pc'[t] = "spawn" THEN v.ids ELSE v.ids \ {i}
  BY <1>3 DEF Missing
<1>6. AddOK(pc[t], loc[t])'
  <2>1. (Missing(pc[t], loc[t]))' = Missing(pc'[t], w)
    BY DEF Missing
  <2> QED BY <1>1, <1>3, <1>4, <1>5, <2>1 DEF AddOK
<1>7. /\ EraseOK(pc[t], loc[t])' /\ ReadOK(pc[t], loc[t])' /\ JoinOK(pc[t], loc[t])'
      /\ PruneOK(pc[t], loc[t])'
  BY <1>3, <1>4, Parts DEF EraseOK, ReadOK, JoinOK, PruneOK
<1> QED BY <1>6, <1>7 DEF RestoreOK

\* Every actor of the scheme is there; Init goes on with its links.
LEMMA ActorsEndRestores ==
  ASSUME TypeInv, LinkInv, BaseInv, NEW t \in Callers, Restoring(t),
         RestoreOK(pc[t], loc[t]), ActorsEnd(t)
  PROVE  RestoreOK(pc[t], loc[t])'
<1> DEFINE v == loc[t]  w == loc'[t]
<1>0. /\ pc[t] = "actors" /\ pc \in [Callers -> Labels] /\ v \in Locals /\ v.ids = {}
      /\ loc \in [Callers -> Locals]
  BY AloneFacts DEF ActorsEnd
<1>1. SchemeActors' = SchemeActors /\ SchemeLinks' = SchemeLinks /\ DataLinks' = DataLinks
  BY SameScheme DEF ActorsEnd
<1>4. /\ v.plan.actors \subseteq SchemeActors
      /\ v.job = "init" => SchemeActors = v.plan.actors /\ SchemeLinks = {}
      /\ v.read = {} /\ v.peer = None /\ v.actor = None
  BY <1>0, Parts DEF RestoreOK, AddOK, EraseOK, Missing
<1>2. CASE v.job = "restore"
  <2>1. pc'[t] = "share" /\ w = v
    BY <1>0, <1>2 DEF ActorsEnd, Goto
  <2> QED BY <1>1, <1>2, <1>4, <2>1, Parts
          DEF RestoreOK, AddOK, EraseOK, ReadOK, JoinOK, PruneOK
<1>3. CASE v.job = "init"
  <2>1. pc'[t] = "apply" /\ loc' = [loc EXCEPT ![t].links = v.plan.links]
    BY <1>0, <1>3 DEF ActorsEnd, Goto
  <2>2. w.links = v.plan.links /\ w.job = v.job /\ w.plan = v.plan /\ w.read = v.read
    BY <1>0, <2>1 DEF Locals
  <2>3. Done(pc[t], loc[t])' = {}
    BY <2>1, <2>2 DEF Done
  <2>4. JoinOK(pc[t], loc[t])'
    BY <1>1, <1>3, <1>4, <2>1, <2>2, <2>3 DEF JoinOK, Keys
  <2>5. ReadOK(pc[t], loc[t])'
    BY <1>1, <1>3, <1>4, <2>1, <2>2 DEF ReadOK
  <2> QED BY <2>1, <2>4, <2>5, Parts DEF RestoreOK, AddOK, EraseOK, PruneOK
<1> QED BY <1>2, <1>3 DEF Restoring

\* The removal of actors up to where they are erased: no step of it changes what
\* the invariant says.
LEMMA RemovalRestores ==
  ASSUME TypeInv, LinkInv, BaseInv, NEW t \in Callers, Restoring(t),
         RestoreOK(pc[t], loc[t]), GoesOn(t),
         \/ ShareScheme(t) \/ NextTarget(t) \/ RemoveAllConections(t) \/ Visit(t)
         \/ VisitEnds(t)
  PROVE  RestoreOK(pc[t], loc[t])'
<1> DEFINE v == loc[t]  w == loc'[t]
<1>0. /\ pc[t] \in Erasing /\ pc \in [Callers -> Labels] /\ v \in Locals
      /\ loc \in [Callers -> Locals] /\ v.job # "detach" /\ actors' = actors
      /\ LocalOK(pc[t], v)
  BY AloneFacts, Parts
     DEF ShareScheme, NextTarget, RemoveAllConections, Visit, VisitEnds, Restoring, LocalOK, JobOK
<1>1. /\ pc'[t] \in Erasing /\ w.ids = v.ids /\ w.read = v.read /\ w.peer = v.peer
      /\ pc'[t] \in {"nested", "visit"} \/ w.actor = None
  <2>1. CASE ShareScheme(t)
    BY <1>0, <2>1, Parts DEF ShareScheme, Goto, Locals, RestoreOK, EraseOK
  <2>2. CASE NextTarget(t)
    <3>1. ASSUME NEW o \in v.targets, Goto(t, "nested"),
                 loc' = [loc EXCEPT ![t].targets = @ \ {o}, ![t].actor = o]
          PROVE  pc'[t] = "nested" /\ w.ids = v.ids /\ w.read = v.read /\ w.peer = v.peer
      <4>1. w = [v EXCEPT !.targets = @ \ {o}, !.actor = o] /\ pc'[t] = "nested"
        BY <1>0, <3>1 DEF Goto
      <4> QED BY <1>0, <4>1 DEF Locals
    <3>2. CASE Goto(t, "eraseRest") /\ loc' = loc
      BY <1>0, <2>2, <3>2, Parts DEF NextTarget, Goto, RestoreOK, EraseOK
    <3> QED BY <2>2, <3>1, <3>2, Parts DEF NextTarget
  <2>3. CASE RemoveAllConections(t)
    BY <1>0, <2>3, Parts DEF RemoveAllConections, Goto, Locals
  <2>4. CASE Visit(t)
    BY <1>0, <2>4, Parts DEF Visit, Locals
  <2>5. CASE VisitEnds(t)
    BY <1>0, <2>5, Parts DEF VisitEnds, Goto, Locals
  <2> QED BY <2>1, <2>2, <2>3, <2>4, <2>5
<1>2. w.job = v.job /\ w.plan = v.plan /\ SchemeActors' = SchemeActors
  BY <1>0 DEF GoesOn, SchemeActors, Id
<1>3. v.read = {} /\ v.peer = None /\ EraseOK(pc[t], v)
  BY <1>0 DEF RestoreOK, EraseOK
<1>4. EraseOK(pc[t], loc[t])'
  BY <1>0, <1>1, <1>2, <1>3, Parts DEF EraseOK
<1>5. /\ AddOK(pc[t], loc[t])' /\ ReadOK(pc[t], loc[t])' /\ JoinOK(pc[t], loc[t])'
      /\ PruneOK(pc[t], loc[t])'
  BY <1>1, <1>3, Parts DEF AddOK, ReadOK, JoinOK, PruneOK
<1> QED BY <1>4, <1>5 DEF RestoreOK

\* Only the actors of the scheme are left.
LEMMA EraseRestRestores ==
  ASSUME TypeInv, LinkInv, BaseInv, NEW t \in Callers, Restoring(t),
         RestoreOK(pc[t], loc[t]), EraseRest(t)
  PROVE  RestoreOK(pc[t], loc[t])'
<1> DEFINE v == loc[t]  w == loc'[t]
<1>0. /\ pc[t] = "eraseRest" /\ pc \in [Callers -> Labels]
      /\ actors' = {o \in actors : Id(o) \in Kept(t)}
  BY AloneFacts DEF EraseRest
<1>1. /\ v.job = "restore" => v.plan.actors \subseteq SchemeActors
      /\ v.job = "init" => v.ids = v.plan.actors
      /\ v.read = {} /\ v.peer = None /\ v.actor = None
  BY <1>0, Parts DEF RestoreOK, EraseOK
<1>2. SchemeActors' = SchemeActors \cap Kept(t)
  BY <1>0 DEF SchemeActors, Id
<1>3. CASE v.job = "restore"
  <2>1. pc'[t] = "links" /\ w = v
    BY <1>0, <1>3 DEF EraseRest, Goto
  <2>2. SchemeActors' = v.plan.actors
    BY <1>1, <1>2, <1>3 DEF Kept
  <2> QED BY <1>1, <2>1, <2>2, Parts DEF RestoreOK, AddOK, EraseOK, ReadOK, JoinOK, PruneOK
<1>4. CASE v.job = "init"
  <2>1. pc'[t] = "actors" /\ w = v
    BY <1>0, <1>4 DEF EraseRest, Goto
  <2>2. actors' = {} /\ SchemeActors' = {}
    BY <1>0, <1>2, <1>4 DEF Kept
  <2>3. SchemeLinks' = {}
    BY <2>2 DEF SchemeLinks
  <2>4. AddOK(pc[t], loc[t])'
    BY <1>1, <1>4, <2>1, <2>2, <2>3 DEF AddOK, Missing
  <2> QED BY <1>1, <2>1, <2>4, Parts DEF RestoreOK, EraseOK, ReadOK, JoinOK, PruneOK
<1> QED BY <1>3, <1>4 DEF Restoring

\* Scheme() reads the links of one actor after the other.
LEMMA ReadRestores ==
  ASSUME TypeInv, LinkInv, BaseInv, NEW t \in Callers, Restoring(t),
         RestoreOK(pc[t], loc[t]), BeginLinks(t) \/ LinksOfActor(t)
  PROVE  RestoreOK(pc[t], loc[t])'
<1> DEFINE v == loc[t]  w == loc'[t]
<1>0. /\ pc[t] \in Reading /\ pc \in [Callers -> Labels] /\ v \in Locals
      /\ loc \in [Callers -> Locals] /\ actors' = actors /\ v.job # "init"
  BY AloneFacts, Parts DEF BeginLinks, LinksOfActor, LocalOK, JobOK
<1>1. SchemeActors' = SchemeActors /\ \A S : Records(S)' = Records(S)
  BY SameScheme DEF BeginLinks, LinksOfActor
<1>2. ReadOK(pc[t], v)
  BY DEF RestoreOK
<1>3. CASE BeginLinks(t)
  <2>1. pc'[t] = "read" /\ pc[t] = "links" /\ loc' = [loc EXCEPT ![t].todo = actors]
    BY <1>0, <1>3 DEF BeginLinks, Goto
  <2>2. w.todo = actors /\ w.plan = v.plan /\ w.read = v.read
    BY <1>0, <2>1 DEF Locals
  <2>3. Records(actors \ actors) = {}
    BY DEF Records
  <2>4. ReadOK(pc[t], loc[t])'
    BY <1>0, <1>1, <1>2, <2>1, <2>2, <2>3, Parts DEF ReadOK
  <2> QED BY <2>1, <2>4, Parts DEF RestoreOK, AddOK, EraseOK, JoinOK, PruneOK
<1>4. CASE LinksOfActor(t)
  <2>1. pc[t] = "read" /\ pc'[t] = "read"
    BY <1>0, <1>4 DEF LinksOfActor
  <2>2. PICK o \in v.todo :
          loc' = [loc EXCEPT ![t].todo = @ \ {o},
                             ![t].read = @ \cup {<<LinkOf(r), r \in linkData>> :
                                                 r \in {x \in reported : x[1][1] = o}}]
    BY <1>4 DEF LinksOfActor
  <2> DEFINE more == {<<LinkOf(r), r \in linkData>> : r \in {x \in reported : x[1][1] = o}}
  <2>3. w.todo = v.todo \ {o} /\ w.job = v.job /\ w.plan = v.plan /\ w.read = v.read \cup more
    <3>1. w = [v EXCEPT !.todo = @ \ {o}, !.read = @ \cup more]
      BY <1>0, <2>2
    <3> HIDE DEF more
    <3> QED BY <1>0, <3>1 DEF Locals
  <2>4. w.todo \subseteq actors /\ w.read = Records(actors \ w.todo)
    <3>1. v.todo \subseteq actors /\ v.read = Records(actors \ v.todo)
      BY <1>2, <2>1 DEF ReadOK
    <3>2. Records(actors \ (v.todo \ {o})) = Records(actors \ v.todo) \cup more
      BY <3>1 DEF Records
    <3> QED BY <2>3, <3>1, <3>2
  <2>5. \A r \in w.read : r[1][1][2] \in Tables
    BY <2>4, ReportFacts DEF TypeInv, TypeOK, Records, LinkOf
  <2>6. ReadOK(pc[t], loc[t])'
    BY <1>0, <1>1, <1>2, <2>1, <2>3, <2>4, <2>5, Parts DEF ReadOK
  <2> QED BY <2>1, <2>6, Parts DEF RestoreOK, AddOK, EraseOK, JoinOK, PruneOK
<1> QED BY <1>3, <1>4

\* All links of the actors have been read, with their data.
LEMMA LinksEndRestores ==
  ASSUME TypeInv, LinkInv, BaseInv, NEW t \in Callers, Restoring(t),
         RestoreOK(pc[t], loc[t]), LinksEnd(t)
  PROVE  RestoreOK(pc[t], loc[t])'
<1> DEFINE v == loc[t]  w == loc'[t]
<1>0. /\ pc[t] = "read" /\ pc \in [Callers -> Labels] /\ v \in Locals /\ v.todo = {}
      /\ loc \in [Callers -> Locals] /\ v.job = "restore"
  BY AloneFacts DEF LinksEnd, LocalOK, JobOK, Restoring
<1>1. SchemeActors' = SchemeActors /\ SchemeLinks' = SchemeLinks /\ DataLinks' = DataLinks
  BY SameScheme DEF LinksEnd
<1>2. ReadOK(pc[t], v) /\ v.read = Records(actors)
  BY <1>0 DEF RestoreOK, ReadOK
<1>3. pc'[t] = "apply" /\ loc' = [loc EXCEPT ![t].links = v.plan.links]
  BY <1>0 DEF LinksEnd, Goto, Cloning
<1>4. w.links = v.plan.links /\ w.job = v.job /\ w.plan = v.plan /\ w.read = v.read
  BY <1>0, <1>3 DEF Locals
<1> DEFINE S == {x \in reported : x[1][1] \in actors}
<1>5. SchemeLinks = Keys(v.read) /\ \A r \in v.read : r[2] => r[1] \in DataLinks
  <2>1. \A x \in S : LinkOf(x) \in Keys(v.read)
    <3> SUFFICES ASSUME NEW x \in S PROVE LinkOf(x) \in Keys(v.read)
      OBVIOUS
    <3>1. <<LinkOf(x), x \in linkData>> \in v.read
      BY <1>2, Zenon DEF Records
    <3>2. <<LinkOf(x), x \in linkData>>[1] = LinkOf(x)
      OBVIOUS
    <3> QED BY <3>1, <3>2, Zenon DEF Keys
  <2>2. ASSUME NEW r \in v.read PROVE \E x \in S : r[1] = LinkOf(x) /\ r[2] = (x \in linkData)
    <3>1. PICK x \in S : r = <<LinkOf(x), x \in linkData>>
      BY <1>2, Zenon DEF Records
    <3> QED BY <3>1
  <2>3. SchemeLinks = {LinkOf(x) : x \in S}
    BY DEF SchemeLinks
  <2> QED BY <2>1, <2>2, <2>3 DEF Keys, DataLinks
<1>7. Done(pc[t], loc[t])' = {}
  BY <1>3, <1>4 DEF Done
<1>8. JoinOK(pc[t], loc[t])'
  BY <1>1, <1>3, <1>4, <1>5, <1>7 DEF JoinOK, Keys
<1>9. ReadOK(pc[t], loc[t])'
  BY <1>0, <1>1, <1>2, <1>3, <1>4, Parts DEF ReadOK
<1> QED BY <1>3, <1>8, <1>9, Parts DEF RestoreOK, AddOK, EraseOK, PruneOK

\* Where the links of the scheme are made, the rest of the invariant is about
\* what does not change.
LEMMA JoinRest ==
  ASSUME NEW t \in Callers, RestoreOK(pc[t], loc[t]), pc[t] \in Joining, pc'[t] \in Joining,
         SchemeActors' = SchemeActors, loc'[t].plan = loc[t].plan, loc'[t].read = loc[t].read,
         loc'[t].job = loc[t].job,
         JoinOK(pc[t], loc[t])'
  PROVE  RestoreOK(pc[t], loc[t])'
BY Parts DEF RestoreOK, AddOK, EraseOK, ReadOK, PruneOK

\* A link that was read as it should be is left alone.
LEMMA ApplyRestores ==
  ASSUME TypeInv, LinkInv, BaseInv, NEW t \in Callers, Restoring(t),
         RestoreOK(pc[t], loc[t]), ApplyLink(t)
  PROVE  RestoreOK(pc[t], loc[t])'
<1> DEFINE v == loc[t]  w == loc'[t]  m == v.plan
<1>0. /\ pc[t] = "apply" /\ pc \in [Callers -> Labels] /\ v \in Locals
      /\ loc \in [Callers -> Locals] /\ pc[t] \in Joining
  BY AloneFacts, Parts DEF ApplyLink
<1>1. SchemeActors' = SchemeActors /\ SchemeLinks' = SchemeLinks /\ DataLinks' = DataLinks
  BY SameScheme DEF ApplyLink
<1>2. PICK r \in v.links :
        /\ loc' = [loc EXCEPT ![t].links = @ \ {r}, ![t].link = r]
        /\ Goto(t, CASE r[1] \notin Keys(v.read) -> "find"
                     [] r \in v.read -> "apply"
                     [] OTHER -> "data")
  BY DEF ApplyLink
<1>3. /\ w.links = v.links \ {r} /\ w.link = r /\ w.plan = m /\ w.read = v.read
      /\ w.job = v.job
  <2>1. w = [v EXCEPT !.links = @ \ {r}, !.link = r]
    BY <1>0, <1>2
  <2> QED BY <1>0, <2>1 DEF Locals
<1>4. /\ v.links \subseteq m.links
      /\ SchemeLinks = Keys(v.read) \cup Keys(Done("apply", v))
      /\ \A q \in m.links : q[2] /\ q \in Done("apply", v) \cup v.read => q[1] \in DataLinks
  BY <1>0 DEF RestoreOK, JoinOK
<1>5. Done("apply", v) = m.links \ v.links
  BY DEF Done
<1>6. CASE r[1] \notin Keys(v.read)
  <2>1. pc'[t] = "find"
    BY <1>0, <1>2, <1>6 DEF Goto, Keys
  <2>2. Done(pc[t], loc[t])' = m.links \ v.links
    BY <1>2, <1>3, <2>1 DEF Done
  <2>3. JoinOK(pc[t], loc[t])'
    BY <1>1, <1>3, <1>4, <1>5, <2>1, <2>2 DEF JoinOK, Keys
  <2> QED BY <1>0, <1>1, <1>3, <2>1, <2>3, JoinRest, Parts
<1>7. CASE r \in v.read
  <2>1. pc'[t] = "apply"
    BY <1>0, <1>2, <1>7 DEF Goto, Keys
  <2>2. Done(pc[t], loc[t])' = (m.links \ v.links) \cup {r}
    BY <1>2, <1>3, <1>4, <2>1 DEF Done
  <2>3. JoinOK(pc[t], loc[t])'
    BY <1>1, <1>3, <1>4, <1>5, <1>7, <2>1, <2>2 DEF JoinOK, Keys
  <2> QED BY <1>0, <1>1, <1>3, <2>1, <2>3, JoinRest, Parts
<1>8. CASE r[1] \in Keys(v.read) /\ r \notin v.read
  <2>1. pc'[t] = "data"
    BY <1>0, <1>2, <1>8 DEF Goto
  <2>2. Done(pc[t], loc[t])' = m.links \ v.links
    BY <1>2, <1>3, <2>1 DEF Done
  <2>3. JoinOK(pc[t], loc[t])'
    BY <1>1, <1>3, <1>4, <1>5, <1>8, <2>1, <2>2 DEF JoinOK, Keys
  <2> QED BY <1>0, <1>1, <1>3, <2>1, <2>3, JoinRest, Parts
<1> QED BY <1>6, <1>7, <1>8

\* What is known of the link that is being made.
LEMMA JoinFacts ==
  ASSUME TypeInv, LinkInv, BaseInv, NEW t \in Callers, Restoring(t),
         RestoreOK(pc[t], loc[t]), pc[t] \in Joining \ {"apply"}
  PROVE  LET v == loc[t]
             m == v.plan
             l == v.link[1]
         IN /\ v.link \in m.links \ v.links /\ v.link \in LinkRecords /\ v.links \subseteq m.links
            /\ InScheme(l[1][1]) /\ InScheme(l[2][1]) /\ l[1][2] \in Tables /\ l[2][2] \notin Tables
            /\ Done("apply", v) = Done(pc[t], v) \cup {v.link}
            /\ \A r \in m.links : r[1] = l => r = v.link
<1> DEFINE v == loc[t]  m == v.plan  l == v.link[1]
<1>1. v.link \in m.links \ v.links /\ v.links \subseteq m.links /\ SchemeActors = m.actors
  BY Parts DEF RestoreOK, JoinOK, ReadOK
<1>2. v.link \in LinkRecords
  BY <1>1 DEF TypeInv, Locals, Plans
<1>3. l \in Keys(m.links)
  BY <1>1 DEF Keys
<1>4. /\ {l[1][1], l[2][1]} \subseteq m.actors /\ l[1][2] \in Tables /\ l[2][2] \notin Tables
      /\ \A r \in m.links : r[1] = l => r = v.link
  BY <1>1, <1>3 DEF Restoring, WellFormed
<1>5. InScheme(l[1][1]) /\ InScheme(l[2][1])
  BY <1>1, <1>4 DEF SchemeActors, InScheme
<1>6. Done("apply", v) = Done(pc[t], v) \cup {v.link}
  BY <1>1 DEF Done
<1> QED BY <1>1, <1>2, <1>4, <1>5, <1>6

\* Both actors of a link of the scheme are there.
LEMMA FindRestores ==
  ASSUME TypeInv, LinkInv, BaseInv, NEW t \in Callers, Restoring(t),
         RestoreOK(pc[t], loc[t]), FindSource(t) \/ FindDestination(t)
  PROVE  RestoreOK(pc[t], loc[t])'
<1> DEFINE v == loc[t]  w == loc'[t]  l == v.link[1]
<1>0. /\ pc[t] \in {"find", "findOther"} /\ pc \in [Callers -> Labels] /\ v \in Locals
      /\ loc \in [Callers -> Locals] /\ pc[t] \in Joining \ {"apply"} /\ actors \subseteq Actors
  BY AloneFacts, Parts DEF FindSource, FindDestination, TypeInv, TypeOK
<1>1. SchemeActors' = SchemeActors /\ SchemeLinks' = SchemeLinks /\ DataLinks' = DataLinks
  BY SameScheme DEF FindSource, FindDestination
<1>2. InScheme(l[1][1]) /\ InScheme(l[2][1])
  BY <1>0, JoinFacts
<1>3. /\ w.links = v.links /\ w.link = v.link /\ w.plan = v.plan /\ w.read = v.read
      /\ w.job = v.job /\ pc'[t] \in {"findOther", "connect"} /\ Id(w.peer) = l[1][1]
      /\ pc'[t] = "connect" => Id(w.actor) = l[2][1]
  <2>1. CASE FindSource(t)
    <3>1. loc' = [loc EXCEPT ![t].peer = ActorOf(l[1][1])] /\ pc'[t] = "findOther"
      BY <1>0, <1>2, <2>1 DEF FindSource, Goto
    <3>2. Id(ActorOf(l[1][1])) = l[1][1]
      BY <1>2, ActorOfFacts
    <3> QED BY <1>0, <3>1, <3>2 DEF Locals
  <2>2. CASE FindDestination(t)
    <3>1. loc' = [loc EXCEPT ![t].actor = ActorOf(l[2][1])] /\ pc'[t] = "connect"
          /\ pc[t] = "findOther"
      BY <1>0, <1>2, <2>2 DEF FindDestination, Goto
    <3>2. Id(ActorOf(l[2][1])) = l[2][1]
      BY <1>2, ActorOfFacts
    <3>3. Id(v.peer) = l[1][1]
      BY <1>0, <3>1 DEF RestoreOK, JoinOK
    <3> QED BY <1>0, <3>1, <3>2, <3>3 DEF Locals
  <2> QED BY <2>1, <2>2
<1>4. Done(pc[t], loc[t])' = Done(pc[t], v)
  BY <1>0, <1>3 DEF Done
<1>5. JoinOK(pc[t], v)
  BY DEF RestoreOK
<1>6. JoinOK(pc[t], loc[t])'
  BY <1>0, <1>1, <1>3, <1>4, <1>5 DEF JoinOK
<1> QED BY <1>0, <1>1, <1>3, <1>6, JoinRest, Parts

\* After the link is made the caller goes on with the others.
LEMMA ReturnRestores ==
  ASSUME TypeInv, NEW t \in Callers, Restoring(t), NEW p \in {"apply", "prune"}, Return(t, p)
  PROVE  /\ pc'[t] = p /\ loc'[t].plan = loc[t].plan /\ loc'[t].job = loc[t].job
         /\ loc'[t].links = loc[t].links /\ loc'[t].read = loc[t].read
<1>1. loc[t] \in Locals /\ loc \in [Callers -> Locals] /\ pc \in [Callers -> Labels]
  BY DEF TypeInv
<1>2. loc' = [loc EXCEPT ![t].link = None, ![t].actor = None, ![t].peer = None]
      /\ pc' = [pc EXCEPT ![t] = p]
  BY DEF Return, Restoring, Goto
<1>3. loc'[t] = [loc[t] EXCEPT !.link = None, !.actor = None, !.peer = None]
  BY <1>1, <1>2
<1> QED BY <1>1, <1>2, <1>3 DEF Locals

\* The link is made, from the port that keeps a table.
LEMMA ConnectRestores ==
  ASSUME TypeInv, LinkInv, BaseInv, NEW t \in Callers, Restoring(t),
         RestoreOK(pc[t], loc[t]), Connect(t)
  PROVE  RestoreOK(pc[t], loc[t])'
<1> DEFINE v == loc[t]  w == loc'[t]  m == v.plan  l == v.link[1]
           from == <<v.peer, l[1][2]>>
           to == <<v.actor, l[2][2]>>
<1>0. /\ pc[t] = "connect" /\ pc \in [Callers -> Labels] /\ v \in Locals
      /\ loc \in [Callers -> Locals] /\ pc[t] \in Joining \ {"apply"}
  BY AloneFacts, Parts DEF Connect
<1>1. /\ v.link \in m.links \ v.links /\ v.link \in LinkRecords /\ v.links \subseteq m.links
      /\ l[1][2] \in Tables /\ l[2][2] \notin Tables
      /\ Done("apply", v) = Done(pc[t], v) \cup {v.link}
  BY <1>0, JoinFacts
<1>2. v.peer \in actors
  BY <1>0 DEF LinkInv, FoundInv, FoundOK
<1>3. /\ Id(v.peer) = l[1][1] /\ Id(v.actor) = l[2][1]
      /\ SchemeLinks = Keys(v.read) \cup Keys(Done(pc[t], v))
      /\ \A q \in m.links : q[2] /\ q \in Done(pc[t], v) \cup v.read => q[1] \in DataLinks
  BY <1>0, Parts DEF RestoreOK, JoinOK
<1>4. /\ AttachPorts(Connected(from, to)) /\ actors' = actors /\ linkData' = linkData
      /\ IF v.link[2]
         THEN loc' = [loc EXCEPT ![t].actor = None, ![t].peer = None] /\ Goto(t, "data")
         ELSE Return(t, "apply")
  BY <1>2 DEF Connect, Alive
<1>5. l = <<<<l[1][1], l[1][2]>>, <<l[2][1], l[2][2]>>>>
  BY <1>1, LinkFacts DEF Nodes
\* The port of the second actor keeps no table.
<1>6. reported' = reported \cup {<<from, l[2]>>}
  <2>1. Connected(from, to) = {<<from, to>>}
    BY <1>1 DEF Connected
  <2>2. Named(<<from, to>>) = <<from, l[2]>>
    BY <1>3, <1>5 DEF Named
  <2> HIDE DEF from, to, l
  <2> QED BY <1>4, <2>1, <2>2 DEF AttachPorts
<1>7. SchemeLinks' = SchemeLinks \cup {l}
  <2> DEFINE x == <<from, l[2]>>
  <2>1. x[1][1] \in actors /\ LinkOf(x) = l
    BY <1>2, <1>3, <1>5 DEF LinkOf
  <2>2. \A r : LinkOf(r)' = LinkOf(r)
    BY DEF LinkOf, Id
  <2> HIDE DEF from, l, x
  <2>3. {r \in reported' : r[1][1] \in actors'} = {r \in reported : r[1][1] \in actors} \cup {x}
    BY <1>4, <1>6, <2>1 DEF x
  <2> QED BY <2>1, <2>2, <2>3 DEF SchemeLinks
<1>8. SchemeActors' = SchemeActors /\ DataLinks' = DataLinks
  BY <1>4 DEF SchemeActors, DataLinks, Id, LinkOf
<1>9. CASE v.link[2]
  <2>1. pc'[t] = "data"
    BY <1>0, <1>4, <1>9 DEF Goto
  <2>2. /\ w.links = v.links /\ w.link = v.link /\ w.plan = m /\ w.read = v.read
        /\ w.job = v.job
    BY <1>0, <1>4, <1>9 DEF Locals
  <2>3. Done(pc[t], loc[t])' = Done(pc[t], v)
    BY <1>0, <2>1, <2>2 DEF Done
  <2>4. JoinOK(pc[t], loc[t])'
    BY <1>1, <1>3, <1>7, <1>8, <2>1, <2>2, <2>3 DEF JoinOK
  <2> QED BY <1>0, <1>8, <2>1, <2>2, <2>4, JoinRest, Parts
<1>10. CASE ~v.link[2]
  <2>1. pc'[t] = "apply" /\ w.plan = m /\ w.links = v.links /\ w.read = v.read /\ w.job = v.job
    BY <1>4, <1>10, ReturnRestores
  <2>2. Done(pc[t], loc[t])' = Done("apply", v)
    BY <2>1 DEF Done
  <2>3. Keys(Done("apply", v)) = Keys(Done(pc[t], v)) \cup {l}
    BY <1>1 DEF Keys
  <2>4. JoinOK(pc[t], loc[t])'
    BY <1>1, <1>3, <1>7, <1>8, <1>10, <2>1, <2>2, <2>3 DEF JoinOK
  <2> QED BY <1>0, <1>8, <2>1, <2>4, JoinRest, Parts
<1> QED BY <1>9, <1>10

\* Its data is set; another link of the scheme keeps what it has.
LEMMA DataRestores ==
  ASSUME TypeInv, LinkInv, BaseInv, NEW t \in Callers, Restoring(t),
         RestoreOK(pc[t], loc[t]), SetLinkUserData(t)
  PROVE  RestoreOK(pc[t], loc[t])'
<1> DEFINE v == loc[t]  w == loc'[t]  m == v.plan  l == v.link[1]
           name == <<<<ActorOf(l[1][1]), l[1][2]>>, l[2]>>
<1>0. /\ pc[t] = "data" /\ pc \in [Callers -> Labels] /\ v \in Locals
      /\ loc \in [Callers -> Locals] /\ pc[t] \in Joining \ {"apply"}
  BY AloneFacts, Parts DEF SetLinkUserData
<1>1. /\ v.link \in m.links \ v.links /\ v.link \in LinkRecords /\ v.links \subseteq m.links
      /\ InScheme(l[1][1]) /\ l[1][2] \in Tables
      /\ Done("apply", v) = Done(pc[t], v) \cup {v.link}
      /\ \A r \in m.links : r[1] = l => r = v.link
  BY <1>0, JoinFacts
<1>2. /\ SchemeLinks = Keys(v.read) \cup Keys(Done(pc[t], v)) \cup {l}
      /\ \A q \in m.links : q[2] /\ q \in Done(pc[t], v) \cup v.read => q[1] \in DataLinks
  BY <1>0, Parts DEF RestoreOK, JoinOK
<1>3. /\ linkData' = IF v.link[2] THEN linkData \cup {name} ELSE linkData \ {name}
      /\ Return(t, "apply") /\ actors' = actors /\ reported' = reported
  BY <1>1 DEF SetLinkUserData
<1>4. name[1][1] \in actors /\ LinkOf(name) = l
  <2>1. ActorOf(l[1][1]) \in actors /\ Id(ActorOf(l[1][1])) = l[1][1]
    BY <1>1, ActorOfFacts
  <2>2. l = <<<<l[1][1], l[1][2]>>, <<l[2][1], l[2][2]>>>>
    BY <1>1, LinkFacts DEF Nodes
  <2> QED BY <2>1, <2>2 DEF LinkOf
<1>5. \A r : LinkOf(r)' = LinkOf(r)
  BY DEF LinkOf, Id
<1>6. SchemeActors' = SchemeActors /\ SchemeLinks' = SchemeLinks
  BY <1>3 DEF SchemeActors, SchemeLinks, Id, LinkOf
<1>7. /\ \A k \in DataLinks : k # l => k \in DataLinks'
      /\ v.link[2] => DataLinks \cup {l} \subseteq DataLinks'
  <2> HIDE DEF name, l
  <2> QED BY <1>3, <1>4, <1>5 DEF DataLinks
<1>8. pc'[t] = "apply" /\ w.plan = m /\ w.links = v.links /\ w.read = v.read /\ w.job = v.job
  BY <1>3, ReturnRestores
<1>9. Done(pc[t], loc[t])' = Done(pc[t], v) \cup {v.link}
  BY <1>1, <1>8 DEF Done
<1>10. Keys(Done(pc[t], v) \cup {v.link}) = Keys(Done(pc[t], v)) \cup {l}
  BY DEF Keys
<1>11. ASSUME NEW q \in m.links, q[2], q \in Done(pc[t], v) \cup {v.link} \cup v.read
       PROVE  q[1] \in DataLinks'
  <2>1. CASE q = v.link
    BY <1>7, <1>11, <2>1
  <2>2. CASE q # v.link
    BY <1>1, <1>2, <1>7, <1>11, <2>2
  <2> QED BY <2>1, <2>2
<1>12. JoinOK(pc[t], loc[t])'
  BY <1>1, <1>2, <1>6, <1>8, <1>9, <1>10, <1>11 DEF JoinOK
<1> QED BY <1>0, <1>6, <1>8, <1>12, JoinRest, Parts

\* SetMemento takes away what it read and the scheme has not.
LEMMA ApplyEndsRestores ==
  ASSUME TypeInv, LinkInv, BaseInv, NEW t \in Callers, Restoring(t),
         RestoreOK(pc[t], loc[t]), ApplyEnds(t), GoesOn(t)
  PROVE  RestoreOK(pc[t], loc[t])'
<1> DEFINE v == loc[t]  w == loc'[t]  m == v.plan
           rest == {r \in v.read : r[1] \notin Keys(m.links)}
<1>0. /\ pc[t] = "apply" /\ pc \in [Callers -> Labels] /\ v \in Locals /\ v.links = {}
      /\ loc \in [Callers -> Locals]
  BY AloneFacts DEF ApplyEnds
<1>1. SchemeActors' = SchemeActors /\ SchemeLinks' = SchemeLinks /\ DataLinks' = DataLinks
  BY SameScheme DEF ApplyEnds
<1>2. /\ loc' = [loc EXCEPT ![t].link = None, ![t].links = rest] /\ Goto(t, "prune")
  <2>1. ~End(t)
    BY <1>0 DEF End, Goto, GoesOn
  <2> QED BY <2>1 DEF ApplyEnds
<1>3. pc'[t] = "prune" /\ w.links = rest /\ w.plan = m /\ w.read = v.read
      /\ w.job = v.job
  <2>1. w = [v EXCEPT !.link = None, !.links = rest]
    BY <1>0, <1>2
  <2> HIDE DEF rest
  <2> QED BY <1>0, <1>2, <2>1 DEF Goto, Locals
<1>4. /\ SchemeLinks = Keys(v.read) \cup Keys(m.links)
      /\ \A r \in m.links : r[2] => r[1] \in DataLinks
  <2>1. Done("apply", v) = m.links
    BY <1>0 DEF Done
  <2> QED BY <1>0, <2>1, Parts DEF RestoreOK, JoinOK
<1>5. Keys(v.read) \subseteq Keys(m.links) \cup Keys(rest) /\ Keys(rest) \cap Keys(m.links) = {}
  BY DEF Keys
<1>6. PruneOK(pc[t], loc[t])'
  BY <1>1, <1>3, <1>4, <1>5 DEF PruneOK, Keys
<1>7. ReadOK(pc[t], loc[t])'
  BY <1>0, <1>1, <1>3, Parts DEF RestoreOK, ReadOK
<1> QED BY <1>3, <1>6, <1>7, Parts DEF RestoreOK, AddOK, EraseOK, JoinOK

\* Where links are taken away, the rest of the invariant is about what does not
\* change.
LEMMA PruneRest ==
  ASSUME NEW t \in Callers, RestoreOK(pc[t], loc[t]), pc[t] \in Pruning, pc'[t] \in Pruning,
         SchemeActors' = SchemeActors, loc'[t].plan = loc[t].plan, loc'[t].read = loc[t].read,
         loc'[t].job = loc[t].job,
         PruneOK(pc[t], loc[t])'
  PROVE  RestoreOK(pc[t], loc[t])'
BY Parts DEF RestoreOK, AddOK, EraseOK, ReadOK, JoinOK

\* The next link that the scheme has not.
LEMMA PruneLinkRestores ==
  ASSUME TypeInv, LinkInv, BaseInv, NEW t \in Callers, Restoring(t),
         RestoreOK(pc[t], loc[t]), PruneLink(t), GoesOn(t)
  PROVE  RestoreOK(pc[t], loc[t])'
<1> DEFINE v == loc[t]  w == loc'[t]  m == v.plan
<1>0. /\ pc[t] = "prune" /\ pc \in [Callers -> Labels] /\ v \in Locals
      /\ loc \in [Callers -> Locals] /\ pc[t] \in Pruning
  BY AloneFacts, Parts DEF PruneLink
<1>1. SchemeActors' = SchemeActors /\ SchemeLinks' = SchemeLinks /\ DataLinks' = DataLinks
  BY SameScheme DEF PruneLink
<1>2. PICK r \in v.links :
        loc' = [loc EXCEPT ![t].links = @ \ {r}, ![t].link = r] /\ Goto(t, "findBoth")
  <2>1. ~End(t)
    BY <1>0 DEF End, Goto, GoesOn
  <2> QED BY <2>1 DEF PruneLink
<1>3. pc'[t] = "findBoth" /\ w.links = v.links \ {r} /\ w.link = r /\ w.plan = m /\ w.read = v.read
      /\ w.job = v.job
  <2>1. w = [v EXCEPT !.links = @ \ {r}, !.link = r]
    BY <1>0, <1>2
  <2> QED BY <1>0, <1>2, <2>1 DEF Goto, Locals
<1>4. /\ v.links \subseteq v.read /\ Keys(v.links) \cap Keys(m.links) = {}
      /\ Keys(m.links) \subseteq SchemeLinks
      /\ SchemeLinks \subseteq Keys(m.links) \cup Keys(v.links)
      /\ \A q \in m.links : q[2] => q[1] \in DataLinks
  BY <1>0 DEF RestoreOK, PruneOK
<1>5. /\ Keys(v.links) = Keys(v.links \ {r}) \cup {r[1]}
  BY DEF Keys
<1>6. PruneOK(pc[t], loc[t])'
  BY <1>1, <1>3, <1>4, <1>5 DEF PruneOK
<1> QED BY <1>0, <1>1, <1>3, <1>6, PruneRest, Parts

\* A link that is reported has both of its actors in the scheme.
LEMMA FindBothRestores ==
  ASSUME TypeInv, LinkInv, BaseInv, NEW t \in Callers, Restoring(t),
         RestoreOK(pc[t], loc[t]), FindBoth(t)
  PROVE  RestoreOK(pc[t], loc[t])'
<1> DEFINE v == loc[t]  w == loc'[t]  m == v.plan  l == v.link[1]
<1>0. /\ pc[t] = "findBoth" /\ pc \in [Callers -> Labels] /\ v \in Locals
      /\ loc \in [Callers -> Locals] /\ pc[t] \in Pruning /\ actors \subseteq Actors
  BY AloneFacts, Parts DEF FindBoth, TypeInv, TypeOK
<1>1. SchemeActors' = SchemeActors /\ SchemeLinks' = SchemeLinks /\ DataLinks' = DataLinks
      /\ actors' = actors
  BY SameScheme DEF FindBoth
<1>2. /\ v.links \subseteq v.read /\ Keys(v.links) \cap Keys(m.links) = {}
      /\ v.link \in v.read /\ l \notin Keys(m.links)
      /\ Keys(m.links) \subseteq SchemeLinks
      /\ SchemeLinks \subseteq Keys(m.links) \cup Keys(v.links) \cup {l}
      /\ \A q \in m.links : q[2] => q[1] \in DataLinks
  BY <1>0 DEF RestoreOK, PruneOK
<1>3. CASE ~(InScheme(l[1][1]) /\ InScheme(l[2][1]))
  <2>1. l \notin SchemeLinks
    <3> SUFFICES ASSUME NEW r \in reported, r[1][1] \in actors, LinkOf(r) = l
                 PROVE  InScheme(l[1][1]) /\ InScheme(l[2][1])
      BY <1>3 DEF SchemeLinks
    <3>1. l[1][1] = Id(r[1][1]) /\ l[2] = r[2]
      BY DEF LinkOf
    <3>2. InScheme(r[2][1])
      BY AloneFacts DEF LinkInv, ReportInv
    <3> HIDE DEF l
    <3> QED BY <3>1, <3>2 DEF InScheme
  <2>2. Return(t, "prune")
    BY <1>3 DEF FindBoth
  <2>3. pc'[t] = "prune" /\ w.plan = m /\ w.links = v.links /\ w.read = v.read /\ w.job = v.job
    BY <2>2, ReturnRestores
  <2>4. PruneOK(pc[t], loc[t])'
    BY <1>1, <1>2, <2>1, <2>3 DEF PruneOK
  <2> QED BY <1>0, <1>1, <2>3, <2>4, PruneRest, Parts
<1>4. CASE InScheme(l[1][1]) /\ InScheme(l[2][1])
  <2> DEFINE from == ActorOf(l[1][1])
             to == ActorOf(l[2][1])
  <2>1. from \in actors /\ Id(from) = l[1][1] /\ to \in actors /\ Id(to) = l[2][1]
    BY <1>4, ActorOfFacts
  <2>2. loc' = [loc EXCEPT ![t].peer = from, ![t].actor = to] /\ Goto(t, "detach")
    BY <1>4 DEF FindBoth
  <2>3. /\ pc'[t] = "detach" /\ w.links = v.links /\ w.link = v.link /\ w.plan = m
        /\ w.read = v.read /\ w.job = v.job /\ w.peer = from /\ w.actor = to
    <3> HIDE DEF from, to
    <3>1. w = [v EXCEPT !.peer = from, !.actor = to]
      BY <1>0, <2>2
    <3> QED BY <1>0, <2>1, <2>2, <3>1 DEF Goto, Locals
  <2>4. PruneOK(pc[t], loc[t])'
    BY <1>1, <1>2, <2>1, <2>3 DEF PruneOK
  <2> QED BY <1>0, <1>1, <2>3, <2>4, PruneRest, Parts
<1> QED BY <1>3, <1>4

\* Links other than those that are detached stay, with their data.
LEMMA DetachFacts ==
  ASSUME NEW names, DetachPorts(names), actors' = actors
  PROVE  /\ SchemeActors' = SchemeActors /\ SchemeLinks' \subseteq SchemeLinks
         /\ \A k \in SchemeLinks : (\A n \in names : LinkOf(n) # k) => k \in SchemeLinks'
         /\ \A k \in DataLinks : (\A n \in names : LinkOf(n) # k) => k \in DataLinks'
         /\ \A k \in SchemeLinks' : \E r \in reported \ names : r[1][1] \in actors /\ LinkOf(r) = k
<1>1. /\ reported' = reported \ names /\ linkData' = linkData \ names
      /\ \A r : LinkOf(r)' = LinkOf(r)
  BY DEF DetachPorts, LinkOf, Id
<1>2. SchemeActors' = SchemeActors
  BY DEF SchemeActors, Id
<1> QED BY <1>1, <1>2 DEF SchemeLinks, DataLinks

\* Disconnect takes away that link and none of the scheme, even when its second part
\* looks for the wrong port.
LEMMA DisconnectRestores ==
  ASSUME TypeInv, LinkInv, BaseInv, NEW t \in Callers, Restoring(t),
         RestoreOK(pc[t], loc[t]), DisconnectFirst(t) \/ DisconnectSecond(t)
  PROVE  RestoreOK(pc[t], loc[t])'
<1> DEFINE v == loc[t]  w == loc'[t]  m == v.plan  l == v.link[1]
<1>0. /\ pc[t] \in {"detach", "detachAgain"} /\ pc \in [Callers -> Labels] /\ v \in Locals
      /\ loc \in [Callers -> Locals] /\ pc[t] \in Pruning /\ actors' = actors
  BY AloneFacts, Parts DEF DisconnectFirst, DisconnectSecond
<1>1. /\ v.links \subseteq v.read /\ Keys(v.links) \cap Keys(m.links) = {}
      /\ v.link \in v.read /\ l \notin Keys(m.links)
      /\ Keys(m.links) \subseteq SchemeLinks
      /\ SchemeLinks \subseteq Keys(m.links) \cup Keys(v.links)
                                 \cup {k \in {l} : pc[t] = "detach"}
      /\ \A q \in m.links : q[2] => q[1] \in DataLinks
      /\ v.peer \in actors /\ Id(v.peer) = l[1][1]
      /\ v.actor \in actors /\ Id(v.actor) = l[2][1]
  BY <1>0, Parts DEF RestoreOK, PruneOK
\* The source port of the link keeps a table; no link of the scheme leads to one.
<1>2. /\ l[1][2] \in Tables
      /\ \A k \in Keys(m.links) : k[1][2] \in Tables /\ k[2][2] \notin Tables
      /\ \A q \in m.links : q[1] \in Keys(m.links)
  BY <1>1 DEF RestoreOK, ReadOK, Restoring, WellFormed, Keys
<1>3. l = <<<<l[1][1], l[1][2]>>, <<l[2][1], l[2][2]>>>>
  <2>1. v.link \in LinkRecords
    BY <1>0, <1>1 DEF Locals
  <2> QED BY <2>1, LinkFacts DEF Nodes
<1>4. CASE DisconnectFirst(t)
  <2> DEFINE one == <<<<v.peer, l[1][2]>>, l[2]>>
             two == <<<<v.actor, l[2][2]>>, l[1]>>
  <2>1. DetachPorts({one, two}) /\ pc[t] = "detach" /\ pc'[t] = "detachAgain" /\ w = v
    BY <1>0, <1>4 DEF DisconnectFirst, Goto
  <2>2. LinkOf(one) = l /\ LinkOf(two) = <<l[2], l[1]>>
    BY <1>1, <1>3 DEF LinkOf
  <2>3. ASSUME NEW k \in Keys(m.links) PROVE LinkOf(one) # k /\ LinkOf(two) # k
    BY <1>1, <1>2, <2>2
  <2>4. l \notin SchemeLinks'
    <3> SUFFICES ASSUME l \in SchemeLinks' PROVE FALSE
      OBVIOUS
    <3>1. PICK r \in reported \ {one, two} : r[1][1] \in actors /\ LinkOf(r) = l
      BY <1>0, <2>1, DetachFacts
    <3>2. r[1][1] = v.peer
      BY <1>1, <3>1 DEF LinkOf, BaseInv, UniqueIds
    <3>3. r = <<<<r[1][1], r[1][2]>>, r[2]>>
      BY DEF TypeInv, TypeOK
    <3>4. r[1][2] = l[1][2] /\ r[2] = l[2]
      BY <3>1 DEF LinkOf
    <3> QED BY <3>1, <3>2, <3>3, <3>4
  <2>5. /\ SchemeActors' = SchemeActors /\ SchemeLinks' \subseteq SchemeLinks
        /\ Keys(m.links) \subseteq SchemeLinks'
        /\ \A q \in m.links : q[2] => q[1] \in DataLinks'
    <3> HIDE DEF one, two, l
    <3> QED BY <1>0, <1>1, <1>2, <2>1, <2>3, DetachFacts
  <2>6. PruneOK(pc[t], loc[t])'
    BY <1>0, <1>1, <2>1, <2>4, <2>5 DEF PruneOK
  <2> QED BY <1>0, <2>1, <2>5, <2>6, PruneRest, Parts
<1>5. CASE DisconnectSecond(t)
  <2> DEFINE one == <<<<v.actor, l[2][2]>>, <<l[1][1], l[2][2]>>>>
             two == <<<<v.actor, l[2][2]>>, l[2]>>
  <2>1. DetachPorts({one, two}) /\ pc[t] = "detachAgain" /\ Return(t, "prune")
    BY <1>5 DEF DisconnectSecond
  <2>2. LinkOf(one) = <<l[2], <<l[1][1], l[2][2]>>>> /\ LinkOf(two) = <<l[2], l[2]>>
    BY <1>1, <1>3 DEF LinkOf
  <2>3. ASSUME NEW k \in Keys(m.links) PROVE LinkOf(one) # k /\ LinkOf(two) # k
    BY <1>1, <1>2, <2>2
  <2>4. pc'[t] = "prune" /\ w.plan = m /\ w.links = v.links /\ w.read = v.read /\ w.job = v.job
    BY <2>1, ReturnRestores
  <2>5. /\ SchemeActors' = SchemeActors /\ SchemeLinks' \subseteq SchemeLinks
        /\ Keys(m.links) \subseteq SchemeLinks'
        /\ \A q \in m.links : q[2] => q[1] \in DataLinks'
    <3> HIDE DEF one, two, l
    <3> QED BY <1>0, <1>1, <1>2, <2>1, <2>3, DetachFacts
  <2>6. PruneOK(pc[t], loc[t])'
    BY <1>0, <1>1, <2>1, <2>4, <2>5 DEF PruneOK
  <2> QED BY <1>0, <2>4, <2>5, <2>6, PruneRest, Parts
<1> QED BY <1>4, <1>5

LEMMA StepRestores ==
  ASSUME TypeInv, LinkInv, BaseInv, RestoreInv, NEW t \in Callers, Step(t)
  PROVE  RestoreInv'
<1>m. Moves(t) /\ (End(t) \/ GoesOn(t)) /\ pc[t] # "idle"
  BY StepMoves, StepGoesOn
\* A caller that restores is alone.
<1>1. ASSUME NEW u \in Callers \ {t} PROVE ~Restoring(u)'
  <2>1. loc'[u] = loc[u]
    BY <1>m DEF Moves
  <2>2. ~Restoring(u)
    BY <1>m, AloneFacts
  <2> QED BY <2>1, <2>2 DEF Restoring, WellFormed, Keys
<1>2. CASE End(t)
  <2>1. ~Restoring(t)'
    BY <1>2, <1>m, EndMoves, RestFacts DEF Restoring, Moves
  <2> QED BY <1>1, <2>1 DEF RestoreInv
<1>3. ASSUME GoesOn(t), Restoring(t)' PROVE RestoreOK(pc[t], loc[t])'
  <2>1. Restoring(t) /\ RestoreOK(pc[t], loc[t])
    BY <1>3 DEF GoesOn, Restoring, WellFormed, Keys, RestoreInv
  <2>2. LocalOK(pc[t], loc[t]) /\ loc[t].job \in {"init", "restore"}
    BY <2>1 DEF TypeInv, Restoring
  <2>3. ~Attach(t) /\ ~Erase(t) /\ ~CloneActor(t)
    BY <2>2 DEF Attach, Erase, CloneActor, LocalOK, JobOK, Cloning
  <2> QED BY <1>3, <2>1, <2>3, SpawnRestores, NextActorRestores, ActorsEndRestores,
             RemovalRestores, EraseRestRestores, ReadRestores, LinksEndRestores,
             ApplyRestores, FindRestores, ConnectRestores, DataRestores, ApplyEndsRestores,
             PruneLinkRestores, FindBothRestores, DisconnectRestores DEF Step
<1> QED BY <1>1, <1>2, <1>3, <1>m DEF RestoreInv

\* Only Init and SetMemento begin to restore.
LEMMA CallRestores ==
  ASSUME TypeInv, BaseInv, RestoreInv, NEW t \in Callers, Call(t)
  PROVE  RestoreInv'
<1>1. ASSUME NEW u \in Callers \ {t} PROVE ~Restoring(u)'
  <2>1. pc[u] = "idle" => loc'[u] = Rest
    BY CallAlone DEF BaseInv, AloneInv
  <2>2. pc[u] # "idle" => ~loc'[u].alone
    BY CallAlone
  <2> QED BY <2>1, <2>2 DEF Restoring, Rest
<1>0. /\ actors' = actors /\ pc \in [Callers -> Labels]
      /\ \A p, v : Begin(t, p, v) => /\ loc'[t] = [v EXCEPT !.alone = loc'[t].alone]
                                     /\ pc'[t] = p
  <2>1. ASSUME NEW p, NEW v, Begin(t, p, v)
        PROVE  /\ loc'[t] = [v EXCEPT !.alone = loc'[t].alone] /\ pc'[t] = p
    <3>1. pc'[t] = p
      BY <2>1 DEF Begin, Goto, TypeInv
    <3> DEFINE others == {u \in Callers \ {t} : pc[u] # "idle"}
               x(u) == CASE u = t -> [v EXCEPT !.alone = (others = {})]
                         [] u \in others -> [loc[u] EXCEPT !.alone = FALSE]
                         [] OTHER -> loc[u]
    <3>2. loc' = [u \in Callers |-> x(u)]
      BY <2>1 DEF Begin
    <3>3. x(t) = [v EXCEPT !.alone = (others = {})]
      OBVIOUS
    <3>4. loc'[t] = [v EXCEPT !.alone = (others = {})]
      <4> HIDE DEF x
      <4> QED BY <3>2, <3>3
    <3> HIDE DEF others
    <3> QED BY <3>1, <3>4
  <2> QED BY <2>1, CallFacts DEF TypeInv
<1>2. ASSUME Restoring(t)' PROVE RestoreOK(pc[t], loc[t])'
  <2>1. CallSetMemento(t) \/ \E s \in Schemes : CallInit(t, s)
    <3>0. loc'[t].job \in {"init", "restore"}
      BY <1>2 DEF Restoring
    <3>b. ASSUME NEW p, NEW v, v.job \notin {"init", "restore"}, DOMAIN v = DOMAIN Rest,
                 Begin(t, p, v)
          PROVE  FALSE
      <4>1. loc'[t] = [v EXCEPT !.alone = loc'[t].alone]
        BY <1>0, <3>b
      <4>2. "job" \in DOMAIN v
        BY <3>b DEF Rest
      <4> QED BY <3>0, <3>b, <4>1, <4>2
    <3>1. ASSUME NEW o, CallAttach(t, o) PROVE FALSE
      <4> DEFINE v == [Rest EXCEPT !.job = "attach", !.actor = o]
      <4>1. v.job \notin {"init", "restore"} /\ DOMAIN v = DOMAIN Rest
        BY DEF Rest
      <4>2. Begin(t, "attach", v)
        BY <3>1 DEF CallAttach
      <4> HIDE DEF v
      <4> QED BY <3>b, <4>1, <4>2
    <3>2. ASSUME NEW i, CallDetach(t, i) PROVE FALSE
      <4> DEFINE v == [Rest EXCEPT !.job = "detach", !.id = i]
      <4>1. v.job \notin {"init", "restore"} /\ DOMAIN v = DOMAIN Rest
        BY DEF Rest
      <4>2. Begin(t, "erase", v)
        BY <3>2 DEF CallDetach
      <4> HIDE DEF v
      <4> QED BY <3>b, <4>1, <4>2
    <3>3. ASSUME NEW i, NEW job \in Cloning, CallClone(t, i, job) PROVE FALSE
      <4> DEFINE v == [Rest EXCEPT !.job = job, !.original = i]
      <4>1. v.job \notin {"init", "restore"} /\ DOMAIN v = DOMAIN Rest
        BY DEF Rest, Cloning
      <4>2. Begin(t, "original", v)
        BY <3>3 DEF CallClone
      <4> HIDE DEF v
      <4> QED BY <3>b, <4>1, <4>2
    <3>4. ASSUME NEW l, CallDisconnect(t, l) PROVE FALSE
      <4> DEFINE v == [Rest EXCEPT !.job = "disconnect", !.link = <<l, FALSE>>]
      <4>1. v.job \notin {"init", "restore"} /\ DOMAIN v = DOMAIN Rest
        BY DEF Rest
      <4>2. Begin(t, "findBoth", v)
        BY <3>4 DEF CallDisconnect
      <4> HIDE DEF v
      <4> QED BY <3>b, <4>1, <4>2
    <3>5. ASSUME NEW r, CallConnect(t, r) PROVE FALSE
      <4> DEFINE v == [Rest EXCEPT !.job = "connect", !.link = r]
      <4>1. v.job \notin {"init", "restore"} /\ DOMAIN v = DOMAIN Rest
        BY DEF Rest
      <4>2. Begin(t, "find", v)
        BY <3>5 DEF CallConnect
      <4> HIDE DEF v
      <4> QED BY <3>b, <4>1, <4>2
    <3>6. ASSUME NEW r, CallSetLinkUserData(t, r) PROVE FALSE
      <4> DEFINE v == [Rest EXCEPT !.job = "setData", !.link = r]
      <4>1. v.job \notin {"init", "restore"} /\ DOMAIN v = DOMAIN Rest
        BY DEF Rest
      <4>2. Begin(t, "data", v)
        BY <3>6 DEF CallSetLinkUserData
      <4> HIDE DEF v
      <4> QED BY <3>b, <4>1, <4>2
    <3>7. ASSUME NEW s, CallAppend(t, s) PROVE FALSE
      <4> DEFINE v == [Rest EXCEPT !.job = "append", !.plan = s, !.ids = s.actors]
      <4>1. v.job \notin {"init", "restore"} /\ DOMAIN v = DOMAIN Rest
        BY DEF Rest
      <4>2. Begin(t, "actors", v)
        BY <3>7 DEF CallAppend
      <4> HIDE DEF v
      <4> QED BY <3>b, <4>1, <4>2
    <3>8. ASSUME CallClear(t) PROVE FALSE
      <4> DEFINE v == [Rest EXCEPT !.job = "clear"]
      <4>1. v.job \notin {"init", "restore"} /\ DOMAIN v = DOMAIN Rest
        BY DEF Rest
      <4>2. Begin(t, "share", v)
        BY <3>8 DEF CallClear
      <4> HIDE DEF v
      <4> QED BY <3>b, <4>1, <4>2
    <3>9. ASSUME CallScheme(t) PROVE FALSE
      <4> DEFINE v == [Rest EXCEPT !.job = "scheme"]
      <4>1. v.job \notin {"init", "restore"} /\ DOMAIN v = DOMAIN Rest
        BY DEF Rest
      <4>2. Begin(t, "links", v)
        BY <3>9 DEF CallScheme
      <4> HIDE DEF v
      <4> QED BY <3>b, <4>1, <4>2
    <3> QED BY <3>1, <3>2, <3>3, <3>4, <3>5, <3>6, <3>7, <3>8, <3>9 DEF Call
  <2>2. ASSUME NEW s \in Schemes, CallInit(t, s) PROVE RestoreOK(pc[t], loc[t])'
    <3>1. /\ pc'[t] = "share" /\ loc'[t].job = "init" /\ loc'[t].plan = s
          /\ loc'[t].ids = s.actors /\ loc'[t].read = {} /\ loc'[t].peer = None
          /\ loc'[t].actor = None
      <4> DEFINE v == [Rest EXCEPT !.job = "init", !.plan = s, !.ids = s.actors]
      <4>1. loc'[t] = [v EXCEPT !.alone = loc'[t].alone] /\ pc'[t] = "share"
        <5>1. Begin(t, "share", v)
          BY <2>2 DEF CallInit
        <5> HIDE DEF v
        <5> QED BY <1>0, <5>1
      <4> QED BY <4>1 DEF Rest
    <3> QED BY <3>1, Parts DEF RestoreOK, AddOK, EraseOK, ReadOK, JoinOK, PruneOK
  <2>3. CASE CallSetMemento(t)
    <3>1. /\ pc'[t] = "actors" /\ loc'[t].job = "restore" /\ loc'[t].plan = memento
          /\ loc'[t].ids = memento.actors /\ loc'[t].read = {} /\ loc'[t].peer = None
          /\ loc'[t].actor = None
      <4> DEFINE v == [Rest EXCEPT !.job = "restore", !.plan = memento, !.ids = memento.actors]
      <4>1. loc'[t] = [v EXCEPT !.alone = loc'[t].alone] /\ pc'[t] = "actors"
        <5>1. Begin(t, "actors", v)
          BY <2>3 DEF CallSetMemento
        <5> HIDE DEF v
        <5> QED BY <1>0, <5>1
      <4> QED BY <4>1 DEF Rest
    <3> QED BY <3>1, Parts DEF RestoreOK, AddOK, EraseOK, ReadOK, JoinOK, PruneOK, Missing
  <2> QED BY <2>1, <2>2, <2>3
<1> QED BY <1>1, <1>2 DEF RestoreInv

GivenInv == IInv /\ ReportsInv /\ (orderly => RestoreInv)

LEMMA InitGiven == Init => GivenInv
<1> SUFFICES ASSUME Init PROVE GivenInv
  OBVIOUS
<1>1. RestoreInv
  BY RestFacts DEF Init, RestoreInv, Restoring
<1> QED BY <1>1, InitLinks, InitReports DEF GivenInv

LEMMA NextGiven == GivenInv /\ [Next]_vars => GivenInv'
<1> SUFFICES ASSUME GivenInv, [Next]_vars PROVE GivenInv'
  OBVIOUS
<1>1. IInv' /\ ReportsInv'
  BY NextInvariant, NextReports DEF GivenInv
<1>2. ASSUME orderly' PROVE RestoreInv'
  <2>1. ASSUME NEW t \in Callers, Call(t) PROVE RestoreInv'
    BY <1>2, <2>1, OrderlyBefore, CallRestores DEF GivenInv, IInv, ReportsInv
  <2>2. ASSUME NEW t \in Callers, Step(t) PROVE RestoreInv'
    BY <1>2, <2>2, StepMoves, StepRestores DEF GivenInv, IInv, ReportsInv, Moves
  <2>3. ASSUME UNCHANGED <<actors, tables, pc, loc, orderly>> PROVE RestoreInv'
    <3>1. RestoreInv
      BY <1>2, <2>3 DEF GivenInv
    <3>2. /\ SchemeActors' = SchemeActors /\ SchemeLinks' = SchemeLinks
          /\ DataLinks' = DataLinks /\ \A S : Records(S)' = Records(S)
      BY <2>3, SameScheme
    <3>3. \A t \in Callers : RestoreOK(pc[t], loc[t])' <=> RestoreOK(pc[t], loc[t])
      <4> SUFFICES ASSUME NEW t \in Callers
                   PROVE  RestoreOK(pc[t], loc[t])' <=> RestoreOK(pc[t], loc[t])
        OBVIOUS
      <4>1. AddOK(pc[t], loc[t])' <=> AddOK(pc[t], loc[t])
        BY <2>3, <3>2 DEF AddOK, Missing
      <4>2. EraseOK(pc[t], loc[t])' <=> EraseOK(pc[t], loc[t])
        BY <2>3, <3>2 DEF EraseOK
      <4>3. ReadOK(pc[t], loc[t])' <=> ReadOK(pc[t], loc[t])
        BY <2>3, <3>2 DEF ReadOK
      <4>4. JoinOK(pc[t], loc[t])' <=> JoinOK(pc[t], loc[t])
        BY <2>3, <3>2 DEF JoinOK, Done, Keys, Id
      <4>5. PruneOK(pc[t], loc[t])' <=> PruneOK(pc[t], loc[t])
        BY <2>3, <3>2 DEF PruneOK, Keys, Id
      <4> QED BY <4>1, <4>2, <4>3, <4>4, <4>5 DEF RestoreOK
    <3>4. \A t \in Callers : Restoring(t)' <=> Restoring(t)
      BY <2>3 DEF Restoring, WellFormed, Keys
    <3> QED BY <3>1, <3>3, <3>4 DEF RestoreInv
  <2> QED BY <2>1, <2>2, <2>3 DEF Next, Release, vars
<1> QED BY <1>1, <1>2 DEF GivenInv

\* A link of the scheme delivers to the actor that has the id.
LEMMA DeliveringLinks ==
  ASSUME TypeInv, LinkInv, ReportsInv, orderly, NEW t \in Callers, Restoring(t),
         pc[t] \in {"prune", "apply"}
  PROVE  Delivering = SchemeLinks
<1>1. /\ \A c \in callbacks : Named(c) \in reported /\ Named(c)[1] = c[1]
      /\ \A c \in callbacks : c[1][1] \in actors /\ c[2][1] \in actors
  BY CallbackFacts, AloneFacts
     DEF ReportsInv, BaseInv, NamedInv, LinkInv, CallbackInv, Ends, TypeInv, TypeOK, Callbacks
<1>2. \A u \in Callers : ~Cutting(u)
  <2>1. \A u \in Callers \ {t} : pc[u] = "idle"
    BY AloneFacts DEF ReportsInv
  <2> QED BY <2>1 DEF Cutting
<1>3. \A r \in reported : r[1][1] \in actors => \E c \in callbacks : Named(c) = r
  BY <1>2 DEF ReportsInv, CalledInv, Called, Doomed
<1> QED BY <1>1, <1>3 DEF Delivering, SchemeLinks

\* SetMemento and Init, when nothing else is under way, leave the well-formed scheme
\* they were given, whatever there was before and whatever failed or was cut short
\* then.
THEOREM RestoresGiven == Spec => []SchemeGiven
<1>1. GivenInv => SchemeGiven
  <2> SUFFICES ASSUME GivenInv, orderly, NEW t \in Callers, loc[t].alone, loc[t].links = {},
                      WellFormed(loc[t].plan),
                      \/ loc[t].job = "restore" /\ pc[t] = "prune"
                      \/ loc[t].job = "init" /\ pc[t] = "apply"
               PROVE  /\ SchemeActors = loc[t].plan.actors
                      /\ SchemeLinks = Keys(loc[t].plan.links) /\ Delivering = SchemeLinks
                      /\ {r[1] : r \in {x \in loc[t].plan.links : x[2]}} \subseteq DataLinks
    BY DEF SchemeGiven
  <2> DEFINE v == loc[t]
  <2>0. Keys({}) = {}
    BY DEF Keys
  <2>1. TypeInv /\ LinkInv /\ ReportsInv /\ Restoring(t) /\ RestoreOK(pc[t], v)
    BY DEF GivenInv, IInv, RestoreInv, Restoring
  <2>2. SchemeActors = v.plan.actors /\ Delivering = SchemeLinks
    BY <2>1, DeliveringLinks, Parts DEF RestoreOK, ReadOK
  <2>3. CASE pc[t] = "prune"
    BY <2>0, <2>1, <2>2, <2>3 DEF RestoreOK, PruneOK, Pruning
  <2>4. CASE pc[t] = "apply" /\ v.job = "init"
    <3>1. Done("apply", v) = v.plan.links
      BY DEF Done
    <3>2. v.read = {}
      BY <2>1, <2>4, Parts DEF RestoreOK, ReadOK
    <3> QED BY <2>0, <2>1, <2>2, <2>4, <3>1, <3>2 DEF RestoreOK, JoinOK, Joining
  <2> QED BY <2>2, <2>3, <2>4
<1>2. Spec => []GivenInv
  BY InitGiven, NextGiven, PTL DEF Spec
<1> QED BY <1>1, <1>2, PTL
=============================================================================
