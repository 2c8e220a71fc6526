-------------------------- MODULE AppServerPoolProofs --------------------------
(***************************************************************************)
(* Theorems about the app-server pool (AppServerPool.tla), for any number  *)
(* of calls, clients and starts: who owns a permit, who fails a request    *)
(* that waits on a process that is gone, the handshake before a request,   *)
(* that a start and a supervisor do not wait for each other, that an       *)
(* eviction spares the turns its client was told of, and that the record a *)
(* client has of its turns is exact.                                       *)
(*                                                                         *)
(* First the types: Inv1 relates the tables, where tasks of each sort can  *)
(* be, whose generations are whose, and that what belongs to a generation  *)
(* not given out yet is untouched.  Each part of Inv, after it, is about   *)
(* one mechanism, and uses Inv1 and few of the others.  RecordInv, at the  *)
(* end, follows a turn from the line that tells of it to its end.          *)
(***************************************************************************)
EXTENDS AppServerPool, FiniteSetTheorems, SequenceTheorems, TLAPS

USE DEF Gens

----------------------------------------------------------------------------
(* Tasks and their names.                                                  *)

\* A task is the call or the start of a request, or the eviction, kill or replacement
\* of a client; no task is two of these.
LEMMA TaskNames ==
  /\ \A t \in Tasks : \/ t[1] \in {"call", "start"} /\ t[2] \in Calls
                      \/ t[1] \in {"evict", "kill", "retire"} /\ t[2] \in Instances
  /\ \A t \in Tasks : t = <<t[1], t[2]>>
  /\ \A r \in Calls : /\ Call(r) \in Tasks /\ Call(r)[1] = "call" /\ Call(r)[2] = r
                      /\ Start(r) \in Tasks /\ Start(r)[1] = "start" /\ Start(r)[2] = r
  /\ \A i \in Instances : /\ <<"evict", i>> \in Tasks /\ <<"kill", i>> \in Tasks
                          /\ <<"retire", i>> \in Tasks
  BY DEF Tasks, Call, Start

Steps == {"idle", "replaces", "got", "starts", "reads", "sends", "waits", "writes", "answered",
          "recovers", "over", "locks", "spawns", "clears", "awaits", "ok", "err", "takes",
          "fails", "kills", "joins", "stops"}
CallPlaces  == {"idle", "replaces", "got", "starts", "reads", "sends", "waits", "writes",
                "answered", "recovers", "fails", "kills", "joins", "stops", "over"}
StartPlaces == {"idle", "locks", "spawns", "clears", "awaits", "reads", "sends", "waits",
                "writes", "answered", "takes", "fails", "kills", "joins", "ok", "err"}
EvictPlaces == {"idle", "takes", "fails", "kills", "joins"}
KillPlaces  == {"idle", "fails", "kills", "joins"}
RetirePlaces == {"idle", "locks", "takes", "fails", "kills", "joins", "stops", "over"}
Early   == {"idle", "replaces", "got"}
Closers == {"fails", "kills", "joins", "clears", "awaits"}
Sending == {"sends", "waits", "writes", "recovers"}
Places == [t \in Tasks |->
  IF t[1] = "call" THEN CallPlaces ELSE IF t[1] = "start" THEN StartPlaces
  ELSE IF t[1] = "evict" THEN EvictPlaces ELSE IF t[1] = "kill" THEN KillPlaces
  ELSE RetirePlaces]

PlaceInv ==
  /\ \A t \in Tasks : pc[t] \in Places[t]
  /\ \A r \in Calls : 
       /\ pc[Call(r)] # "idle" => client[r] \in Instances
       /\ pc[Start(r)] # "idle" => pc[Call(r)] \notin Early
       /\ pc[Call(r)] \notin Early \cup {"starts", "over"} => pc[Start(r)] = "ok"
ProcessInv ==
  /\ \A i \in Instances : process[i] <= gens /\ (process[i] # 0 => of[process[i]] = i)
  /\ \A g \in Gens : g <= gens => of[g] \in Instances /\ mode[g] \in Modes
Unused(g) ==
  /\ g \notin up \cup dead \cup slots \cup ready
  /\ sup[g] = "off" /\ lines[g] = <<>> /\ inbox[g] = {} /\ of[g] = None
FutureInv == \A g \in Gens : g > gens => Unused(g)
Linked(t) ==
  /\ gen[t] <= gens /\ (gen[t] # 0 => of[gen[t]] = ClientOf(t))
  /\ pc[t] \in Closers \cup Sending => gen[t] # 0
  /\ t[1] \in {"call", "start"} /\ pc[t] \in Early => gen[t] = 0
  /\ pending[t] \in {0, gen[t]}
  /\ pending[t] # 0 => pc[t] \in {"waits", "writes"}
  /\ pc[t] = "waits" => pending[t] # 0
TaskInv == \A t \in Tasks : Linked(t)
LineInv == \A g \in Gens : \A l \in ToSet(lines[g]) : l.kind # "answer" => l.to[1] = "call"

\* The parts of the type invariant, by what disturbs them.
TaskTypes == /\ pc \in [Tasks -> Steps]
             /\ gen \in [Tasks -> 0..MaxGens] /\ pending \in [Tasks -> 0..MaxGens]
             /\ client \in [Calls -> Instances \cup {None}] /\ kind \in [Calls -> Kinds \cup {None}]
RegistryTypes == /\ limit \in Limits
             /\ registry \in [Keys -> Instances \cup {None}] /\ retired \subseteq Instances
             /\ orphans \subseteq Instances
             /\ start_lock \in [Instances -> Calls \cup {None}]
ProcessTypes == process \in [Instances -> 0..MaxGens] /\ active \in [Instances -> SUBSET Calls]
LinkTypes == /\ gens \in 0..MaxGens /\ mode \in [Gens -> Modes \cup {None}]
             /\ of \in [Gens -> Instances \cup {None}] /\ daemons \subseteq Instances
             /\ daemons # {} => "handoff" \in Modes
             /\ dead \subseteq Gens /\ up \subseteq Gens
SupTypes ==
  sup \in [Gens -> {"off", "on", "loss", "exit", "lossLocks", "exitLocks", "drain", "done"}]
SlotTypes == /\ slots \subseteq Gens /\ ready \subseteq Gens /\ Cardinality(slots) <= limit
FlowTypes == /\ inbox \in [Gens -> SUBSET Tasks] /\ lines \in [Gens -> Seq(Lines)]
             /\ running \subseteq Calls
PastTypes == /\ late \subseteq Tasks
             /\ told \subseteq Calls /\ cut \subseteq Calls
             /\ faults \in 0..MaxFaults
GhostTypes == ghosts \subseteq Calls
Types ==
  /\ TaskTypes /\ GhostTypes /\ RegistryTypes /\ ProcessTypes /\ LinkTypes /\ SupTypes
  /\ SlotTypes /\ FlowTypes /\ PastTypes
Inv1 == Types /\ PlaceInv /\ ProcessInv /\ FutureInv /\ TaskInv /\ LineInv

\* The parts of the types make up TypeOK.
LEMMA TypesOK == Types => TypeOK
  BY DEF Types, TypeOK, TaskTypes, RegistryTypes, ProcessTypes, LinkTypes, SupTypes, SlotTypes,
     FlowTypes, PastTypes, GhostTypes, Steps

\* The types and the links between the tables hold at the start.
LEMMA InitInv1 == Init => Inv1
<1> SUFFICES ASSUME Init PROVE Inv1
  OBVIOUS
<1> USE BoundsAssumption DEF Init
<1>1. TaskTypes
  BY DEF TaskTypes, Steps
<1>2. RegistryTypes /\ ProcessTypes /\ LinkTypes /\ PastTypes /\ GhostTypes
  BY DEF RegistryTypes, ProcessTypes, LinkTypes, PastTypes, GhostTypes
<1>3. SupTypes /\ FlowTypes
  BY DEF SupTypes, FlowTypes
<1>4. SlotTypes
  BY FS_EmptySet DEF SlotTypes
<1>5. PlaceInv
  BY TaskNames DEF PlaceInv, Places, CallPlaces, StartPlaces, EvictPlaces, KillPlaces,
     RetirePlaces, Early
<1>6. ProcessInv /\ FutureInv /\ TaskInv
  BY DEF ProcessInv, FutureInv, Unused, TaskInv, Linked, Closers, Sending
<1>7. LineInv
  BY DEF LineInv, ToSet
<1> QED BY <1>1, <1>2, <1>3, <1>4, <1>5, <1>6, <1>7 DEF Inv1, Types

\* Where a task of each sort can be.
LEMMA PlacesOf ==
  ASSUME NEW t \in Tasks
  PROVE  /\ t[1] = "call" => Places[t] = CallPlaces
         /\ t[1] = "start" => Places[t] = StartPlaces
         /\ t[1] = "evict" => Places[t] = EvictPlaces
         /\ t[1] = "kill" => Places[t] = KillPlaces
         /\ t[1] = "retire" => Places[t] = RetirePlaces
  BY DEF Places

-----------------------------------------------------------------------------
(* The types of the tasks.                                                  *)

\* A task that is not idle has a client.
LEMMA Owners ==
  ASSUME Inv1
  PROVE  /\ \A t \in Tasks : pc[t] # "idle" => ClientOf(t) \in Instances
         /\ \A t \in Tasks : t[1] \in {"call", "start"} /\ pc[t] # "idle"
            => client[t[2]] \in Instances
<1>1. ASSUME NEW t \in Tasks, t[1] \in {"call", "start"}, pc[t] # "idle"
      PROVE  client[t[2]] \in Instances
  <2>1. t = Call(t[2]) \/ t = Start(t[2])
    BY <1>1, TaskNames DEF Call, Start
  <2> QED BY <1>1, <2>1, TaskNames DEF Inv1, PlaceInv, Early
<1> QED BY <1>1, TaskNames DEF ClientOf

\* The generation a client has.
LEMMA Processes ==
  ASSUME Inv1
  PROVE  /\ \A i \in Instances : process[i] \in 0..MaxGens /\ process[i] <= gens
         /\ \A t \in Tasks : pc[t] # "idle" => process[ClientOf(t)] \in 0..MaxGens
         /\ \A r \in Calls : pc[Start(r)] # "idle" \/ pc[Call(r)] # "idle"
               => client[r] \in Instances /\ process[client[r]] \in 0..MaxGens
  BY Owners, TaskNames DEF Inv1, Types, ProcessTypes, ProcessInv

\* Where a task goes when its request fails, and after it has closed a process.
LEMMA Outcomes ==
  /\ \A t \in Tasks : Failed(t) = IF t[1] = "start" THEN "takes" ELSE "over"
  /\ \A t \in Tasks : After(t) \in {"stops", "err", "idle"}
  BY DEF Failed, After

\* A task that moves, with another generation or its own.
LEMMA Moves ==
  ASSUME TaskTypes, UNCHANGED <<pending, client, kind>>, NEW t \in Tasks,
         UNCHANGED pc \/ \E x \in Steps : pc' = [pc EXCEPT ![t] = x],
         UNCHANGED gen \/ \E n \in 0..MaxGens : gen' = [gen EXCEPT ![t] = n]
  PROVE  TaskTypes'
  BY DEF TaskTypes

\* What the failure of the requests to a generation makes of the tasks.
LEMMA FailingTypes ==
  ASSUME TaskTypes, NEW g
  PROVE  /\ Failing(g) \in [Tasks -> Steps] /\ Without(g) \in [Tasks -> 0..MaxGens]
         /\ \A t \in Tasks : /\ Failing(g)[t] = (IF pending[t] = g /\ pc[t] = "waits"
                                THEN Failed(t) ELSE pc[t])
                              /\ Without(g)[t] = IF pending[t] = g THEN 0 ELSE pending[t]
<1>1. \A t \in Tasks : Failed(t) \in Steps
  BY Outcomes DEF Steps
<1>2. 0 \in 0..MaxGens
  BY BoundsAssumption
<1>3. Failing(g) \in [Tasks -> Steps]
  BY <1>1 DEF Failing, TaskTypes
<1>4. Without(g) \in [Tasks -> 0..MaxGens]
  BY <1>2 DEF Without, TaskTypes
<1>5. ASSUME NEW t \in Tasks
      PROVE  Failing(g)[t] = IF pending[t] = g /\ pc[t] = "waits" THEN Failed(t) ELSE pc[t]
  BY DEF Failing
<1>6. ASSUME NEW t \in Tasks PROVE Without(g)[t] = IF pending[t] = g THEN 0 ELSE pending[t]
  BY DEF Without
<1> QED BY <1>3, <1>4, <1>5, <1>6

\* The generations given out, and the next one.
LEMMA GensNat ==
  ASSUME Inv1
  PROVE  /\ gens \in Nat /\ gens <= MaxGens /\ MaxGens \in Nat
         /\ gens < MaxGens => gens + 1 \in Gens /\ gens + 1 \in 0..MaxGens
<1>1. gens \in 0..MaxGens /\ MaxGens \in Nat
  BY BoundsAssumption DEF Inv1, Types, LinkTypes
<1> QED BY <1>1

\* A generation given out has a client and a mode.
LEMMA GensGiven ==
  ASSUME Inv1, NEW g \in 1..gens
  PROVE  g \in Gens /\ gens \in Nat /\ gens <= MaxGens /\ of[g] \in Instances /\ mode[g] \in Modes
<1>1. gens \in 0..MaxGens
  BY DEF Inv1, Types, LinkTypes
<1>2. g \in Gens /\ gens \in Nat /\ gens <= MaxGens /\ g <= gens
  BY <1>1, BoundsAssumption
<1> QED BY <1>2 DEF Inv1, ProcessInv

\* What the registry has under the key of an instance.
LEMMA RegTypes ==
  ASSUME Inv1
  PROVE  \A i \in Instances : Key[i] \in Keys /\ registry[Key[i]] \in Instances \cup {None}
  BY KeyAssumption DEF Inv1, Types, RegistryTypes

\* The line a reader reads next; only answers are for starts.
LEMMA Lines0 ==
  ASSUME Inv1, NEW g \in Gens, lines[g] # <<>>
  PROVE  /\ Head(lines[g]) \in Lines /\ Tail(lines[g]) \in Seq(Lines)
         /\ Head(lines[g]).to \in Tasks
         /\ Head(lines[g]) \in ToSet(lines[g])
         /\ Head(lines[g]).kind # "answer" => Head(lines[g]).to = Call(Head(lines[g]).to[2])
         /\ Head(lines[g]).kind # "answer" =>
              Head(lines[g]).to[1] = "call" /\ Head(lines[g]).to[2] \in Calls
         /\ Head(lines[g]).to[1] \in {"call", "start"} => Head(lines[g]).to[2] \in Calls
<1>1. lines[g] \in Seq(Lines)
  BY DEF Inv1, Types, FlowTypes
<1>2. Head(lines[g]) \in Lines /\ Tail(lines[g]) \in Seq(Lines)
  BY <1>1, HeadTailProperties
<1>3. Head(lines[g]) \in ToSet(lines[g])
  BY <1>1 DEF ToSet
<1>4. Head(lines[g]).to \in Tasks
  BY <1>2 DEF Lines
<1>5. Head(lines[g]).kind # "answer" => Head(lines[g]).to[1] = "call"
  BY <1>3 DEF Inv1, LineInv
<1> QED BY <1>2, <1>3, <1>4, <1>5, TaskNames DEF Call

\* The types of the tasks are kept: place, generation, entry of `pending`, client, kind.
LEMMA TaskTypesStep ==
  ASSUME Inv1, [Next]_vars
  PROVE  TaskTypes'
<1>0. TaskTypes
  BY DEF Inv1, Types
<1>1. ASSUME NEW r \in Calls, Replaced(r) PROVE TaskTypes'
  BY <1>1, <1>0, TaskNames DEF Replaced, TaskTypes, Steps
<1>2. ASSUME NEW r \in Calls, Enter(r) PROVE TaskTypes'
  BY <1>2, <1>0, TaskNames DEF Enter, rest, callVars, TaskTypes, Steps
<1>3. ASSUME NEW r \in Calls, Started(r) PROVE TaskTypes'
  BY <1>3, <1>0, TaskNames DEF Started, rest, callVars, TaskTypes, Steps
<1>4. ASSUME NEW r \in Calls, StartCheck(r) PROVE TaskTypes'
  <2>1. UNCHANGED <<pending, client, kind>>
    BY <1>4 DEF StartCheck, rest, callVars
  <2>2. UNCHANGED pc \/ \E x \in Steps : pc' = [pc EXCEPT ![Start(r)] = x]
    BY <1>4, Outcomes DEF StartCheck, Steps
  <2>3. UNCHANGED gen \/ \E n \in 0..MaxGens : gen' = [gen EXCEPT ![Start(r)] = n]
    BY <1>4, Processes, TaskNames DEF StartCheck
  <2> QED BY <1>0, <2>1, <2>2, <2>3, TaskNames, Moves
<1>5. ASSUME NEW r \in Calls, Spawn(r) PROVE TaskTypes'
  BY <1>5, <1>0, TaskNames DEF Spawn, Offers, callVars, TaskTypes, Steps
<1>6. ASSUME NEW r \in Calls, SpawnFails(r) PROVE TaskTypes'
  BY <1>6, <1>0, TaskNames DEF SpawnFails, Move, rest, callVars, TaskTypes, Steps
<1>7. ASSUME NEW r \in Calls, Initialized(r) PROVE TaskTypes'
  <2>1. UNCHANGED <<pending, client, kind>>
    BY <1>7 DEF Initialized, rest, callVars
  <2>2. UNCHANGED pc \/ \E x \in Steps : pc' = [pc EXCEPT ![Start(r)] = x]
    BY <1>7, Outcomes DEF Initialized, Steps
  <2>3. UNCHANGED gen \/ \E n \in 0..MaxGens : gen' = [gen EXCEPT ![Start(r)] = n]
    BY <1>7, Processes, TaskNames DEF Initialized
  <2> QED BY <1>0, <2>1, <2>2, <2>3, TaskNames, Moves
<1>8. ASSUME NEW r \in Calls, Answered(r) PROVE TaskTypes'
  BY <1>8, <1>0, TaskNames DEF Answered, Move, rest, callVars, TaskTypes, Steps
<1>9. ASSUME NEW r \in Calls, Recover(r) PROVE TaskTypes'
  <2>1. UNCHANGED <<pending, client, kind>>
    BY <1>9 DEF Recover, Taken, rest, callVars
  <2>2. UNCHANGED pc \/ \E x \in Steps : pc' = [pc EXCEPT ![Call(r)] = x]
    BY <1>9, Outcomes DEF Recover, Taken, Steps
  <2>3. UNCHANGED gen \/ \E n \in 0..MaxGens : gen' = [gen EXCEPT ![Call(r)] = n]
    BY <1>9, Processes, TaskNames, <1>0 DEF Recover, Taken, TaskTypes
  <2> QED BY <1>0, <2>1, <2>2, <2>3, TaskNames, Moves
<1>10. ASSUME NEW r \in Calls, NEW i \in Instances, Get(r, i) PROVE TaskTypes'
  <2>1. UNCHANGED <<pending, gen>>
    BY <1>10 DEF Get
  <2>2. pc' \in [Tasks -> Steps]
    <3>1. \/ pc' = [pc EXCEPT ![Call(r)] = "got"]
          \/ \E t \in Tasks : pc' = [pc EXCEPT ![Call(r)] = "replaces", ![t] = "locks"]
      BY <1>10, RegTypes, TaskNames DEF Get
    <3> QED BY <1>0, <3>1, TaskNames DEF TaskTypes, Steps
  <2>3. client' \in [Calls -> Instances \cup {None}]
    BY <1>0, <1>10, RegTypes DEF Get, TaskTypes
  <2>4. kind' \in [Calls -> Kinds \cup {None}]
    BY <1>0, <1>10 DEF Get, TaskTypes
  <2> QED BY <1>0, <2>1, <2>2, <2>3, <2>4 DEF TaskTypes
<1>11. ASSUME NEW t \in Tasks, ReadGeneration(t) PROVE TaskTypes'
  BY <1>11, <1>0, TaskNames, Processes, BoundsAssumption, Outcomes DEF ReadGeneration, rest,
                                                                       callVars, TaskTypes,
                                                                       Steps
<1>12. ASSUME NEW t \in Tasks, Send(t) PROVE TaskTypes'
  <2>1. UNCHANGED <<gen, client, kind>>
    BY <1>12 DEF Send, rest, callVars
  <2>2. pc' \in [Tasks -> Steps]
    BY <1>0, <1>12, Outcomes DEF Send, TaskTypes, Steps
  <2>3. pending' \in [Tasks -> 0..MaxGens]
    BY <1>0, <1>12 DEF Send, TaskTypes
  <2> QED BY <1>0, <2>1, <2>2, <2>3 DEF TaskTypes
<1>13. ASSUME NEW t \in Tasks, WriteFails(t) PROVE TaskTypes'
  BY <1>13, <1>0, TaskNames, Outcomes, BoundsAssumption DEF WriteFails, Move, rest, callVars,
                                                            TaskTypes, Steps
<1>14. ASSUME NEW t \in Tasks, NoticeWrite(t) PROVE TaskTypes'
  BY <1>14, <1>0, TaskNames, Outcomes, BoundsAssumption DEF NoticeWrite, Move, LossOrExit,
                                                            rest, Completed, callVars,
                                                            TaskTypes, Steps
<1>15. ASSUME NEW t \in Tasks, Timeout(t) PROVE TaskTypes'
  BY <1>15, <1>0, TaskNames, Outcomes, BoundsAssumption DEF Timeout, rest, callVars,
                                                            TaskTypes, Steps
<1>16. ASSUME NEW t \in Tasks, Take(t) PROVE TaskTypes'
  <2>1. UNCHANGED <<pending, client, kind>>
    BY <1>16 DEF Take, Taken, rest, callVars
  <2>2. UNCHANGED pc \/ \E x \in Steps : pc' = [pc EXCEPT ![t] = x]
    BY <1>16, Outcomes DEF Take, Taken, Steps
  <2>3. UNCHANGED gen \/ \E n \in 0..MaxGens : gen' = [gen EXCEPT ![t] = n]
    BY <1>16, Processes, TaskNames DEF Take, Taken
  <2> QED BY <1>0, <2>1, <2>2, <2>3, TaskNames, Moves
<1>17. ASSUME NEW t \in Tasks, FailPending(t) PROVE TaskTypes'
  BY <1>17, <1>0, TaskNames, FailingTypes DEF FailPending, rest, callVars, TaskTypes, Steps
<1>18. ASSUME NEW t \in Tasks, Terminate(t) PROVE TaskTypes'
  BY <1>18, <1>0, TaskNames DEF Terminate, Move, Behind, rest, Handoff, callVars, TaskTypes,
                                Steps
<1>19. ASSUME NEW t \in Tasks, Join(t) PROVE TaskTypes'
  BY <1>19, <1>0, TaskNames, Outcomes, BoundsAssumption DEF Join, rest, Completed, callVars,
                                                            TaskTypes, Steps
<1>20. ASSUME NEW t \in Tasks, StopDaemon(t) PROVE TaskTypes'
  BY <1>20, <1>0, TaskNames DEF StopDaemon, Move, Handoff, rest, callVars, TaskTypes, Steps
<1>21. ASSUME NEW i \in Instances, Kill(i) PROVE TaskTypes'
  BY <1>21, <1>0, TaskNames, Processes, BoundsAssumption DEF Kill, Taken, callVars,
                                                             TaskTypes, Steps
<1>22. ASSUME NEW i \in Instances, EvictChecks(i) PROVE TaskTypes'
  BY <1>22, <1>0, TaskNames DEF EvictChecks, Move, callVars, TaskTypes, Steps
<1>23. ASSUME NEW i \in Instances, RetireLocks(i) PROVE TaskTypes'
  BY <1>23, <1>0, TaskNames DEF RetireLocks, Move, callVars, TaskTypes, Steps
<1>24. ASSUME NEW g \in 1..gens, FailFirst(g) PROVE TaskTypes'
  BY <1>24, <1>0, TaskNames, FailingTypes DEF FailFirst, rest, callVars, TaskTypes, Steps
<1>25. ASSUME NEW g \in 1..gens, Finalize(g) PROVE TaskTypes'
  BY <1>25, <1>0, TaskNames, FailingTypes DEF Finalize, rest, callVars, TaskTypes, Steps
<1>26. ASSUME NEW g \in 1..gens, ReadLine(g) PROVE TaskTypes'
  <2>1. UNCHANGED <<gen, client, kind>>
    BY <1>26 DEF ReadLine, rest, callVars
  <2>2. g \in Gens
    BY GensGiven
  <2>3. UNCHANGED <<pending, pc>>
          \/ /\ pending' = [pending EXCEPT ![Head(lines[g]).to] = 0]
             /\ pc' = [pc EXCEPT ![Head(lines[g]).to] = "answered"]
    BY <1>26 DEF ReadLine
  <2>4. Head(lines[g]).to \in Tasks
    BY <1>26, <2>2, Lines0 DEF ReadLine
  <2> QED BY <1>0, <2>1, <2>3, <2>4, BoundsAssumption DEF TaskTypes, Steps
<1>27. ASSUME UNCHANGED <<pc, gen, pending, client, kind>> PROVE TaskTypes'
  BY <1>0, <1>27 DEF TaskTypes, Steps
<1>28. ASSUME NEW r \in Calls,
       Completes(r)
      PROVE TaskTypes'
  BY <1>28, <1>27 DEF Completes, Handoff, rest, callVars
<1>29. ASSUME NEW g \in 1..gens,
       Notice(g) \/ ShutsDown(g) \/ Drained(g) \/ Exits(g) \/ Drops(g)
      PROVE TaskTypes'
  BY <1>29, <1>27 DEF Notice, LossOrExit, rest, Completed, callVars, ShutsDown, Drained,
                      Exits, Behind, Handoff, Drops
<1>30. ASSUME NEW g \in 1..gens, NEW t \in Tasks,
       Accept(g, t)
      PROVE TaskTypes'
  BY <1>30, <1>27 DEF Accept, rest, callVars
<1> QED BY <1>1, <1>2, <1>3, <1>4, <1>5, <1>6, <1>7, <1>8, <1>9, <1>10, <1>11, <1>12, <1>13,
           <1>14, <1>15, <1>16, <1>17, <1>18, <1>19, <1>20, <1>21, <1>22, <1>23, <1>24,
           <1>25, <1>26, <1>27, <1>28, <1>29, <1>30 DEF Next, vars

-----------------------------------------------------------------------------
(* The types of what clients and generations have.                          *)

\* The generation of a task that sends, waits or closes a process.
LEMMA Bound ==
  ASSUME Inv1, NEW t \in Tasks, pc[t] \in Closers \cup Sending
  PROVE  /\ gen[t] \in 1..gens /\ gen[t] \in Gens /\ gen[t] # 0
         /\ of[gen[t]] = ClientOf(t) /\ ClientOf(t) \in Instances
<1>1. gen[t] \in 0..MaxGens /\ gen[t] <= gens /\ gen[t] # 0 /\ of[gen[t]] = ClientOf(t)
  BY DEF Inv1, Types, TaskTypes, TaskInv, Linked
<1>2. gens \in 0..MaxGens
  BY DEF Inv1, Types, LinkTypes
<1>3. gen[t] \in 1..gens
  BY <1>1, <1>2, BoundsAssumption
<1>4. pc[t] # "idle"
  BY DEF Closers, Sending
<1> QED BY <1>1, <1>3, <1>4, Owners, GensGiven

\* Processes that end together are known generations.
LEMMA BehindKnown ==
  ASSUME Inv1
  PROVE  /\ \A g \in 1..gens : Behind(g) \subseteq Gens /\ \A h \in Behind(g) : of[h] = of[g]
         /\ \A i \in Instances : Handoff(i) \subseteq Gens /\ \A h \in Handoff(i) : of[h] = i
  BY GensGiven DEF Behind, Handoff

\* Processes that end leave sets of the right types.
LEMMA EndsTypes ==
  ASSUME Inv1, NEW G \in SUBSET Gens, \A g \in G : of[g] \in Instances, Ends(G)
  PROVE  /\ dead' \subseteq Gens /\ up' \subseteq up /\ daemons' \subseteq daemons
            /\ running' \subseteq running
         /\ inbox' \in [Gens -> SUBSET Tasks] /\ ghosts' \subseteq Calls
<1>1. dead \subseteq Gens /\ inbox \in [Gens -> SUBSET Tasks] /\ ghosts \subseteq Calls
  BY DEF Inv1, Types, LinkTypes, FlowTypes, GhostTypes
<1>2. active \in [Instances -> SUBSET Calls]
  BY DEF Inv1, Types, ProcessTypes
<1>3. inbox' \in [Gens -> SUBSET Tasks]
  BY <1>1 DEF Ends
<1>4. ghosts' \subseteq Calls
  BY <1>1, <1>2 DEF Ends
<1> QED BY <1>1, <1>3, <1>4 DEF Ends

\* So does a connection that breaks.
LEMMA BreaksTypes ==
  ASSUME Inv1, NEW g \in Gens, NEW to, Breaks(g, to)
  PROVE  /\ sup' = [sup EXCEPT ![g] = to] /\ lines' \in [Gens -> Seq(Lines)]
         /\ ghosts' \subseteq Calls /\ ghosts \subseteq ghosts'
<1>1. ghosts \subseteq Calls /\ lines \in [Gens -> Seq(Lines)]
  BY DEF Inv1, Types, GhostTypes, FlowTypes
<1>2. Completed(g) \subseteq Calls /\ <<>> \in Seq(Lines)
  BY DEF Completed
<1> QED BY <1>1, <1>2 DEF Breaks

\* The permits taken are finitely many.
LEMMA SlotsFinite == ASSUME SlotTypes PROVE IsFiniteSet(slots)
<1>1. IsFiniteSet(1..MaxGens)
  BY FS_Interval, BoundsAssumption
<1> QED BY <1>1, FS_Subset DEF SlotTypes

\* A permit that is given back leaves no more than the limit.
LEMMA FewerSlots ==
  ASSUME SlotTypes, RegistryTypes, NEW g, slots' = slots \ {g}, UNCHANGED <<ready, limit>>
  PROVE  SlotTypes'
<1>1. IsFiniteSet(slots) /\ limit \in Nat
  BY SlotsFinite, BoundsAssumption DEF RegistryTypes
<1>2. Cardinality(slots) \in Nat /\ Cardinality(slots) <= limit
  BY <1>1, FS_CardinalityType DEF SlotTypes
<1>3. Cardinality(slots \ {g}) = IF g \in slots THEN Cardinality(slots) - 1 ELSE Cardinality(slots)
  BY <1>1, FS_RemoveElement
<1>4. Cardinality(slots \ {g}) <= limit
  BY <1>1, <1>2, <1>3
<1> QED BY <1>4 DEF SlotTypes

\* Turns are named after calls.
LEMMA RunningCalls == ASSUME Inv1 PROVE running \subseteq Calls
  BY DEF Inv1, Types, FlowTypes

\* What a supervisor makes of the end of its process.
LEMMA LossOrExitType == \A g : LossOrExit(g) \in {"loss", "exit"}
  BY DEF LossOrExit

\* The types of the registry are kept.
LEMMA RegistryTypesStep ==
  ASSUME Inv1, [Next]_vars
  PROVE  RegistryTypes'
<1>0. RegistryTypes
  BY DEF Inv1, Types
<1>1. ASSUME NEW r \in Calls, StartCheck(r) PROVE RegistryTypes'
  BY <1>1, <1>0, TaskNames, Owners DEF StartCheck, rest, linkVars, RegistryTypes
<1>2. ASSUME NEW r \in Calls, SpawnFails(r) PROVE RegistryTypes'
  BY <1>2, <1>0, TaskNames, Owners DEF SpawnFails, history, rest, linkVars, RegistryTypes
<1>3. ASSUME NEW r \in Calls, Initialized(r) PROVE RegistryTypes'
  BY <1>3, <1>0, TaskNames, Owners DEF Initialized, linkVars, history, RegistryTypes
<1>4. ASSUME NEW r \in Calls, NEW i \in Instances, Get(r, i) PROVE RegistryTypes'
  BY <1>4, <1>0, TaskNames, Owners, KeyAssumption DEF Get, linkVars, history, RegistryTypes
<1>5. ASSUME NEW t \in Tasks, Take(t) PROVE RegistryTypes'
  BY <1>5, <1>0, TaskNames, Owners DEF Take, Unlocks, rest, linkVars, RegistryTypes
<1>6. ASSUME NEW t \in Tasks, Join(t) PROVE RegistryTypes'
  BY <1>6, <1>0, TaskNames, Owners DEF Join, Unlocks, rest, linkVars, RegistryTypes
<1>7. ASSUME NEW i \in Instances, RetireLocks(i) PROVE RegistryTypes'
  BY <1>7, <1>0, TaskNames, Owners DEF RetireLocks, linkVars, RegistryTypes
<1>8. ASSUME UNCHANGED <<limit, registry, retired, orphans, start_lock>> PROVE RegistryTypes'
  BY <1>0, <1>8 DEF RegistryTypes
<1>9. ASSUME NEW r \in Calls,
       Replaced(r) \/ Enter(r) \/ Started(r) \/ Spawn(r) \/ Answered(r) \/ Recover(r) \/
       Completes(r)
      PROVE RegistryTypes'
  BY <1>9, <1>8 DEF Replaced, linkVars, history, Enter, rest, Started, Spawn, Offers,
                    Answered, Recover, Completes
<1>10. ASSUME NEW t \in Tasks,
       ReadGeneration(t) \/ Send(t) \/ WriteFails(t) \/ NoticeWrite(t) \/ Timeout(t) \/
       FailPending(t) \/ Terminate(t) \/ StopDaemon(t)
      PROVE RegistryTypes'
  BY <1>10, <1>8 DEF ReadGeneration, history, rest, linkVars, Send, WriteFails, NoticeWrite,
                     Timeout, FailPending, Terminate, StopDaemon
<1>11. ASSUME NEW i \in Instances,
       Kill(i) \/ EvictChecks(i)
      PROVE RegistryTypes'
  BY <1>11, <1>8 DEF Kill, linkVars, EvictChecks
<1>12. ASSUME NEW g \in 1..gens,
       Notice(g) \/ ShutsDown(g) \/ FailFirst(g) \/ Finalize(g) \/ Drained(g) \/ ReadLine(g)
       \/ Exits(g) \/ Drops(g)
      PROVE RegistryTypes'
  BY <1>12, <1>8 DEF Notice, rest, linkVars, ShutsDown, FailFirst, history, Finalize,
                     Drained, ReadLine, Exits, Drops
<1>13. ASSUME NEW g \in 1..gens, NEW t \in Tasks,
       Accept(g, t)
      PROVE RegistryTypes'
  BY <1>13, <1>8 DEF Accept, history, rest, linkVars
<1> QED BY <1>1, <1>2, <1>3, <1>4, <1>5, <1>6, <1>7, <1>8, <1>9, <1>10, <1>11, <1>12, <1>13
           DEF Next, vars

\* The types of what a client has are kept.
LEMMA ProcessTypesStep ==
  ASSUME Inv1, [Next]_vars
  PROVE  ProcessTypes'
<1>0. ProcessTypes
  BY DEF Inv1, Types
<1>1. ASSUME NEW r \in Calls, StartCheck(r) PROVE ProcessTypes'
  BY <1>1, <1>0, TaskNames, Processes, BoundsAssumption DEF StartCheck, ProcessTypes
<1>2. ASSUME NEW r \in Calls, Spawn(r) PROVE ProcessTypes'
  <2>1. client[r] \in Instances /\ gens + 1 \in 0..MaxGens
    BY <1>2, Owners, TaskNames, GensNat DEF Spawn
  <2> QED BY <1>0, <2>1, <1>2 DEF Spawn, ProcessTypes
<1>3. ASSUME NEW r \in Calls, Answered(r) PROVE ProcessTypes'
  <2>1. client[r] \in Instances
    BY <1>3, Owners, TaskNames DEF Answered, Move
  <2> QED BY <1>0, <2>1, <1>3 DEF Answered, rest, ProcessTypes
<1>4. ASSUME NEW r \in Calls, Recover(r) PROVE ProcessTypes'
  <2> QED BY <1>0, <1>4, BoundsAssumption DEF Recover, Taken, rest, ProcessTypes
<1>5. ASSUME NEW t \in Tasks, Take(t) PROVE ProcessTypes'
  <2> QED BY <1>0, <1>5, BoundsAssumption DEF Take, Taken, rest, ProcessTypes
<1>6. ASSUME NEW i \in Instances, Kill(i) PROVE ProcessTypes'
  <2>1. active' = active /\ process' = [process EXCEPT ![of[process[i]]] = 0]
    BY <1>6 DEF Kill, Taken
  <2>2. 0 \in 0..MaxGens
    BY BoundsAssumption
  <2> QED BY <1>0, <2>1, <2>2 DEF ProcessTypes
<1>7. ASSUME NEW g \in 1..gens, Finalize(g) PROVE ProcessTypes'
  <2>1. of[g] \in Instances
    BY GensGiven
  <2> QED BY <1>0, <2>1, <1>7, BoundsAssumption DEF Finalize, ProcessTypes
<1>8. ASSUME NEW g \in 1..gens, ReadLine(g) PROVE ProcessTypes'
  <2>1. g \in Gens /\ of[g] \in Instances
    BY GensGiven
  <2>2. lines[g] # <<>> /\ UNCHANGED process
    BY <1>8 DEF ReadLine
  <2>3. Head(lines[g]).kind # "answer" => Head(lines[g]).to[2] \in Calls
    BY <2>1, <2>2, Lines0, TaskNames
  <2>4. active[of[g]] \in SUBSET Calls
    BY <1>0, <2>1 DEF ProcessTypes
  <2>5. \E S \in SUBSET Calls : active' = [active EXCEPT ![of[g]] = S] \/ active' = active
    BY <1>8, <2>3, <2>4 DEF ReadLine
  <2> QED BY <1>0, <2>1, <2>2, <2>5 DEF ProcessTypes
<1>9. ASSUME UNCHANGED <<process, active>> PROVE ProcessTypes'
  BY <1>0, <1>9 DEF ProcessTypes
<1>10. ASSUME NEW r \in Calls,
       Replaced(r) \/ Enter(r) \/ Started(r) \/ SpawnFails(r) \/ Initialized(r) \/
       Completes(r)
      PROVE ProcessTypes'
  BY <1>10, <1>9 DEF Replaced, Enter, Started, SpawnFails, Initialized, Completes
<1>11. ASSUME NEW r \in Calls, NEW i \in Instances,
       Get(r, i)
      PROVE ProcessTypes'
  BY <1>11, <1>9 DEF Get
<1>12. ASSUME NEW t \in Tasks,
       ReadGeneration(t) \/ Send(t) \/ WriteFails(t) \/ NoticeWrite(t) \/ Timeout(t) \/
       FailPending(t) \/ Terminate(t) \/ Join(t) \/ StopDaemon(t)
      PROVE ProcessTypes'
  BY <1>12, <1>9 DEF ReadGeneration, Send, WriteFails, NoticeWrite, Timeout, FailPending,
                     Terminate, Join, StopDaemon
<1>13. ASSUME NEW i \in Instances,
       EvictChecks(i) \/ RetireLocks(i)
      PROVE ProcessTypes'
  BY <1>13, <1>9 DEF EvictChecks, RetireLocks
<1>14. ASSUME NEW g \in 1..gens,
       Notice(g) \/ ShutsDown(g) \/ FailFirst(g) \/ Drained(g) \/ Exits(g) \/ Drops(g)
      PROVE ProcessTypes'
  BY <1>14, <1>9 DEF Notice, ShutsDown, FailFirst, Drained, Exits, Drops
<1>15. ASSUME NEW g \in 1..gens, NEW t \in Tasks,
       Accept(g, t)
      PROVE ProcessTypes'
  BY <1>15, <1>9 DEF Accept
<1> QED BY <1>1, <1>2, <1>3, <1>4, <1>5, <1>6, <1>7, <1>8, <1>9, <1>10, <1>11, <1>12, <1>13,
           <1>14, <1>15 DEF Next, vars

\* The types of the supervisors are kept.
LEMMA SupTypesStep ==
  ASSUME Inv1, [Next]_vars
  PROVE  SupTypes'
<1>0. SupTypes
  BY DEF Inv1, Types
<1>1. ASSUME NEW r \in Calls, Spawn(r) PROVE SupTypes'
  <2>1. gens + 1 \in Gens
    BY <1>1, GensNat DEF Spawn
  <2> QED BY <1>0, <2>1, <1>1 DEF Spawn, Opens, SupTypes
<1>2. ASSUME NEW t \in Tasks, NoticeWrite(t) PROVE SupTypes'
  <2>1. gen[t] \in Gens
    BY <1>2, Bound DEF NoticeWrite, Move, Sending
  <2> QED BY <1>0, <1>2, <2>1, BreaksTypes, LossOrExitType DEF NoticeWrite, SupTypes
<1>3. ASSUME NEW t \in Tasks, Join(t) PROVE SupTypes'
  <2>1. gen[t] \in Gens
    BY <1>3, Bound DEF Join, Closers
  <2> QED BY <1>0, <1>3, <2>1, BreaksTypes DEF Join, SupTypes
<1>4. ASSUME NEW g \in 1..gens, Notice(g) PROVE SupTypes'
  BY <1>4, <1>0, GensGiven, BoundsAssumption, BreaksTypes, LossOrExitType DEF Notice,
                                                                              SupTypes
<1>5. ASSUME NEW g \in 1..gens, ShutsDown(g) PROVE SupTypes'
  <2>1. \E to \in {"done", "drain"} : Breaks(g, to)
    BY <1>5 DEF ShutsDown
  <2>2. g \in Gens
    BY GensGiven
  <2> QED BY <1>0, <2>1, <2>2, BreaksTypes DEF SupTypes
<1>6. ASSUME NEW g \in 1..gens, FailFirst(g) PROVE SupTypes'
  BY <1>6, <1>0, GensGiven, BoundsAssumption DEF FailFirst, SupTypes
<1>7. ASSUME NEW g \in 1..gens, Finalize(g) PROVE SupTypes'
  BY <1>7, <1>0, GensGiven, BoundsAssumption DEF Finalize, SupTypes
<1>8. ASSUME NEW g \in 1..gens, Drained(g) PROVE SupTypes'
  BY <1>8, <1>0, GensGiven, BoundsAssumption DEF Drained, SupTypes
<1>9. ASSUME UNCHANGED <<sup>> PROVE SupTypes'
  BY <1>0, <1>9 DEF SupTypes
<1>10. ASSUME NEW r \in Calls,
       Replaced(r) \/ Enter(r) \/ Started(r) \/ StartCheck(r) \/ SpawnFails(r) \/
       Initialized(r) \/ Answered(r) \/ Recover(r) \/ Completes(r)
      PROVE SupTypes'
  BY <1>10, <1>9 DEF Replaced, Enter, Started, StartCheck, SpawnFails, Initialized, Answered,
                     Recover, Completes
<1>11. ASSUME NEW r \in Calls, NEW i \in Instances,
       Get(r, i)
      PROVE SupTypes'
  BY <1>11, <1>9 DEF Get
<1>12. ASSUME NEW t \in Tasks,
       ReadGeneration(t) \/ Send(t) \/ WriteFails(t) \/ Timeout(t) \/ Take(t) \/
       FailPending(t) \/ Terminate(t) \/ StopDaemon(t)
      PROVE SupTypes'
  BY <1>12, <1>9 DEF ReadGeneration, Send, WriteFails, Timeout, Take, FailPending, Terminate,
                     StopDaemon
<1>13. ASSUME NEW i \in Instances,
       Kill(i) \/ EvictChecks(i) \/ RetireLocks(i)
      PROVE SupTypes'
  BY <1>13, <1>9 DEF Kill, EvictChecks, RetireLocks
<1>14. ASSUME NEW g \in 1..gens,
       ReadLine(g) \/ Exits(g) \/ Drops(g)
      PROVE SupTypes'
  BY <1>14, <1>9 DEF ReadLine, Exits, Drops
<1>15. ASSUME NEW g \in 1..gens, NEW t \in Tasks,
       Accept(g, t)
      PROVE SupTypes'
  BY <1>15, <1>9 DEF Accept
<1> QED BY <1>1, <1>2, <1>3, <1>4, <1>5, <1>6, <1>7, <1>8, <1>9, <1>10, <1>11, <1>12, <1>13,
           <1>14, <1>15 DEF Next, vars

\* The types of what a generation is are kept.
LEMMA LinkTypesStep ==
  ASSUME Inv1, [Next]_vars
  PROVE  LinkTypes'
<1>0. LinkTypes
  BY DEF Inv1, Types
<1>1. ASSUME NEW r \in Calls, Spawn(r) PROVE LinkTypes'
  <2>1. client[r] \in Instances /\ gens + 1 \in Gens /\ gens + 1 \in 0..MaxGens
    BY <1>1, Owners, TaskNames, GensNat DEF Spawn
  <2>2. dead' = dead /\ \E m \in Offers(client[r]) : Opens(gens + 1, client[r], m)
    BY <1>1 DEF Spawn
  <2>3. PICK m \in Modes : Opens(gens + 1, client[r], m)
    BY <1>0, <2>1, <2>2 DEF Offers, LinkTypes
  <2> QED BY <1>0, <2>1, <2>2, <2>3 DEF Opens, LinkTypes
<1>2. ASSUME NEW t \in Tasks, Terminate(t) PROVE LinkTypes'
  <2>1. gen[t] \in 1..gens
    BY <1>2, Bound DEF Terminate, Move, Closers
  <2>2. \/ UNCHANGED worldVars /\ UNCHANGED ghosts
        \/ Ends(Behind(gen[t]))
    BY <1>2 DEF Terminate
  <2>3. CASE UNCHANGED worldVars /\ UNCHANGED ghosts
    BY <1>0, <2>3, <1>2 DEF Terminate, rest, linkVars, worldVars, LinkTypes
  <2>4. CASE Ends(Behind(gen[t]))
    BY <1>0, <2>1, <2>4, <1>2, GensGiven, BehindKnown, EndsTypes
       DEF Terminate, rest, linkVars, worldVars, LinkTypes
  <2> QED BY <2>2, <2>3, <2>4
<1>3. ASSUME NEW t \in Tasks, Join(t) PROVE LinkTypes'
  BY <1>3, <1>0, GensGiven DEF Join, rest, linkVars, LinkTypes
<1>4. ASSUME NEW t \in Tasks, StopDaemon(t) PROVE LinkTypes'
  <2>1. ClientOf(t) \in Instances
    BY <1>4, Owners DEF StopDaemon, Move
  <2>2. \/ UNCHANGED worldVars /\ UNCHANGED ghosts
        \/ Ends(Handoff(ClientOf(t)))
    BY <1>4 DEF StopDaemon
  <2>3. CASE UNCHANGED worldVars /\ UNCHANGED ghosts
    BY <1>0, <2>3, <1>4 DEF StopDaemon, rest, linkVars, worldVars, LinkTypes
  <2>4. CASE Ends(Handoff(ClientOf(t)))
    BY <1>0, <2>1, <2>4, <1>4, BehindKnown, EndsTypes
       DEF StopDaemon, rest, linkVars, worldVars, LinkTypes
  <2> QED BY <2>2, <2>3, <2>4
<1>5. ASSUME NEW g \in 1..gens, ShutsDown(g) PROVE LinkTypes'
  BY <1>5, <1>0, GensGiven DEF ShutsDown, rest, linkVars, LinkTypes
<1>6. ASSUME NEW g \in 1..gens, Exits(g) PROVE LinkTypes'
  <2>1. Ends(Behind(g))
    BY <1>6 DEF Exits
  <2> QED BY <1>0, <2>1, <1>6, GensGiven, BehindKnown, EndsTypes DEF Exits, linkVars, LinkTypes
<1>7. ASSUME NEW g \in 1..gens, Drops(g) PROVE LinkTypes'
  BY <1>7, <1>0, GensGiven DEF Drops, linkVars, LinkTypes
<1>8. ASSUME UNCHANGED <<gens, mode, of, daemons, dead, up>> PROVE LinkTypes'
  BY <1>0, <1>8 DEF LinkTypes
<1>9. ASSUME NEW r \in Calls,
       Replaced(r) \/ Enter(r) \/ Started(r) \/ StartCheck(r) \/ SpawnFails(r) \/
       Initialized(r) \/ Answered(r) \/ Recover(r) \/ Completes(r)
      PROVE LinkTypes'
  BY <1>9, <1>8 DEF Replaced, linkVars, worldVars, Enter, rest, Started, StartCheck,
                    SpawnFails, Initialized, Answered, Recover, Completes
<1>10. ASSUME NEW r \in Calls, NEW i \in Instances,
       Get(r, i)
      PROVE LinkTypes'
  BY <1>10, <1>8 DEF Get, linkVars, worldVars
<1>11. ASSUME NEW t \in Tasks,
       ReadGeneration(t) \/ Send(t) \/ WriteFails(t) \/ NoticeWrite(t) \/ Timeout(t) \/
       Take(t) \/ FailPending(t)
      PROVE LinkTypes'
  BY <1>11, <1>8 DEF ReadGeneration, worldVars, rest, linkVars, Send, WriteFails,
                     NoticeWrite, Timeout, Take, FailPending
<1>12. ASSUME NEW i \in Instances,
       Kill(i) \/ EvictChecks(i) \/ RetireLocks(i)
      PROVE LinkTypes'
  BY <1>12, <1>8 DEF Kill, linkVars, worldVars, EvictChecks, RetireLocks
<1>13. ASSUME NEW g \in 1..gens,
       Notice(g) \/ FailFirst(g) \/ Finalize(g) \/ Drained(g) \/ ReadLine(g)
      PROVE LinkTypes'
  BY <1>13, <1>8 DEF Notice, worldVars, rest, linkVars, FailFirst, Finalize, Drained,
                     ReadLine
<1>14. ASSUME NEW g \in 1..gens, NEW t \in Tasks,
       Accept(g, t)
      PROVE LinkTypes'
  BY <1>14, <1>8 DEF Accept, rest, linkVars
<1> QED BY <1>1, <1>2, <1>3, <1>4, <1>5, <1>6, <1>7, <1>8, <1>9, <1>10, <1>11, <1>12, <1>13,
           <1>14 DEF Next, vars

\* No more permits are taken than there are.
LEMMA SlotTypesStep ==
  ASSUME Inv1, [Next]_vars
  PROVE  SlotTypes'
<1>0. SlotTypes
  BY DEF Inv1, Types
<1>1. ASSUME NEW r \in Calls, Spawn(r) PROVE SlotTypes'
  <2>1. gens + 1 \in Gens /\ slots' = slots \cup {gens + 1} /\ UNCHANGED <<ready, limit>>
    BY <1>1, GensNat DEF Spawn
  <2>2. Cardinality(slots) < limit /\ limit \in Nat
    BY <1>1, BoundsAssumption DEF Spawn, Inv1, Types, RegistryTypes
  <2>3. IsFiniteSet(slots)
    BY <1>0, SlotsFinite
  <2>5. Cardinality(slots) \in Nat
    BY <2>3, FS_CardinalityType
  <2>6. Cardinality(slots') = IF gens + 1 \in slots
          THEN Cardinality(slots) ELSE Cardinality(slots) + 1
    BY <2>1, <2>3, FS_AddElement
  <2>4. Cardinality(slots') <= limit
    BY <2>2, <2>5, <2>6
  <2> QED BY <1>0, <2>1, <2>4 DEF SlotTypes
<1>2. ASSUME NEW r \in Calls, Initialized(r) PROVE SlotTypes'
  <2>1. UNCHANGED <<slots, limit>> /\ ready' \subseteq ready \cup {process[client[r]]}
    BY <1>2 DEF Initialized, linkVars
  <2>2. ready' # ready => process[client[r]] # 0
    BY <1>2 DEF Initialized
  <2>3. process[client[r]] \in 0..MaxGens
    BY <1>2, TaskNames, Processes DEF Initialized
  <2>4. ready' \subseteq Gens
    BY <1>0, <2>1, <2>2, <2>3, BoundsAssumption DEF SlotTypes
  <2> QED BY <1>0, <2>1, <2>4 DEF SlotTypes
<1>3. ASSUME NEW t \in Tasks, Join(t) PROVE SlotTypes'
  <2>1. slots' = slots \ {gen[t]} /\ UNCHANGED <<ready, limit>>
    BY <1>3 DEF Join, rest, linkVars
  <2> QED BY <1>0, <2>1, FewerSlots DEF Inv1, Types
<1>4. ASSUME NEW g \in 1..gens, Finalize(g) PROVE SlotTypes'
  <2>1. slots' = slots \ {g} \/ slots' = slots
    BY <1>4 DEF Finalize
  <2>2. UNCHANGED <<ready, limit>>
    BY <1>4 DEF Finalize, rest, linkVars
  <2> QED BY <1>0, <2>1, <2>2, FewerSlots DEF Inv1, Types, SlotTypes
<1>5. ASSUME UNCHANGED <<slots, ready, limit>> PROVE SlotTypes'
  BY <1>0, <1>5 DEF SlotTypes
<1>6. ASSUME NEW r \in Calls,
       Replaced(r) \/ Enter(r) \/ Started(r) \/ StartCheck(r) \/ SpawnFails(r) \/ Answered(r)
       \/ Recover(r) \/ Completes(r)
      PROVE SlotTypes'
  BY <1>6, <1>5 DEF Replaced, linkVars, Enter, rest, Started, StartCheck, SpawnFails,
                    Answered, Recover, Completes
<1>7. ASSUME NEW r \in Calls, NEW i \in Instances,
       Get(r, i)
      PROVE SlotTypes'
  BY <1>7, <1>5 DEF Get, linkVars
<1>8. ASSUME NEW t \in Tasks,
       ReadGeneration(t) \/ Send(t) \/ WriteFails(t) \/ NoticeWrite(t) \/ Timeout(t) \/
       Take(t) \/ FailPending(t) \/ Terminate(t) \/ StopDaemon(t)
      PROVE SlotTypes'
  BY <1>8, <1>5 DEF ReadGeneration, rest, linkVars, Send, WriteFails, NoticeWrite, Timeout,
                    Take, FailPending, Terminate, StopDaemon
<1>9. ASSUME NEW i \in Instances,
       Kill(i) \/ EvictChecks(i) \/ RetireLocks(i)
      PROVE SlotTypes'
  BY <1>9, <1>5 DEF Kill, linkVars, EvictChecks, RetireLocks
<1>10. ASSUME NEW g \in 1..gens,
       Notice(g) \/ ShutsDown(g) \/ FailFirst(g) \/ Drained(g) \/ ReadLine(g) \/ Exits(g) \/
       Drops(g)
      PROVE SlotTypes'
  BY <1>10, <1>5 DEF Notice, rest, linkVars, ShutsDown, FailFirst, Drained, ReadLine, Exits,
                     Drops
<1>11. ASSUME NEW g \in 1..gens, NEW t \in Tasks,
       Accept(g, t)
      PROVE SlotTypes'
  BY <1>11, <1>5 DEF Accept, rest, linkVars
<1> QED BY <1>1, <1>2, <1>3, <1>4, <1>5, <1>6, <1>7, <1>8, <1>9, <1>10, <1>11 DEF Next, vars

\* The turns of the client that a task works on.
LEMMA Actives ==
  ASSUME Inv1
  PROVE  /\ \A t \in Tasks : pc[t] # "idle" => active[ClientOf(t)] \in SUBSET Calls
         /\ \A r \in Calls : pc[Start(r)] # "idle" \/ pc[Call(r)] # "idle"
               => client[r] \in Instances /\ active[client[r]] \in SUBSET Calls
         /\ \A i \in Instances : active[i] \in SUBSET Calls
  BY Processes, Owners, TaskNames DEF Inv1, Types, ProcessTypes

\* Turns that are over are named after calls.
LEMMA Completes1 == \A g : Completed(g) \subseteq Calls
  BY DEF Completed

\* The types of the ghosts are kept.
LEMMA GhostTypesStep ==
  ASSUME Inv1, [Next]_vars
  PROVE  GhostTypes'
<1>0. GhostTypes
  BY DEF Inv1, Types
<1>1. ASSUME NEW r \in Calls, StartCheck(r) PROVE GhostTypes'
  BY <1>1, <1>0, Actives, TaskNames DEF StartCheck, GhostTypes
<1>2. ASSUME NEW r \in Calls, Answered(r) PROVE GhostTypes'
  BY <1>2, <1>0, Actives DEF Answered, GhostTypes
<1>3. ASSUME NEW r \in Calls, Recover(r) PROVE GhostTypes'
  BY <1>3, <1>0, Actives, TaskNames DEF Recover, GhostTypes
<1>4. ASSUME NEW r \in Calls, Completes(r) PROVE GhostTypes'
  BY <1>4, <1>0, Actives DEF Completes, GhostTypes
<1>5. ASSUME NEW t \in Tasks, NoticeWrite(t) PROVE GhostTypes'
  <2>1. gen[t] \in Gens
    BY <1>5, Bound DEF NoticeWrite, Move, Sending
  <2> QED BY <1>5, <2>1, BreaksTypes DEF NoticeWrite, GhostTypes
<1>6. ASSUME NEW t \in Tasks, Take(t) PROVE GhostTypes'
  BY <1>6, <1>0, Actives DEF Take, GhostTypes
<1>7. ASSUME NEW t \in Tasks, Terminate(t) PROVE GhostTypes'
  <2>1. gen[t] \in 1..gens
    BY <1>7, Bound DEF Terminate, Move, Closers
  <2>2. \/ UNCHANGED worldVars /\ UNCHANGED ghosts
        \/ Ends(Behind(gen[t]))
    BY <1>7 DEF Terminate
  <2>3. CASE UNCHANGED worldVars /\ UNCHANGED ghosts
    BY <1>0, <2>3, <1>7 DEF Terminate, rest, GhostTypes
  <2>4. CASE Ends(Behind(gen[t]))
    BY <1>0, <2>1, <2>4, <1>7, GensGiven, BehindKnown, EndsTypes DEF Terminate, rest, GhostTypes
  <2> QED BY <2>2, <2>3, <2>4
<1>8. ASSUME NEW t \in Tasks, Join(t) PROVE GhostTypes'
  <2>1. gen[t] \in Gens
    BY <1>8, Bound DEF Join, Closers
  <2> QED BY <1>8, <2>1, BreaksTypes DEF Join, GhostTypes
<1>9. ASSUME NEW t \in Tasks, StopDaemon(t) PROVE GhostTypes'
  <2>1. ClientOf(t) \in Instances
    BY <1>9, Owners DEF StopDaemon, Move
  <2>2. \/ UNCHANGED worldVars /\ UNCHANGED ghosts
        \/ Ends(Handoff(ClientOf(t)))
    BY <1>9 DEF StopDaemon
  <2>3. CASE UNCHANGED worldVars /\ UNCHANGED ghosts
    BY <1>0, <2>3, <1>9 DEF StopDaemon, rest, GhostTypes
  <2>4. CASE Ends(Handoff(ClientOf(t)))
    BY <1>0, <2>1, <2>4, <1>9, BehindKnown, EndsTypes DEF StopDaemon, rest, GhostTypes
  <2> QED BY <2>2, <2>3, <2>4
<1>10. ASSUME NEW i \in Instances, Kill(i) PROVE GhostTypes'
  BY <1>10, <1>0, Actives DEF Kill, GhostTypes
<1>11. ASSUME NEW g \in 1..gens, Notice(g) PROVE GhostTypes'
  BY <1>11, <1>0, Actives, GensGiven, BreaksTypes DEF Notice, GhostTypes
<1>12. ASSUME NEW g \in 1..gens, ShutsDown(g) PROVE GhostTypes'
  <2>1. \E to \in {"done", "drain"} : Breaks(g, to)
    BY <1>12 DEF ShutsDown
  <2> QED BY <2>1, GensGiven, BreaksTypes DEF GhostTypes
<1>13. ASSUME NEW g \in 1..gens, Drained(g) PROVE GhostTypes'
  BY <1>13, <1>0, Actives, Completes1 DEF Drained, GhostTypes
<1>14. ASSUME NEW g \in 1..gens, ReadLine(g) PROVE GhostTypes'
  <2>1. g \in Gens /\ lines[g] # <<>>
    BY <1>14, GensGiven DEF ReadLine
  <2> QED BY <1>0, <2>1, <1>14, Lines0 DEF ReadLine, GhostTypes
<1>15. ASSUME NEW g \in 1..gens, Exits(g) PROVE GhostTypes'
  <2>1. Ends(Behind(g))
    BY <1>15 DEF Exits
  <2> QED BY <1>0, <2>1, <1>15, GensGiven, BehindKnown, EndsTypes DEF Exits, GhostTypes
<1>16. ASSUME UNCHANGED <<ghosts>> PROVE GhostTypes'
  BY <1>0, <1>16 DEF GhostTypes
<1>17. ASSUME NEW r \in Calls,
       Replaced(r) \/ Enter(r) \/ Started(r) \/ Spawn(r) \/ SpawnFails(r) \/ Initialized(r)
      PROVE GhostTypes'
  BY <1>17, <1>16 DEF Replaced, history, Enter, Started, Spawn, Offers, SpawnFails,
                      Initialized
<1>18. ASSUME NEW r \in Calls, NEW i \in Instances,
       Get(r, i)
      PROVE GhostTypes'
  BY <1>18, <1>16 DEF Get, history
<1>19. ASSUME NEW t \in Tasks,
       ReadGeneration(t) \/ Send(t) \/ WriteFails(t) \/ Timeout(t) \/ FailPending(t)
      PROVE GhostTypes'
  BY <1>19, <1>16 DEF ReadGeneration, history, Send, WriteFails, Timeout, FailPending
<1>20. ASSUME NEW i \in Instances,
       EvictChecks(i) \/ RetireLocks(i)
      PROVE GhostTypes'
  BY <1>20, <1>16 DEF EvictChecks, RetireLocks
<1>21. ASSUME NEW g \in 1..gens,
       FailFirst(g) \/ Finalize(g) \/ Drops(g)
      PROVE GhostTypes'
  BY <1>21, <1>16 DEF FailFirst, history, Finalize, Drops
<1>22. ASSUME NEW g \in 1..gens, NEW t \in Tasks,
       Accept(g, t)
      PROVE GhostTypes'
  BY <1>22, <1>16 DEF Accept, history
<1> QED BY <1>1, <1>2, <1>3, <1>4, <1>5, <1>6, <1>7, <1>8, <1>9, <1>10, <1>11, <1>12, <1>13,
           <1>14, <1>15, <1>16, <1>17, <1>18, <1>19, <1>20, <1>21, <1>22 DEF Next, vars

\* The types of the histories are kept.
LEMMA PastTypesStep ==
  ASSUME Inv1, [Next]_vars
  PROVE  PastTypes'
<1>0. PastTypes
  BY DEF Inv1, Types
<1>1. ASSUME NEW r \in Calls, StartCheck(r) PROVE PastTypes'
  BY <1>1, <1>0, BoundsAssumption DEF StartCheck, rest, PastTypes
<1>2. ASSUME NEW t \in Tasks, Send(t) PROVE PastTypes'
  BY <1>2, <1>0, BoundsAssumption DEF Send, rest, PastTypes
<1>3. ASSUME NEW i \in Instances, Kill(i) PROVE PastTypes'
  BY <1>3, <1>0, BoundsAssumption DEF Kill, PastTypes
<1>4. ASSUME NEW i \in Instances, EvictChecks(i) PROVE PastTypes'
  BY <1>4, <1>0, BoundsAssumption, RunningCalls DEF EvictChecks, PastTypes
<1>5. ASSUME NEW g \in 1..gens, ReadLine(g) PROVE PastTypes'
  <2>1. g \in Gens /\ lines[g] # <<>>
    BY <1>5, GensGiven DEF ReadLine
  <2>2. UNCHANGED <<late, cut, faults>>
    BY <1>5 DEF ReadLine, rest
  <2> QED BY <1>0, <2>1, <2>2, <1>5, Lines0 DEF ReadLine, PastTypes
<1>6. ASSUME NEW g \in 1..gens, Exits(g) PROVE PastTypes'
  BY <1>6, <1>0, BoundsAssumption DEF Exits, PastTypes
<1>7. ASSUME NEW g \in 1..gens, Drops(g) PROVE PastTypes'
  BY <1>7, <1>0, BoundsAssumption DEF Drops, history, PastTypes
<1>8. ASSUME UNCHANGED <<late, told, cut, faults>> PROVE PastTypes'
  BY <1>0, <1>8 DEF PastTypes
<1>9. ASSUME NEW r \in Calls,
       Replaced(r) \/ Enter(r) \/ Started(r) \/ Spawn(r) \/ SpawnFails(r) \/ Initialized(r)
       \/ Answered(r) \/ Recover(r) \/ Completes(r)
      PROVE PastTypes'
  BY <1>9, <1>8 DEF Replaced, history, Enter, rest, Started, Spawn, Offers, SpawnFails,
                    Initialized, Answered, Recover, Completes
<1>10. ASSUME NEW r \in Calls, NEW i \in Instances,
       Get(r, i)
      PROVE PastTypes'
  BY <1>10, <1>8 DEF Get, history
<1>11. ASSUME NEW t \in Tasks,
       ReadGeneration(t) \/ WriteFails(t) \/ NoticeWrite(t) \/ Timeout(t) \/ Take(t) \/
       FailPending(t) \/ Terminate(t) \/ Join(t) \/ StopDaemon(t)
      PROVE PastTypes'
  BY <1>11, <1>8 DEF ReadGeneration, history, rest, WriteFails, NoticeWrite, Timeout, Take,
                     FailPending, Terminate, Join, StopDaemon
<1>12. ASSUME NEW i \in Instances,
       RetireLocks(i)
      PROVE PastTypes'
  BY <1>12, <1>8 DEF RetireLocks
<1>13. ASSUME NEW g \in 1..gens,
       Notice(g) \/ ShutsDown(g) \/ FailFirst(g) \/ Finalize(g) \/ Drained(g)
      PROVE PastTypes'
  BY <1>13, <1>8 DEF Notice, rest, ShutsDown, FailFirst, history, Finalize, Drained
<1>14. ASSUME NEW g \in 1..gens, NEW t \in Tasks,
       Accept(g, t)
      PROVE PastTypes'
  BY <1>14, <1>8 DEF Accept, history, rest
<1> QED BY <1>1, <1>2, <1>3, <1>4, <1>5, <1>6, <1>7, <1>8, <1>9, <1>10, <1>11, <1>12, <1>13,
           <1>14 DEF Next, vars

-----------------------------------------------------------------------------
(* The types of what is on the way.                                         *)

\* What has been said, once a line is read, or more is said.
LEMMA LinesRead ==
  ASSUME NEW S, NEW s \in Seq(S), s # <<>>
  PROVE  ToSet(Tail(s)) \subseteq ToSet(s) /\ Head(s) \in ToSet(s)
  BY DEF ToSet

\* What has been said, once more is said.
LEMMA LinesSaid ==
  ASSUME NEW S, NEW s \in Seq(S), NEW u \in Seq(S)
  PROVE  ToSet(s \o u) = ToSet(s) \cup ToSet(u) /\ s \o u \in Seq(S)
<1>1. s \o u \in Seq(S) /\ Len(s \o u) = Len(s) + Len(u)
  OBVIOUS
<1>2. ToSet(s \o u) \subseteq ToSet(s) \cup ToSet(u)
  BY <1>1 DEF ToSet
<1>3. ASSUME NEW x \in ToSet(s) PROVE x \in ToSet(s \o u)
  <2>1. PICK j \in 1..Len(s) : x = s[j]
    BY <1>3 DEF ToSet
  <2> QED BY <1>1, <2>1 DEF ToSet
<1>4. ASSUME NEW x \in ToSet(u) PROVE x \in ToSet(s \o u)
  <2>1. PICK j \in 1..Len(u) : x = u[j]
    BY <1>4 DEF ToSet
  <2>2. (s \o u)[Len(s) + j] = x /\ Len(s) + j \in 1..Len(s \o u)
    BY <1>1, <2>1
  <2> QED BY <1>1, <2>2 DEF ToSet
<1> QED BY <1>1, <1>2, <1>3, <1>4

\* Nothing said.
LEMMA NoLines == ToSet(<<>>) = {}
  BY DEF ToSet

\* One line.
LEMMA OneLine ==
  ASSUME NEW S, NEW a \in S
  PROVE  <<a>> \in Seq(S) /\ ToSet(<<a>>) = {a}
<1>1. ToSet(<<a>>) = {a}
  BY DEF ToSet
<1> QED BY <1>1

\* Two lines.
LEMMA TwoLines ==
  ASSUME NEW S, NEW a \in S, NEW b \in S
  PROVE  <<a, b>> \in Seq(S) /\ ToSet(<<a, b>>) = {a, b}
<1>1. ToSet(<<a, b>>) = {a, b}
  BY DEF ToSet
<1> QED BY <1>1

\* A connection that breaks leaves no line or every line; reading leaves fewer.
LEMMA BreaksLines ==
  ASSUME Inv1, NEW g \in Gens, NEW to, Breaks(g, to)
  PROVE  \A h \in Gens : lines'[h] = lines[h] \/ lines'[h] = <<>>
<1>1. lines \in [Gens -> Seq(Lines)]
  BY DEF Inv1, Types, FlowTypes
<1> QED BY <1>1 DEF Breaks

\* While nothing is said, the lines that are not answers are for calls.
LEMMA FewerLines ==
  ASSUME LineInv, \A h \in Gens : ToSet(lines'[h]) \subseteq ToSet(lines[h])
  PROVE  LineInv'
  BY DEF LineInv

\* A line, its kind and whom it is for.
LEMMA LineTypes ==
  ASSUME NEW t \in Tasks
  PROVE  /\ Line("answer", t) \in Lines /\ Line("answer", t).kind = "answer"
         /\ Line("started", t) \in Lines /\ Line("completed", t) \in Lines
         /\ \A k : Line(k, t).to = t /\ Line(k, t).kind = k
  BY DEF Line, Lines

\* What is connected is a generation.
LEMMA UpGens == ASSUME Inv1 PROVE up \subseteq Gens
  BY DEF Inv1, Types, LinkTypes

\* The types of what is on the way are kept.
LEMMA FlowTypesStep ==
  ASSUME Inv1, [Next]_vars
  PROVE  FlowTypes'
<1>0. FlowTypes
  BY DEF Inv1, Types
<1>1. ASSUME NEW r \in Calls, Completes(r) PROVE FlowTypes'
  <2>1. UNCHANGED inbox /\ running' \subseteq running
    BY <1>1 DEF Completes
  <2>2. UNCHANGED lines \/ \E h \in Gens : Says(h, <<Line("completed", Call(r))>>)
    BY <1>1, UpGens DEF Completes
  <2>3. Line("completed", Call(r)) \in Lines
    BY TaskNames, LineTypes
  <2>4. \A h \in Gens : lines[h] \o <<Line("completed", Call(r))>> \in Seq(Lines)
    BY <1>0, <2>3 DEF FlowTypes
  <2>5. lines' \in [Gens -> Seq(Lines)]
    BY <1>0, <2>2, <2>4 DEF Says, FlowTypes
  <2> QED BY <1>0, <2>1, <2>5 DEF FlowTypes
<1>2. ASSUME NEW t \in Tasks, Send(t) PROVE FlowTypes'
  BY <1>2, <1>0 DEF Send, FlowTypes
<1>3. ASSUME NEW t \in Tasks, NoticeWrite(t) PROVE FlowTypes'
  <2>1. gen[t] \in Gens
    BY <1>3, Bound DEF NoticeWrite, Move, Sending
  <2>2. \E to : Breaks(gen[t], to)
    BY <1>3 DEF NoticeWrite
  <2>3. UNCHANGED <<inbox, running>>
    BY <1>3 DEF NoticeWrite, worldVars
  <2> QED BY <1>0, <2>1, <2>2, <2>3, BreaksTypes DEF FlowTypes
<1>4. ASSUME NEW t \in Tasks, Terminate(t) PROVE FlowTypes'
  <2>1. gen[t] \in 1..gens
    BY <1>4, Bound DEF Terminate, Move, Closers
  <2>2. \/ UNCHANGED worldVars /\ UNCHANGED ghosts
        \/ Ends(Behind(gen[t]))
    BY <1>4 DEF Terminate
  <2>3. CASE UNCHANGED worldVars /\ UNCHANGED ghosts
    BY <1>0, <2>3, <1>4 DEF Terminate, worldVars, FlowTypes
  <2>4. CASE Ends(Behind(gen[t]))
    BY <1>0, <2>1, <2>4, <1>4, GensGiven, BehindKnown, EndsTypes DEF Terminate, worldVars, FlowTypes
  <2> QED BY <2>2, <2>3, <2>4
<1>5. ASSUME NEW t \in Tasks, Join(t) PROVE FlowTypes'
  <2>1. gen[t] \in Gens
    BY <1>5, Bound DEF Join, Closers
  <2>2. \E to : Breaks(gen[t], to)
    BY <1>5 DEF Join
  <2>3. UNCHANGED <<inbox, running>>
    BY <1>5 DEF Join, worldVars
  <2> QED BY <1>0, <2>1, <2>2, <2>3, BreaksTypes DEF FlowTypes
<1>6. ASSUME NEW t \in Tasks, StopDaemon(t) PROVE FlowTypes'
  <2>1. ClientOf(t) \in Instances
    BY <1>6, Owners DEF StopDaemon, Move
  <2>2. \/ UNCHANGED worldVars /\ UNCHANGED ghosts
        \/ Ends(Handoff(ClientOf(t)))
    BY <1>6 DEF StopDaemon
  <2>3. CASE UNCHANGED worldVars /\ UNCHANGED ghosts
    BY <1>0, <2>3, <1>6 DEF StopDaemon, worldVars, FlowTypes
  <2>4. CASE Ends(Handoff(ClientOf(t)))
    BY <1>0, <2>1, <2>4, <1>6, BehindKnown, EndsTypes DEF StopDaemon, worldVars, FlowTypes
  <2> QED BY <2>2, <2>3, <2>4
<1>7. ASSUME NEW g \in 1..gens, Notice(g) PROVE FlowTypes'
  <2>1. g \in Gens
    BY <1>7, GensGiven
  <2>2. \E to : Breaks(g, to)
    BY <1>7 DEF Notice
  <2>3. UNCHANGED <<inbox, running>>
    BY <1>7 DEF Notice, worldVars
  <2> QED BY <1>0, <2>1, <2>2, <2>3, BreaksTypes DEF FlowTypes
<1>8. ASSUME NEW g \in 1..gens, ShutsDown(g) PROVE FlowTypes'
  <2>1. g \in Gens
    BY <1>8, GensGiven
  <2>2. \E to : Breaks(g, to)
    BY <1>8 DEF ShutsDown
  <2>3. UNCHANGED <<inbox, running>>
    BY <1>8 DEF ShutsDown, worldVars
  <2> QED BY <1>0, <2>1, <2>2, <2>3, BreaksTypes DEF FlowTypes
<1>9. ASSUME NEW g \in 1..gens, Drained(g) PROVE FlowTypes'
  <2>1. UNCHANGED <<inbox, running>> /\ lines' = [lines EXCEPT ![g] = <<>>] /\ <<>> \in Seq(Lines)
    BY <1>9 DEF Drained, worldVars
  <2> QED BY <1>0, <2>1 DEF FlowTypes
<1>10. ASSUME NEW g \in 1..gens, ReadLine(g) PROVE FlowTypes'
  <2>1. g \in Gens /\ lines[g] # <<>>
    BY <1>10, GensGiven DEF ReadLine
  <2>2. lines' = [lines EXCEPT ![g] = Tail(lines[g])] /\ UNCHANGED <<inbox, running>>
    BY <1>10 DEF ReadLine, worldVars
  <2> QED BY <1>0, <2>1, <2>2, Lines0 DEF FlowTypes
<1>11. ASSUME NEW g \in 1..gens, Exits(g) PROVE FlowTypes'
  <2>1. Ends(Behind(g))
    BY <1>11 DEF Exits
  <2> QED BY <1>0, <2>1, <1>11, GensGiven, BehindKnown, EndsTypes DEF Exits, FlowTypes
<1>12. ASSUME NEW g \in 1..gens, NEW t \in Tasks, Accept(g, t) PROVE FlowTypes'
  <2>1. g \in Gens /\ inbox' = [inbox EXCEPT ![g] = inbox[g] \ {t}]
          /\ running' \subseteq running \cup {t[2]}
    BY <1>12, GensGiven DEF Accept
  <2>2. running' # running => t[2] \in Calls
    BY <1>12, TaskNames DEF Accept
  <2>3. PICK ls : Says(g, ls) /\ (ls = <<Line("answer", t), Line("started", t)>>
          \/ ls = <<Line("answer", t)>>)
    BY <1>12 DEF Accept
  <2>4. ls \in Seq(Lines) /\ lines[g] \o ls \in Seq(Lines)
    <3>1. ls \in Seq(Lines)
      <4>1. Line("answer", t) \in Lines /\ Line("started", t) \in Lines
        BY LineTypes
      <4>2. CASE ls = <<Line("answer", t)>>
        BY <4>1, <4>2, OneLine
      <4>3. CASE ls = <<Line("answer", t), Line("started", t)>>
        BY <4>1, <4>3, TwoLines
      <4> QED BY <2>3, <4>2, <4>3
    <3> QED BY <1>0, <2>1, <3>1 DEF FlowTypes
  <2>5. lines' \in [Gens -> Seq(Lines)]
    BY <1>0, <2>3, <2>4 DEF Says, FlowTypes
  <2>6. inbox' \in [Gens -> SUBSET Tasks]
    BY <1>0, <2>1 DEF FlowTypes
  <2> QED BY <1>0, <2>1, <2>2, <2>5, <2>6 DEF FlowTypes
<1>13. ASSUME UNCHANGED <<inbox, lines, running>> PROVE FlowTypes'
  BY <1>0, <1>13 DEF FlowTypes
<1>14. ASSUME NEW r \in Calls,
       Replaced(r) \/ Enter(r) \/ Started(r) \/ StartCheck(r) \/ Spawn(r) \/ SpawnFails(r) \/
       Initialized(r) \/ Answered(r) \/ Recover(r)
      PROVE FlowTypes'
  BY <1>14, <1>13 DEF Replaced, worldVars, Enter, Started, StartCheck, Spawn, Offers,
                      SpawnFails, Initialized, Answered, Recover
<1>15. ASSUME NEW r \in Calls, NEW i \in Instances,
       Get(r, i)
      PROVE FlowTypes'
  BY <1>15, <1>13 DEF Get, worldVars
<1>16. ASSUME NEW t \in Tasks,
       ReadGeneration(t) \/ WriteFails(t) \/ Timeout(t) \/ Take(t) \/ FailPending(t)
      PROVE FlowTypes'
  BY <1>16, <1>13 DEF ReadGeneration, worldVars, WriteFails, Timeout, Take, FailPending
<1>17. ASSUME NEW i \in Instances,
       Kill(i) \/ EvictChecks(i) \/ RetireLocks(i)
      PROVE FlowTypes'
  BY <1>17, <1>13 DEF Kill, worldVars, EvictChecks, RetireLocks
<1>18. ASSUME NEW g \in 1..gens,
       FailFirst(g) \/ Finalize(g) \/ Drops(g)
      PROVE FlowTypes'
  BY <1>18, <1>13 DEF FailFirst, worldVars, Finalize, Drops
<1> QED BY <1>1, <1>2, <1>3, <1>4, <1>5, <1>6, <1>7, <1>8, <1>9, <1>10, <1>11, <1>12, <1>13,
           <1>14, <1>15, <1>16, <1>17, <1>18 DEF Next, vars

\* Only calls are told of turns.
LEMMA LineInvStep ==
  ASSUME Inv1, [Next]_vars
  PROVE  LineInv'
<1>0. LineInv /\ lines \in [Gens -> Seq(Lines)]
  BY DEF Inv1, Types, FlowTypes
<1>1. ASSUME NEW r \in Calls, Completes(r) PROVE LineInv'
  <2>1. UNCHANGED lines \/ \E h \in Gens : Says(h, <<Line("completed", Call(r))>>)
    BY <1>1, UpGens DEF Completes
  <2>2. CASE UNCHANGED lines
    BY <1>0, <2>2 DEF LineInv
  <2>3. ASSUME NEW h \in Gens, Says(h, <<Line("completed", Call(r))>>) PROVE LineInv'
    <3> DEFINE ls == <<Line("completed", Call(r))>>
    <3>0. Line("completed", Call(r)) \in Lines /\ Line("completed", Call(r)).to[1] = "call"
      BY TaskNames, LineTypes
    <3>1. ls \in Seq(Lines) /\ \A l \in ToSet(ls) : l.to[1] = "call"
      BY <3>0, OneLine
    <3>2. ToSet(lines[h] \o ls) = ToSet(lines[h]) \cup ToSet(ls)
      <4>1. lines[h] \in Seq(Lines)
        BY <1>0
      <4> HIDE DEF ls
      <4> QED BY <3>1, <4>1, LinesSaid
    <3>3. \A x \in Gens : lines'[x] = lines[x] \/ (x = h /\ lines'[x] = lines[h] \o ls)
      BY <1>0, <2>3 DEF Says
    <3> HIDE DEF ls
    <3> QED BY <1>0, <3>1, <3>2, <3>3 DEF LineInv
  <2> QED BY <2>1, <2>2, <2>3
<1>2. ASSUME NEW t \in Tasks, NoticeWrite(t) PROVE LineInv'
  <2>1. gen[t] \in Gens
    BY <1>2, Bound DEF NoticeWrite, Move, Sending
  <2>2. \E to : Breaks(gen[t], to)
    BY <1>2 DEF NoticeWrite
  <2> QED BY <2>1, <2>2, BreaksLines, NoLines, FewerLines DEF Inv1
<1>3. ASSUME NEW t \in Tasks, Join(t) PROVE LineInv'
  <2>1. gen[t] \in Gens
    BY <1>3, Bound DEF Join, Closers
  <2>2. \E to : Breaks(gen[t], to)
    BY <1>3 DEF Join
  <2> QED BY <2>1, <2>2, BreaksLines, NoLines, FewerLines DEF Inv1
<1>4. ASSUME NEW g \in 1..gens, Notice(g) PROVE LineInv'
  <2>1. g \in Gens
    BY <1>4, GensGiven
  <2>2. \E to : Breaks(g, to)
    BY <1>4 DEF Notice
  <2> QED BY <2>1, <2>2, BreaksLines, NoLines, FewerLines DEF Inv1
<1>5. ASSUME NEW g \in 1..gens, ShutsDown(g) PROVE LineInv'
  <2>1. g \in Gens
    BY <1>5, GensGiven
  <2>2. \E to : Breaks(g, to)
    BY <1>5 DEF ShutsDown
  <2> QED BY <2>1, <2>2, BreaksLines, NoLines, FewerLines DEF Inv1
<1>6. ASSUME NEW g \in 1..gens, Drained(g) PROVE LineInv'
  <2> QED BY <1>0, <1>6, NoLines, FewerLines DEF Drained
<1>7. ASSUME NEW g \in 1..gens, ReadLine(g) PROVE LineInv'
  <2>1. lines[g] # <<>> /\ lines' = [lines EXCEPT ![g] = Tail(lines[g])]
    BY <1>7 DEF ReadLine
  <2> QED BY <1>0, <2>1, LinesRead, FewerLines
<1>8. ASSUME NEW g \in 1..gens, NEW t \in Tasks, Accept(g, t) PROVE LineInv'
  <2>1. g \in Gens
    BY GensGiven
  <2>2. PICK ls : /\ Says(g, ls)
                  /\ \/ t[1] = "call" /\ ls = <<Line("answer", t), Line("started", t)>>
                     \/ ls = <<Line("answer", t)>>
    BY <1>8 DEF Accept
  <2>3. ls \in Seq(Lines) /\ \A l \in ToSet(ls) : l.kind # "answer" => l.to[1] = "call"
    <3>1. CASE ls = <<Line("answer", t)>>
      BY <3>1, LineTypes, OneLine
    <3>2. CASE t[1] = "call" /\ ls = <<Line("answer", t), Line("started", t)>>
      BY <3>2, LineTypes, TwoLines
    <3> QED BY <2>2, <3>1, <3>2
  <2>4. ToSet(lines[g] \o ls) = ToSet(lines[g]) \cup ToSet(ls)
    BY <1>0, <2>1, <2>3, LinesSaid
  <2> QED BY <1>0, <2>1, <2>2, <2>3, <2>4 DEF Says, LineInv
<1>9. ASSUME UNCHANGED <<lines>> PROVE LineInv'
  BY <1>0, <1>9 DEF LineInv
<1>10. ASSUME NEW r \in Calls,
       Replaced(r) \/ Enter(r) \/ Started(r) \/ StartCheck(r) \/ Spawn(r) \/ SpawnFails(r) \/
       Initialized(r) \/ Answered(r) \/ Recover(r)
      PROVE LineInv'
  BY <1>10, <1>9 DEF Replaced, Enter, Started, StartCheck, Spawn, Offers, SpawnFails,
                     Initialized, Answered, Recover
<1>11. ASSUME NEW r \in Calls, NEW i \in Instances,
       Get(r, i)
      PROVE LineInv'
  BY <1>11, <1>9 DEF Get
<1>12. ASSUME NEW t \in Tasks,
       ReadGeneration(t) \/ Send(t) \/ WriteFails(t) \/ Timeout(t) \/ Take(t) \/
       FailPending(t) \/ Terminate(t) \/ StopDaemon(t)
      PROVE LineInv'
  BY <1>12, <1>9 DEF ReadGeneration, Send, WriteFails, Timeout, Take, FailPending, Terminate,
                     StopDaemon
<1>13. ASSUME NEW i \in Instances,
       Kill(i) \/ EvictChecks(i) \/ RetireLocks(i)
      PROVE LineInv'
  BY <1>13, <1>9 DEF Kill, EvictChecks, RetireLocks
<1>14. ASSUME NEW g \in 1..gens,
       FailFirst(g) \/ Finalize(g) \/ Exits(g) \/ Drops(g)
      PROVE LineInv'
  BY <1>14, <1>9 DEF FailFirst, Finalize, Exits, Drops
<1> QED BY <1>1, <1>2, <1>3, <1>4, <1>5, <1>6, <1>7, <1>8, <1>9, <1>10, <1>11, <1>12, <1>13,
           <1>14 DEF Next, vars

-----------------------------------------------------------------------------
(* Where tasks are.                                                         *)

\* A move of tasks keeps them where they may be.
Moved(t) ==
  /\ pc'[t] \in Places[t]
  /\ t[1] = "call" => /\ pc[t] # "idle" /\ pc'[t] \notin Early
                      /\ pc'[t] \in {"starts", "over"} \/ pc[Start(t[2])] = "ok"
  /\ t[1] = "start" => pc[t] \notin {"ok", "idle"}

\* Tasks that stay, or move as their sort does, are where they can be.
LEMMA PlacesKept ==
  ASSUME Inv1, UNCHANGED client, \A t \in Tasks : pc'[t] = pc[t] \/ Moved(t)
  PROVE  PlaceInv'
<1>1. \A t \in Tasks : pc'[t] \in Places[t]
  BY DEF Moved, Inv1, PlaceInv
<1>2. ASSUME NEW r \in Calls
      PROVE  /\ pc'[Call(r)] # "idle" => client[r] \in Instances
             /\ pc'[Start(r)] # "idle" => pc'[Call(r)] \notin Early
             /\ pc'[Call(r)] \notin Early \cup {"starts", "over"} => pc'[Start(r)] = "ok"
  <2>1. /\ pc[Call(r)] # "idle" => client[r] \in Instances
        /\ pc[Start(r)] # "idle" => pc[Call(r)] \notin Early
        /\ pc[Call(r)] \notin Early \cup {"starts", "over"} => pc[Start(r)] = "ok"
    BY DEF Inv1, PlaceInv
  <2>2. \/ pc'[Call(r)] = pc[Call(r)]
        \/ /\ pc[Call(r)] # "idle" /\ pc'[Call(r)] \notin Early
           /\ (pc'[Call(r)] \in {"starts", "over"} \/ pc[Start(r)] = "ok")
    BY TaskNames DEF Moved
  <2>3. pc'[Start(r)] = pc[Start(r)] \/ pc[Start(r)] \notin {"ok", "idle"}
    BY TaskNames DEF Moved
  <2>4. pc[Start(r)] = "ok" => pc'[Start(r)] = "ok" /\ pc[Call(r)] # "idle"
    BY <2>1, <2>3 DEF Early
  <2> QED BY <2>1, <2>2, <2>3, <2>4 DEF Early
<1> QED BY <1>1, <1>2 DEF PlaceInv

\* Where the tasks are of which kind.
LEMMA Kinded ==
  ASSUME Inv1, NEW t \in Tasks
  PROVE  /\ pc[t] \in Places[t]
         /\ pc[t] \in {"reads", "sends", "waits", "writes", "answered"}
            => t[1] \in {"call", "start"}
         /\ pc[t] \in {"recovers"} => t[1] = "call"
         /\ pc[t] \in {"takes"} => t[1] \in {"start", "evict", "retire"}
         /\ pc[t] \in {"stops"} => t[1] \in {"call", "retire"}
         /\ pc[t] \in {"clears", "awaits"} => t[1] = "start"
         /\ t[1] = "call" /\ pc[t] \notin Early \cup {"starts", "over"} => pc[Start(t[2])] = "ok"
         /\ t[1] = "call" => pc[t] \notin {"takes", "clears", "awaits"}
<1>1. pc[t] \in Places[t]
  BY DEF Inv1, PlaceInv
<1>2. t[1] = "call" /\ pc[t] \notin Early \cup {"starts", "over"} => pc[Start(t[2])] = "ok"
  BY TaskNames DEF Inv1, PlaceInv, Call
<1> QED BY <1>1, <1>2, PlacesOf, TaskNames
           DEF CallPlaces, StartPlaces, EvictPlaces, KillPlaces, RetirePlaces

\* A request that fails moves its task.
LEMMA AfterPlaces ==
  ASSUME NEW t \in Tasks
  PROVE  After(t) = CASE t[1] = "call" -> "stops" [] t[1] = "start" -> "err"
                      [] t[1] = "retire" -> "stops" [] OTHER -> "idle"
  BY DEF After

\* A failed request moves its task.
LEMMA FailingMoves ==
  ASSUME Inv1, NEW g, NEW t \in Tasks, pc'[t] = Failing(g)[t]
  PROVE  pc'[t] = pc[t] \/ Moved(t)
<1>1. CASE pc[t] # "waits"
  BY <1>1, FailingTypes DEF Inv1, Types
<1>2. CASE pc[t] = "waits"
  <2>1. pc'[t] = pc[t] \/ pc'[t] = IF t[1] = "start" THEN "takes" ELSE "over"
    BY <1>2, FailingTypes, Outcomes DEF Inv1, Types
  <2> QED BY <1>2, <2>1, Kinded, PlacesOf DEF Moved, CallPlaces, StartPlaces, Early
<1> QED BY <1>1, <1>2

\* Every task is where its sort can be, and a call is past its start only when that is over.
LEMMA PlaceInvStep ==
  ASSUME Inv1, [Next]_vars
  PROVE  PlaceInv'
<1>1. ASSUME NEW r \in Calls, Replaced(r) PROVE PlaceInv'
  <2>1. client' = [client EXCEPT ![r] = None] /\ pc' = [pc EXCEPT ![Call(r)] = "idle"]
        /\ pc[Call(r)] = "replaces"
    BY <1>1 DEF Replaced
  <2>2. \A x \in Tasks : pc'[x] = IF x = Call(r) THEN "idle" ELSE pc[x]
    BY <2>1, TaskNames DEF Inv1, Types, TaskTypes
  <2>3. \A s \in Calls : s # r => client'[s] = client[s] /\ pc'[Call(s)] = pc[Call(s)]
    BY <2>1, <2>2, TaskNames DEF Inv1, Types, TaskTypes
  <2>4. \A s \in Calls : pc'[Start(s)] = pc[Start(s)]
    BY <2>2, TaskNames
  <2>5. pc[Start(r)] = "idle" /\ pc'[Call(r)] = "idle"
    BY <2>1, <2>2, TaskNames DEF Inv1, PlaceInv, Early
  <2>6. \A t \in Tasks : pc'[t] \in Places[t]
    BY <2>2, TaskNames, PlacesOf, Kinded DEF CallPlaces
  <2> QED BY <2>3, <2>4, <2>5, <2>6 DEF Inv1, PlaceInv, Early
<1>2. ASSUME NEW r \in Calls, Enter(r) PROVE PlaceInv'
  <2>1. UNCHANGED client /\ pc[Call(r)] = "got"
    BY <1>2 DEF Enter, rest, callVars
  <2>2. CASE pc' = [pc EXCEPT ![Call(r)] = "over"]
    <3>1. \A x \in Tasks : pc'[x] = IF x = Call(r) THEN "over" ELSE pc[x]
      BY <2>2, TaskNames DEF Inv1, Types, TaskTypes
    <3>2. Moved(Call(r))
      BY <2>1, <3>1, TaskNames, PlacesOf DEF Moved, CallPlaces, Early
    <3> QED BY <2>1, <3>1, <3>2, PlacesKept
  <2>3. CASE pc' = [pc EXCEPT ![Call(r)] = "starts", ![Start(r)] = "locks"]
    <3>1. \A x \in Tasks : pc'[x] = IF x = Start(r) THEN "locks" ELSE IF x = Call(r)
            THEN "starts" ELSE pc[x]
      BY <2>3, TaskNames DEF Inv1, Types, TaskTypes
    <3>2. \A x \in Tasks : pc'[x] \in Places[x]
      BY <3>1, TaskNames, PlacesOf, Kinded DEF CallPlaces, StartPlaces
    <3>3. \A s \in Calls : s # r => pc'[Call(s)] = pc[Call(s)] /\ pc'[Start(s)] = pc[Start(s)]
      BY <3>1, TaskNames
    <3>4. pc'[Call(r)] = "starts" /\ pc'[Start(r)] = "locks"
      BY <3>1, TaskNames
    <3> QED BY <2>1, <3>2, <3>3, <3>4 DEF Inv1, PlaceInv, Early
  <2> QED BY <1>2, <2>2, <2>3 DEF Enter
<1>3. ASSUME NEW r \in Calls, Started(r) PROVE PlaceInv'
  <2>1. UNCHANGED client
    BY <1>3 DEF Started, rest, callVars
  <2>2. \A x \in Tasks : pc'[x] = pc[x] \/ Moved(x)
    <3>1. \A x \in Tasks : x # Call(r) => pc'[x] = pc[x]
      BY <1>3, TaskNames DEF Started, Inv1, Types, TaskTypes
    <3>2. pc'[Call(r)] = pc[Call(r)] \/ Moved(Call(r))
      BY <1>3, TaskNames, PlacesOf, Kinded
         DEF Started, Moved, Early, CallPlaces, StartPlaces, EvictPlaces, KillPlaces,
         RetirePlaces, Inv1, Types, TaskTypes
    <3> QED BY <3>1, <3>2
  <2> QED BY <2>1, <2>2, PlacesKept
<1>4. ASSUME NEW r \in Calls, StartCheck(r) PROVE PlaceInv'
  <2>1. UNCHANGED client /\ pc[Start(r)] \in {"locks"}
    BY <1>4 DEF StartCheck, rest, callVars
  <2>2. PICK w \in {"err", "ok", "clears", "spawns"} : pc' = [pc EXCEPT ![Start(r)] = w]
    BY <1>4 DEF StartCheck
  <2>3. \A x \in Tasks : pc'[x] = IF x = Start(r) THEN w ELSE pc[x]
    BY <2>2, TaskNames DEF Inv1, Types, TaskTypes
  <2>4. Moved(Start(r))
    BY <2>1, <2>3, TaskNames, PlacesOf, Kinded DEF Moved, Early, StartPlaces
  <2> QED BY <2>1, <2>3, <2>4, PlacesKept
<1>5. ASSUME NEW r \in Calls, Spawn(r) PROVE PlaceInv'
  <2>1. UNCHANGED client
    BY <1>5 DEF Spawn, rest, callVars
  <2>2. \A x \in Tasks : pc'[x] = pc[x] \/ Moved(x)
    <3>1. \A x \in Tasks : x # Start(r) => pc'[x] = pc[x]
      BY <1>5, TaskNames DEF Spawn, Inv1, Types, TaskTypes
    <3>2. pc'[Start(r)] = pc[Start(r)] \/ Moved(Start(r))
      BY <1>5, TaskNames, PlacesOf, Kinded
         DEF Spawn, Moved, Early, CallPlaces, StartPlaces, EvictPlaces, KillPlaces,
         RetirePlaces, Inv1, Types, TaskTypes
    <3> QED BY <3>1, <3>2
  <2> QED BY <2>1, <2>2, PlacesKept
<1>6. ASSUME NEW r \in Calls, SpawnFails(r) PROVE PlaceInv'
  <2>1. UNCHANGED client
    BY <1>6 DEF SpawnFails, Move, rest, callVars
  <2>2. \A x \in Tasks : pc'[x] = pc[x] \/ Moved(x)
    <3>1. \A x \in Tasks : x # Start(r) => pc'[x] = pc[x]
      BY <1>6, TaskNames DEF SpawnFails, Move, Inv1, Types, TaskTypes
    <3>2. pc'[Start(r)] = pc[Start(r)] \/ Moved(Start(r))
      BY <1>6, TaskNames, PlacesOf, Kinded
         DEF SpawnFails, Move, Moved, Early, CallPlaces, StartPlaces, EvictPlaces, KillPlaces,
         RetirePlaces, Inv1, Types, TaskTypes
    <3> QED BY <3>1, <3>2
  <2> QED BY <2>1, <2>2, PlacesKept
<1>7. ASSUME NEW r \in Calls, Initialized(r) PROVE PlaceInv'
  <2>1. UNCHANGED client
    BY <1>7 DEF Initialized, rest, callVars
  <2>2. \A x \in Tasks : pc'[x] = pc[x] \/ Moved(x)
    <3>1. \A x \in Tasks : x # Start(r) => pc'[x] = pc[x]
      BY <1>7, TaskNames DEF Initialized, Inv1, Types, TaskTypes
    <3>2. pc'[Start(r)] = pc[Start(r)] \/ Moved(Start(r))
      BY <1>7, TaskNames, PlacesOf, Kinded
         DEF Initialized, Moved, Early, CallPlaces, StartPlaces, EvictPlaces, KillPlaces,
         RetirePlaces, Inv1, Types, TaskTypes
    <3> QED BY <3>1, <3>2
  <2> QED BY <2>1, <2>2, PlacesKept
<1>8. ASSUME NEW r \in Calls, Answered(r) PROVE PlaceInv'
  <2>1. UNCHANGED client
    BY <1>8 DEF Answered, Move, rest, callVars
  <2>2. \A x \in Tasks : pc'[x] = pc[x] \/ Moved(x)
    <3>1. \A x \in Tasks : x # Call(r) => pc'[x] = pc[x]
      BY <1>8, TaskNames DEF Answered, Move, Inv1, Types, TaskTypes
    <3>2. pc'[Call(r)] = pc[Call(r)] \/ Moved(Call(r))
      BY <1>8, TaskNames, PlacesOf, Kinded
         DEF Answered, Move, Moved, Early, CallPlaces, StartPlaces, EvictPlaces, KillPlaces,
         RetirePlaces, Inv1, Types, TaskTypes
    <3> QED BY <3>1, <3>2
  <2> QED BY <2>1, <2>2, PlacesKept
<1>9. ASSUME NEW r \in Calls, Recover(r) PROVE PlaceInv'
  <2>1. UNCHANGED client /\ pc[Call(r)] \in {"recovers"}
    BY <1>9 DEF Recover, Taken, rest, callVars
  <2>2. PICK w \in {"fails", "over"} : pc' = [pc EXCEPT ![Call(r)] = w]
    BY <1>9 DEF Recover, Taken
  <2>3. \A x \in Tasks : pc'[x] = IF x = Call(r) THEN w ELSE pc[x]
    BY <2>2, TaskNames DEF Inv1, Types, TaskTypes
  <2>4. Moved(Call(r))
    BY <2>1, <2>3, TaskNames, PlacesOf, Kinded DEF Moved, Early, CallPlaces
  <2> QED BY <2>1, <2>3, <2>4, PlacesKept
<1>10. ASSUME NEW r \in Calls, NEW i \in Instances, Get(r, i) PROVE PlaceInv'
  <2>1. pc[Call(r)] = "idle" /\ pc[<<"retire", i>>] = "idle" /\ pc[Start(r)] = "idle"
    BY <1>10 DEF Get, Inv1, PlaceInv, Early
  <2>2. CASE registry[Key[i]] \in {i, None}
    <3>1. \A x \in Tasks : pc'[x] = IF x = Call(r) THEN "got" ELSE pc[x]
      BY <1>10, <2>2, TaskNames DEF Get, Inv1, Types, TaskTypes
    <3>2. \A s \in Calls : client'[s] = IF s = r THEN i ELSE client[s]
      BY <1>10, <2>2 DEF Get, Inv1, Types, TaskTypes
    <3>3. \A x \in Tasks : pc'[x] \in Places[x]
      BY <3>1, TaskNames, PlacesOf, Kinded DEF CallPlaces
    <3>4. \A s \in Calls : s # r => pc'[Call(s)] = pc[Call(s)]
      BY <3>1, TaskNames
    <3>5. pc'[Call(r)] = "got" /\ \A s \in Calls : pc'[Start(s)] = pc[Start(s)]
      BY <3>1, TaskNames
    <3> QED BY <2>1, <3>2, <3>3, <3>4, <3>5 DEF Inv1, PlaceInv, Early
  <2>3. CASE registry[Key[i]] \notin {i, None}
    <3> DEFINE old == registry[Key[i]]
    <3>0. old \in Instances
      BY <2>3, RegTypes
    <3>7. pc' = [pc EXCEPT ![Call(r)] = "replaces", ![<<"retire", old>>] = "locks"]
      BY <1>10, <2>3 DEF Get
    <3>1. \A x \in Tasks : pc'[x] = IF x = <<"retire", old>>
            THEN "locks" ELSE IF x = Call(r) THEN "replaces" ELSE pc[x]
      BY <3>7, <3>0, TaskNames DEF Inv1, Types, TaskTypes
    <3>2. \A s \in Calls : client'[s] = IF s = r THEN old ELSE client[s]
      BY <1>10, <2>3 DEF Get, Inv1, Types, TaskTypes
    <3>6. <<"retire", old>> \in Tasks /\ <<"retire", old>>[1] = "retire"
      BY <3>0, TaskNames
    <3>3. \A x \in Tasks : pc'[x] \in Places[x]
      BY <3>1, <3>6, TaskNames, PlacesOf, Kinded DEF CallPlaces, RetirePlaces
    <3>4. \A s \in Calls : s # r => pc'[Call(s)] = pc[Call(s)]
      BY <3>1, <3>6, TaskNames
    <3>5. pc'[Call(r)] = "replaces" /\ \A s \in Calls : pc'[Start(s)] = pc[Start(s)]
      BY <3>1, <3>6, TaskNames
    <3> HIDE DEF old
    <3> QED BY <2>1, <3>0, <3>2, <3>3, <3>4, <3>5 DEF Inv1, PlaceInv, Early
  <2> QED BY <2>2, <2>3
<1>11. ASSUME NEW t \in Tasks, ReadGeneration(t) PROVE PlaceInv'
  <2>1. UNCHANGED client
    BY <1>11 DEF ReadGeneration, rest, callVars
  <2>2. \A x \in Tasks : pc'[x] = pc[x] \/ Moved(x)
    <3>1. \A x \in Tasks : x # t => pc'[x] = pc[x]
      BY <1>11, TaskNames DEF ReadGeneration, Inv1, Types, TaskTypes
    <3>2. pc'[t] = pc[t] \/ Moved(t)
      BY <1>11, TaskNames, PlacesOf, Kinded, Outcomes
         DEF ReadGeneration, Moved, Early, CallPlaces, StartPlaces, EvictPlaces, KillPlaces,
         RetirePlaces, Inv1, Types, TaskTypes
    <3> QED BY <3>1, <3>2
  <2> QED BY <2>1, <2>2, PlacesKept
<1>12. ASSUME NEW t \in Tasks, Send(t) PROVE PlaceInv'
  <2>1. UNCHANGED client
    BY <1>12 DEF Send, rest, callVars
  <2>2. PICK w \in {"waits", "writes", Failed(t)} : pc' = [pc EXCEPT ![t] = w]
    BY <1>12 DEF Send
  <2>3. \A x \in Tasks : pc'[x] = IF x = t THEN w ELSE pc[x]
    BY <2>2 DEF Inv1, Types, TaskTypes
  <2>4. pc[t] = "sends"
    BY <1>12 DEF Send
  <2>5. Moved(t)
    BY <2>3, <2>4, PlacesOf, Kinded, Outcomes DEF Moved, Early, CallPlaces, StartPlaces
  <2> QED BY <2>1, <2>3, <2>5, PlacesKept
<1>13. ASSUME NEW t \in Tasks, WriteFails(t) PROVE PlaceInv'
  <2>1. UNCHANGED client
    BY <1>13 DEF WriteFails, Move, rest, callVars
  <2>2. \A x \in Tasks : pc'[x] = pc[x] \/ Moved(x)
    <3>1. \A x \in Tasks : x # t => pc'[x] = pc[x]
      BY <1>13, TaskNames DEF WriteFails, Move, Inv1, Types, TaskTypes
    <3>2. pc'[t] = pc[t] \/ Moved(t)
      BY <1>13, TaskNames, PlacesOf, Kinded, Outcomes
         DEF WriteFails, Move, Moved, Early, CallPlaces, StartPlaces, EvictPlaces, KillPlaces,
         RetirePlaces, Inv1, Types, TaskTypes
    <3> QED BY <3>1, <3>2
  <2> QED BY <2>1, <2>2, PlacesKept
<1>14. ASSUME NEW t \in Tasks, NoticeWrite(t) PROVE PlaceInv'
  <2>1. UNCHANGED client
    BY <1>14 DEF NoticeWrite, Move, rest, callVars
  <2>2. \A x \in Tasks : pc'[x] = pc[x] \/ Moved(x)
    <3>1. \A x \in Tasks : x # t => pc'[x] = pc[x]
      BY <1>14, TaskNames DEF NoticeWrite, Move, Inv1, Types, TaskTypes
    <3>2. pc'[t] = pc[t] \/ Moved(t)
      BY <1>14, TaskNames, PlacesOf, Kinded, Outcomes
         DEF NoticeWrite, Move, Moved, Early, CallPlaces, StartPlaces, EvictPlaces, KillPlaces,
         RetirePlaces, Inv1, Types, TaskTypes
    <3> QED BY <3>1, <3>2
  <2> QED BY <2>1, <2>2, PlacesKept
<1>15. ASSUME NEW t \in Tasks, Timeout(t) PROVE PlaceInv'
  <2>1. UNCHANGED client
    BY <1>15 DEF Timeout, rest, callVars
  <2>2. \A x \in Tasks : pc'[x] = pc[x] \/ Moved(x)
    <3>1. \A x \in Tasks : x # t => pc'[x] = pc[x]
      BY <1>15, TaskNames DEF Timeout, Inv1, Types, TaskTypes
    <3>2. pc'[t] = pc[t] \/ Moved(t)
      BY <1>15, TaskNames, PlacesOf, Kinded, Outcomes
         DEF Timeout, Moved, Early, CallPlaces, StartPlaces, EvictPlaces, KillPlaces,
         RetirePlaces, Inv1, Types, TaskTypes
    <3> QED BY <3>1, <3>2
  <2> QED BY <2>1, <2>2, PlacesKept
<1>16. ASSUME NEW t \in Tasks, Take(t) PROVE PlaceInv'
  <2>1. UNCHANGED client /\ pc[t] \in {"takes"}
    BY <1>16 DEF Take, Taken, rest, callVars
  <2>2. PICK w \in {After(t), "fails"} : pc' = [pc EXCEPT ![t] = w]
    BY <1>16 DEF Take, Taken
  <2>3. \A x \in Tasks : pc'[x] = IF x = t THEN w ELSE pc[x]
    BY <2>2, TaskNames DEF Inv1, Types, TaskTypes
  <2>4. Moved(t)
    BY <2>1, <2>3, TaskNames, PlacesOf, Kinded, AfterPlaces
       DEF Moved, Early, StartPlaces, EvictPlaces, RetirePlaces
  <2> QED BY <2>1, <2>3, <2>4, PlacesKept
<1>17. ASSUME NEW t \in Tasks, FailPending(t) PROVE PlaceInv'
  <2>1. UNCHANGED client
    BY <1>17 DEF FailPending, rest, callVars
  <2>2. /\ \A x \in Tasks : x # t => pc'[x] = Failing(gen[t])[x]
        /\ pc[t] = "fails" /\ pc'[t] = "kills"
    BY <1>17, FailingTypes DEF FailPending, Inv1, Types
  <2>3. Moved(t)
    BY <2>2, TaskNames, Kinded, PlacesOf
       DEF Moved, Early, CallPlaces, StartPlaces, EvictPlaces, KillPlaces, RetirePlaces
  <2>4. \A x \in Tasks : pc'[x] = pc[x] \/ Moved(x)
    BY <2>2, <2>3, FailingMoves
  <2> QED BY <2>1, <2>4, PlacesKept
<1>18. ASSUME NEW t \in Tasks, Terminate(t) PROVE PlaceInv'
  <2>1. UNCHANGED client /\ pc[t] \in {"kills", "clears"}
    BY <1>18 DEF Terminate, Move, rest, callVars
  <2>2. PICK w \in IF pc[t] = "kills" THEN {"joins"} ELSE {"awaits"} : pc' = [pc EXCEPT ![t] = w]
    BY <1>18 DEF Terminate, Move
  <2>3. \A x \in Tasks : pc'[x] = IF x = t THEN w ELSE pc[x]
    BY <2>2, TaskNames DEF Inv1, Types, TaskTypes
  <2>4. Moved(t)
    BY <2>1, <2>3, TaskNames, PlacesOf, Kinded
       DEF Moved, Early, CallPlaces, StartPlaces, EvictPlaces, KillPlaces, RetirePlaces
  <2> QED BY <2>1, <2>3, <2>4, PlacesKept
<1>19. ASSUME NEW t \in Tasks, Join(t) PROVE PlaceInv'
  <2>1. UNCHANGED client /\ pc[t] \in {"joins", "awaits"}
    BY <1>19 DEF Join, rest, callVars
  <2>2. PICK w \in IF pc[t] = "awaits" THEN {"spawns"} ELSE {After(t)} : pc' = [pc EXCEPT ![t] = w]
    BY <1>19 DEF Join
  <2>3. \A x \in Tasks : pc'[x] = IF x = t THEN w ELSE pc[x]
    BY <2>2, TaskNames DEF Inv1, Types, TaskTypes
  <2>4. Moved(t)
    BY <2>1, <2>3, TaskNames, PlacesOf, Kinded, AfterPlaces
       DEF Moved, Early, CallPlaces, StartPlaces, EvictPlaces, KillPlaces, RetirePlaces
  <2> QED BY <2>1, <2>3, <2>4, PlacesKept
<1>20. ASSUME NEW t \in Tasks, StopDaemon(t) PROVE PlaceInv'
  <2>1. UNCHANGED client
    BY <1>20 DEF StopDaemon, Move, rest, callVars
  <2>2. \A x \in Tasks : pc'[x] = pc[x] \/ Moved(x)
    <3>1. \A x \in Tasks : x # t => pc'[x] = pc[x]
      BY <1>20, TaskNames DEF StopDaemon, Move, Inv1, Types, TaskTypes
    <3>2. pc'[t] = pc[t] \/ Moved(t)
      BY <1>20, TaskNames, PlacesOf, Kinded
         DEF StopDaemon, Move, Moved, Early, CallPlaces, StartPlaces, EvictPlaces, KillPlaces,
         RetirePlaces, Inv1, Types, TaskTypes
    <3> QED BY <3>1, <3>2
  <2> QED BY <2>1, <2>2, PlacesKept
<1>21. ASSUME NEW i \in Instances, Kill(i) PROVE PlaceInv'
  <2>1. UNCHANGED client /\ pc' = [pc EXCEPT ![<<"kill", i>>] = "fails"]
    BY <1>21 DEF Kill, Taken, callVars
  <2>2. \A x \in Tasks : pc'[x] = IF x = <<"kill", i>> THEN "fails" ELSE pc[x]
    BY <2>1 DEF Inv1, Types, TaskTypes
  <2>3. Moved(<<"kill", i>>)
    <3>1. <<"kill", i>> \in Tasks /\ <<"kill", i>>[1] = "kill"
      BY TaskNames
    <3>2. Places[<<"kill", i>>] = KillPlaces
      BY <3>1, PlacesOf
    <3> QED BY <2>2, <3>1, <3>2 DEF Moved, KillPlaces
  <2> QED BY <2>1, <2>2, <2>3, PlacesKept
<1>22. ASSUME NEW i \in Instances, EvictChecks(i) PROVE PlaceInv'
  <2>1. UNCHANGED client
    BY <1>22 DEF EvictChecks, Move, rest, callVars
  <2>2. \A x \in Tasks : pc'[x] = pc[x] \/ Moved(x)
    <3>1. \A x \in Tasks : x # <<"evict", i>> => pc'[x] = pc[x]
      BY <1>22, TaskNames DEF EvictChecks, Move, Inv1, Types, TaskTypes
    <3>2. pc'[<<"evict", i>>] = pc[<<"evict", i>>] \/ Moved(<<"evict", i>>)
      BY <1>22, TaskNames, PlacesOf, Kinded
         DEF EvictChecks, Move, Moved, Early, CallPlaces, StartPlaces, EvictPlaces, KillPlaces,
         RetirePlaces, Inv1, Types, TaskTypes
    <3> QED BY <3>1, <3>2
  <2> QED BY <2>1, <2>2, PlacesKept
<1>23. ASSUME NEW i \in Instances, RetireLocks(i) PROVE PlaceInv'
  <2>1. UNCHANGED client
    BY <1>23 DEF RetireLocks, Move, rest, callVars
  <2>2. \A x \in Tasks : pc'[x] = pc[x] \/ Moved(x)
    <3>1. \A x \in Tasks : x # <<"retire", i>> => pc'[x] = pc[x]
      BY <1>23, TaskNames DEF RetireLocks, Move, Inv1, Types, TaskTypes
    <3>2. pc'[<<"retire", i>>] = pc[<<"retire", i>>] \/ Moved(<<"retire", i>>)
      BY <1>23, TaskNames, PlacesOf, Kinded
         DEF RetireLocks, Move, Moved, Early, CallPlaces, StartPlaces, EvictPlaces, KillPlaces,
         RetirePlaces, Inv1, Types, TaskTypes
    <3> QED BY <3>1, <3>2
  <2> QED BY <2>1, <2>2, PlacesKept
<1>24. ASSUME NEW g \in 1..gens, FailFirst(g) PROVE PlaceInv'
  <2>1. UNCHANGED client
    BY <1>24 DEF FailFirst, rest, callVars
  <2>2. pc' = pc \/ pc' = Failing(g)
    BY <1>24 DEF FailFirst
  <2> QED BY <2>1, <2>2, FailingMoves, PlacesKept
<1>25. ASSUME NEW g \in 1..gens, Finalize(g) PROVE PlaceInv'
  <2>1. UNCHANGED client
    BY <1>25 DEF Finalize, rest, callVars
  <2>2. pc' = pc \/ pc' = Failing(g)
    BY <1>25 DEF Finalize
  <2> QED BY <2>1, <2>2, FailingMoves, PlacesKept
<1>26. ASSUME NEW g \in 1..gens, ReadLine(g) PROVE PlaceInv'
  <2>1. UNCHANGED client
    BY <1>26 DEF ReadLine, rest, callVars
  <2>2. g \in Gens /\ lines[g] # <<>>
    BY <1>26, GensGiven DEF ReadLine
  <2>3. PICK t \in Tasks : pc' = pc \/ (pending[t] # 0 /\ pc' = [pc EXCEPT ![t] = "answered"])
    BY <1>26, <2>2, Lines0 DEF ReadLine
  <2>4. CASE pending[t] # 0 /\ pc' = [pc EXCEPT ![t] = "answered"]
    <3>1. pc[t] \in {"waits", "writes"}
      BY <2>4 DEF Inv1, TaskInv, Linked
    <3>2. \A x \in Tasks : x # t => pc'[x] = pc[x]
      BY <2>4 DEF Inv1, Types, TaskTypes
    <3>3. pc'[t] = "answered"
      BY <2>4 DEF Inv1, Types, TaskTypes
    <3>4. Moved(t)
      BY <3>1, <3>3, Kinded, PlacesOf DEF Moved, Early, CallPlaces, StartPlaces
    <3> QED BY <2>1, <3>2, <3>4, PlacesKept
  <2> QED BY <2>1, <2>3, <2>4, PlacesKept
<1>27. ASSUME UNCHANGED <<pc, client>> PROVE PlaceInv'
  BY <1>27 DEF Inv1, PlaceInv
<1>28. ASSUME NEW r \in Calls,
       Completes(r)
      PROVE PlaceInv'
  BY <1>28, <1>27 DEF Completes, rest, callVars
<1>29. ASSUME NEW g \in 1..gens,
       Notice(g) \/ ShutsDown(g) \/ Drained(g) \/ Exits(g) \/ Drops(g)
      PROVE PlaceInv'
  BY <1>29, <1>27 DEF Notice, rest, callVars, ShutsDown, Drained, Exits, Drops
<1>30. ASSUME NEW g \in 1..gens, NEW t \in Tasks,
       Accept(g, t)
      PROVE PlaceInv'
  BY <1>30, <1>27 DEF Accept, rest, callVars
<1> QED BY <1>1, <1>2, <1>3, <1>4, <1>5, <1>6, <1>7, <1>8, <1>9, <1>10, <1>11, <1>12, <1>13,
           <1>14, <1>15, <1>16, <1>17, <1>18, <1>19, <1>20, <1>21, <1>22, <1>23, <1>24,
           <1>25, <1>26, <1>27, <1>28, <1>29, <1>30 DEF Next, vars

-----------------------------------------------------------------------------
(* Whose generations are whose.                                             *)

\* A client that keeps or loses its process has no other's.
LEMMA ProcessKept ==
  ASSUME Inv1, UNCHANGED <<gens, of, mode>>,
         \A i \in Instances : process'[i] = process[i] \/ process'[i] = 0
  PROVE  ProcessInv'
<1>1. gens \in Nat
  BY GensNat
<1> QED BY <1>1 DEF Inv1, ProcessInv

\* The client of a generation.
LEMMA OfType ==
  ASSUME Inv1
  PROVE  \A g \in Gens : of[g] \in Instances \cup {None}
  BY DEF Inv1, Types, LinkTypes

\* A client has only processes of its own.
LEMMA ProcessInvStep ==
  ASSUME Inv1, [Next]_vars
  PROVE  ProcessInv'
<1>1. ASSUME NEW r \in Calls, StartCheck(r) PROVE ProcessInv'
  <2>1. UNCHANGED <<gens, of, mode>>
    BY <1>1 DEF StartCheck, rest, linkVars
  <2>2. UNCHANGED process \/ process' = [process EXCEPT ![client[r]] = 0]
    BY <1>1 DEF StartCheck
  <2>3. process \in [Instances -> 0..MaxGens]
    BY DEF Inv1, Types, ProcessTypes
  <2> QED BY <2>1, <2>2, <2>3, ProcessKept
<1>2. ASSUME NEW r \in Calls, Spawn(r) PROVE ProcessInv'
  <2>1. client[r] \in Instances /\ gens + 1 \in Gens /\ gens \in Nat
    BY <1>2, Owners, TaskNames, GensNat DEF Spawn
  <2>2. PICK m \in Modes : Opens(gens + 1, client[r], m)
    BY <1>2, <2>1 DEF Spawn, Offers, Inv1, Types, LinkTypes
  <2>3. /\ gens' = gens + 1 /\ process' = [process EXCEPT ![client[r]] = gens + 1]
        /\ of' = [of EXCEPT ![gens + 1] = client[r]] /\ mode' = [mode EXCEPT ![gens + 1] = m]
    BY <1>2, <2>2 DEF Spawn, Opens
  <2>4. /\ process \in [Instances -> 0..MaxGens] /\ of \in [Gens -> Instances \cup {None}]
        /\ mode \in [Gens -> Modes \cup {None}]
    BY DEF Inv1, Types, ProcessTypes, LinkTypes
  <2>5. ASSUME NEW i \in Instances
        PROVE  process'[i] <= gens' /\ (process'[i] # 0 => of'[process'[i]] = i)
    <3>1. process[i] <= gens /\ (process[i] # 0 => of[process[i]] = i) /\ process[i] \in 0..MaxGens
      BY <2>4 DEF Inv1, ProcessInv
    <3>2. CASE i = client[r]
      BY <2>1, <2>3, <2>4, <3>2
    <3>3. CASE i # client[r]
      <4>1. process'[i] = process[i] /\ process[i] # gens + 1
        BY <2>1, <2>3, <2>4, <3>1, <3>3
      <4> QED BY <2>1, <2>3, <2>4, <3>1, <4>1
    <3> QED BY <3>2, <3>3
  <2>6. ASSUME NEW g \in Gens, g <= gens' PROVE of'[g] \in Instances /\ mode'[g] \in Modes
    <3>1. g <= gens => of[g] \in Instances /\ mode[g] \in Modes
      BY DEF Inv1, ProcessInv
    <3>2. g <= gens \/ g = gens + 1
      BY <2>1, <2>3, <2>6
    <3> QED BY <2>1, <2>3, <2>4, <3>1, <3>2
  <2> QED BY <2>5, <2>6 DEF ProcessInv
<1>3. ASSUME NEW r \in Calls, Recover(r) PROVE ProcessInv'
  <2>1. UNCHANGED <<gens, of, mode>>
    BY <1>3 DEF Recover, Taken, rest, linkVars
  <2>2. UNCHANGED process \/ process' = [process EXCEPT ![of[gen[Call(r)]]] = 0]
    BY <1>3 DEF Recover, Taken
  <2>3. process \in [Instances -> 0..MaxGens]
    BY DEF Inv1, Types, ProcessTypes
  <2> QED BY <2>1, <2>2, <2>3, ProcessKept
<1>4. ASSUME NEW t \in Tasks, Take(t) PROVE ProcessInv'
  <2>1. UNCHANGED <<gens, of, mode>>
    BY <1>4 DEF Take, Taken, rest, linkVars
  <2>2. UNCHANGED process \/ process' = [process EXCEPT ![of[process[ClientOf(t)]]] = 0]
    BY <1>4 DEF Take, Taken
  <2>3. process \in [Instances -> 0..MaxGens]
    BY DEF Inv1, Types, ProcessTypes
  <2> QED BY <2>1, <2>2, <2>3, ProcessKept
<1>5. ASSUME NEW i \in Instances, Kill(i) PROVE ProcessInv'
  <2>1. UNCHANGED <<gens, of, mode>>
    BY <1>5 DEF Kill, Taken, rest, linkVars
  <2>2. UNCHANGED process \/ process' = [process EXCEPT ![of[process[i]]] = 0]
    BY <1>5 DEF Kill, Taken
  <2>3. process \in [Instances -> 0..MaxGens]
    BY DEF Inv1, Types, ProcessTypes
  <2> QED BY <2>1, <2>2, <2>3, ProcessKept
<1>6. ASSUME NEW g \in 1..gens, Finalize(g) PROVE ProcessInv'
  <2>1. UNCHANGED <<gens, of, mode>>
    BY <1>6 DEF Finalize, rest, linkVars
  <2>2. UNCHANGED process \/ process' = [process EXCEPT ![of[g]] = 0]
    BY <1>6 DEF Finalize
  <2>3. process \in [Instances -> 0..MaxGens]
    BY DEF Inv1, Types, ProcessTypes
  <2> QED BY <2>1, <2>2, <2>3, ProcessKept
<1>7. ASSUME UNCHANGED <<process, gens, of, mode>> PROVE ProcessInv'
  BY <1>7 DEF Inv1, ProcessInv
<1>8. ASSUME NEW r \in Calls,
       Replaced(r) \/ Enter(r) \/ Started(r) \/ SpawnFails(r) \/ Initialized(r) \/
       Answered(r) \/ Completes(r)
      PROVE ProcessInv'
  BY <1>8, <1>7 DEF Replaced, linkVars, Enter, rest, Started, SpawnFails, Initialized,
                    Answered, Completes
<1>9. ASSUME NEW r \in Calls, NEW i \in Instances,
       Get(r, i)
      PROVE ProcessInv'
  BY <1>9, <1>7 DEF Get, linkVars
<1>10. ASSUME NEW t \in Tasks,
       ReadGeneration(t) \/ Send(t) \/ WriteFails(t) \/ NoticeWrite(t) \/ Timeout(t) \/
       FailPending(t) \/ Terminate(t) \/ Join(t) \/ StopDaemon(t)
      PROVE ProcessInv'
  BY <1>10, <1>7 DEF ReadGeneration, rest, linkVars, Send, WriteFails, NoticeWrite, Timeout,
                     FailPending, Terminate, Join, StopDaemon
<1>11. ASSUME NEW i \in Instances,
       EvictChecks(i) \/ RetireLocks(i)
      PROVE ProcessInv'
  BY <1>11, <1>7 DEF EvictChecks, linkVars, RetireLocks
<1>12. ASSUME NEW g \in 1..gens,
       Notice(g) \/ ShutsDown(g) \/ FailFirst(g) \/ Drained(g) \/ ReadLine(g) \/ Exits(g) \/
       Drops(g)
      PROVE ProcessInv'
  BY <1>12, <1>7 DEF Notice, rest, linkVars, ShutsDown, FailFirst, Drained, ReadLine, Exits,
                     Drops
<1>13. ASSUME NEW g \in 1..gens, NEW t \in Tasks,
       Accept(g, t)
      PROVE ProcessInv'
  BY <1>13, <1>7 DEF Accept, rest, linkVars
<1> QED BY <1>1, <1>2, <1>3, <1>4, <1>5, <1>6, <1>7, <1>8, <1>9, <1>10, <1>11, <1>12, <1>13
           DEF Next, vars

\* A generation that was not given out stays unused.
Untouched(g) ==
  /\ g \notin up' \cup dead' \cup slots' \cup ready'
  /\ sup'[g] = sup[g] /\ lines'[g] = lines[g] /\ inbox'[g] = inbox[g]

\* A generation that no step touches is unused.
LEMMA FutureKept ==
  ASSUME Inv1, UNCHANGED <<gens, of>>, \A g \in Gens : g > gens => Untouched(g)
  PROVE  FutureInv'
  BY DEF Inv1, FutureInv, Unused, Untouched

\* Only generations given out end.
LEMMA EndsFuture ==
  ASSUME Inv1, NEW G, NEW i \in Instances, \A h \in G : of[h] = i, Ends(G),
         UNCHANGED <<gens, of, slots, ready, sup, lines>>
  PROVE  FutureInv'
<1>1. ASSUME NEW g \in Gens, g > gens PROVE Untouched(g)
  <2>1. Unused(g) /\ i # None
    BY <1>1, KeyAssumption DEF Inv1, FutureInv
  <2> QED BY <2>1 DEF Ends, Unused, Untouched
<1> QED BY <1>1, FutureKept

\* Only connections given out break.
LEMMA BreaksFuture ==
  ASSUME Inv1, NEW g \in 1..gens, NEW to, Breaks(g, to), up' \subseteq up, slots' \subseteq slots,
         UNCHANGED <<gens, of, dead, ready, inbox>>
  PROVE  FutureInv'
<1>1. g \in Gens /\ g <= gens /\ gens \in Nat
  BY GensGiven
<1>2. ASSUME NEW h \in Gens, h > gens PROVE Untouched(h)
  <2>1. Unused(h) /\ h # g
    BY <1>1, <1>2 DEF Inv1, FutureInv
  <2>2. sup \in [Gens -> {"off", "on", "loss", "exit", "lossLocks", "exitLocks", "drain", "done"}]
    BY DEF Inv1, Types, SupTypes
  <2>3. lines \in [Gens -> Seq(Lines)]
    BY DEF Inv1, Types, FlowTypes
  <2> QED BY <2>1, <2>2, <2>3 DEF Breaks, Unused, Untouched
<1> QED BY <1>2, FutureKept

\* A generation that is not given out yet is unused.
LEMMA FutureInvStep ==
  ASSUME Inv1, [Next]_vars
  PROVE  FutureInv'
<1>1. ASSUME NEW r \in Calls, Spawn(r) PROVE FutureInv'
  <2>1. gens + 1 \in Gens /\ gens \in Nat /\ gens' = gens + 1
    BY <1>1, GensNat DEF Spawn, Opens
  <2>2. PICK m : Opens(gens + 1, client[r], m)
    BY <1>1 DEF Spawn
  <2>3. ASSUME NEW h \in Gens, h > gens' PROVE Unused(h)'
    <3>1. Unused(h) /\ h # gens + 1
      BY <2>1, <2>3 DEF Inv1, FutureInv
    <3>2. UNCHANGED <<dead, ready, lines, inbox>> /\ slots' = slots \cup {gens + 1}
      BY <1>1 DEF Spawn
    <3>3. up' = up \cup {gens + 1} /\ sup'[h] = sup[h] /\ of'[h] = of[h]
      BY <2>2, <3>1 DEF Opens, Inv1, Types, LinkTypes, SupTypes
    <3> QED BY <3>1, <3>2, <3>3 DEF Unused
  <2> QED BY <2>3 DEF FutureInv
<1>2. ASSUME NEW r \in Calls, Initialized(r) PROVE FutureInv'
  <2>2. UNCHANGED <<gens, of, up, dead, slots, sup, lines, inbox>>
    BY <1>2 DEF Initialized, linkVars, worldVars
  <2>1. gens \in Nat /\ process[client[r]] <= gens /\ process[client[r]] \in Nat
    BY <1>2, GensNat, Processes, TaskNames DEF Initialized
  <2>3. ready' \subseteq ready \cup {process[client[r]]}
    BY <1>2 DEF Initialized
  <2>4. ASSUME NEW h \in Gens, h > gens PROVE Untouched(h)
    <3>1. Unused(h) /\ h # process[client[r]]
      BY <2>1, <2>4 DEF Inv1, FutureInv
    <3> QED BY <2>2, <2>3, <3>1 DEF Untouched, Unused
  <2> QED BY <2>2, <2>4, FutureKept
<1>3. ASSUME NEW r \in Calls, Completes(r) PROVE FutureInv'
  <2>2. UNCHANGED <<gens, of, up, dead, slots, ready, sup, inbox>>
    BY <1>3 DEF Completes, rest, linkVars
  <2>3. ASSUME NEW h \in Gens, h > gens PROVE Untouched(h)
    <3>1. Unused(h)
      BY <2>3 DEF Inv1, FutureInv
    <3>2. lines \in [Gens -> Seq(Lines)]
      BY DEF Inv1, Types, FlowTypes
    <3>3. lines'[h] = lines[h]
      <4>1. UNCHANGED lines \/ \E x \in up : \E l : Says(x, <<l>>)
        BY <1>3 DEF Completes
      <4> QED BY <3>1, <3>2, <4>1 DEF Says, Unused
    <3> QED BY <2>2, <3>1, <3>3 DEF Untouched, Unused
  <2> QED BY <2>2, <2>3, FutureKept
<1>4. ASSUME NEW t \in Tasks, Send(t) PROVE FutureInv'
  <2>1. gen[t] \in 1..gens /\ gen[t] \in Gens /\ gen[t] <= gens /\ gens \in Nat
    BY <1>4, GensGiven, GensNat, Bound DEF Send, Sending
  <2>2. UNCHANGED <<gens, of, up, dead, slots, ready, sup, lines>>
    BY <1>4 DEF Send, rest, linkVars, worldVars
  <2>3. ASSUME NEW h \in Gens, h > gens PROVE Untouched(h)
    <3>1. Unused(h) /\ h # gen[t]
      BY <2>1, <2>3 DEF Inv1, FutureInv
    <3> QED BY <1>4, <2>1, <2>2, <3>1
               DEF Send, Untouched, Unused, Inv1, Types, FlowTypes, SupTypes, LinkTypes
  <2> QED BY <2>2, <2>3, FutureKept
<1>5. ASSUME NEW t \in Tasks, NoticeWrite(t) PROVE FutureInv'
  <2>1. gen[t] \in 1..gens
    BY <1>5, Bound DEF NoticeWrite, Move, Sending
  <2>2. (\E to : Breaks(gen[t], to)) /\ up' \subseteq up /\ slots' \subseteq slots
    BY <1>5 DEF NoticeWrite, worldVars
  <2>3. UNCHANGED <<gens, of, dead, ready, inbox>>
    BY <1>5 DEF NoticeWrite, rest, linkVars, worldVars
  <2> QED BY <2>1, <2>2, <2>3, BreaksFuture
<1>6. ASSUME NEW t \in Tasks, Terminate(t) PROVE FutureInv'
  <2>1. of[gen[t]] \in Instances /\ \A h \in Behind(gen[t]) : of[h] = of[gen[t]]
    BY <1>6, Bound, BehindKnown DEF Terminate, Move, Closers
  <2>2. UNCHANGED <<gens, of, slots, ready, sup, lines>>
    BY <1>6 DEF Terminate, rest, linkVars
  <2>3. CASE Ends(Behind(gen[t]))
    BY <2>1, <2>2, <2>3, EndsFuture
  <2>4. CASE UNCHANGED worldVars
    BY <2>2, <2>4 DEF worldVars, Inv1, FutureInv, Unused
  <2> QED BY <1>6, <2>3, <2>4 DEF Terminate
<1>7. ASSUME NEW t \in Tasks, Join(t) PROVE FutureInv'
  <2>1. gen[t] \in 1..gens
    BY <1>7, Bound DEF Join, Closers
  <2>2. (\E to : Breaks(gen[t], to)) /\ up' \subseteq up /\ slots' \subseteq slots
    BY <1>7 DEF Join, worldVars
  <2>3. UNCHANGED <<gens, of, dead, ready, inbox>>
    BY <1>7 DEF Join, rest, linkVars, worldVars
  <2> QED BY <2>1, <2>2, <2>3, BreaksFuture
<1>8. ASSUME NEW t \in Tasks, StopDaemon(t) PROVE FutureInv'
  <2>1. ClientOf(t) \in Instances /\ \A h \in Handoff(ClientOf(t)) : of[h] = ClientOf(t)
    BY <1>8, Owners, BehindKnown DEF StopDaemon, Move
  <2>2. UNCHANGED <<gens, of, slots, ready, sup, lines>>
    BY <1>8 DEF StopDaemon, rest, linkVars
  <2>3. CASE Ends(Handoff(ClientOf(t)))
    BY <2>1, <2>2, <2>3, EndsFuture
  <2>4. CASE UNCHANGED worldVars
    BY <2>2, <2>4 DEF worldVars, Inv1, FutureInv, Unused
  <2> QED BY <1>8, <2>3, <2>4 DEF StopDaemon
<1>9. ASSUME NEW g \in 1..gens, Notice(g) PROVE FutureInv'
  <2>1. g \in 1..gens
    BY <1>9, GensGiven
  <2>2. (\E to : Breaks(g, to)) /\ up' \subseteq up /\ slots' \subseteq slots
    BY <1>9 DEF Notice, worldVars
  <2>3. UNCHANGED <<gens, of, dead, ready, inbox>>
    BY <1>9 DEF Notice, rest, linkVars, worldVars
  <2> QED BY <2>1, <2>2, <2>3, BreaksFuture
<1>10. ASSUME NEW g \in 1..gens, ShutsDown(g) PROVE FutureInv'
  <2>1. g \in 1..gens
    BY <1>10, GensGiven
  <2>2. (\E to : Breaks(g, to)) /\ up' \subseteq up /\ slots' \subseteq slots
    BY <1>10 DEF ShutsDown, worldVars
  <2>3. UNCHANGED <<gens, of, dead, ready, inbox>>
    BY <1>10 DEF ShutsDown, rest, linkVars, worldVars
  <2> QED BY <2>1, <2>2, <2>3, BreaksFuture
<1>11. ASSUME NEW g \in 1..gens, FailFirst(g) PROVE FutureInv'
  <2>1. g \in 1..gens /\ g \in Gens /\ g <= gens /\ gens \in Nat
    BY <1>11, GensGiven, GensNat
  <2>2. UNCHANGED <<gens, of, up, dead, slots, ready, lines, inbox>>
    BY <1>11 DEF FailFirst, rest, linkVars, worldVars
  <2>3. ASSUME NEW h \in Gens, h > gens PROVE Untouched(h)
    <3>1. Unused(h) /\ h # g
      BY <2>1, <2>3 DEF Inv1, FutureInv
    <3> QED BY <1>11, <2>1, <2>2, <3>1
               DEF FailFirst, Untouched, Unused, Inv1, Types, FlowTypes, SupTypes, LinkTypes
  <2> QED BY <2>2, <2>3, FutureKept
<1>12. ASSUME NEW g \in 1..gens, Finalize(g) PROVE FutureInv'
  <2>1. g \in 1..gens /\ g \in Gens /\ g <= gens /\ gens \in Nat
    BY <1>12, GensGiven, GensNat
  <2>2. UNCHANGED <<gens, of, up, dead, ready, lines, inbox>>
    BY <1>12 DEF Finalize, rest, linkVars, worldVars
  <2>3. ASSUME NEW h \in Gens, h > gens PROVE Untouched(h)
    <3>1. Unused(h) /\ h # g
      BY <2>1, <2>3 DEF Inv1, FutureInv
    <3> QED BY <1>12, <2>1, <2>2, <3>1
               DEF Finalize, Untouched, Unused, Inv1, Types, FlowTypes, SupTypes, LinkTypes
  <2> QED BY <2>2, <2>3, FutureKept
<1>13. ASSUME NEW g \in 1..gens, Drained(g) PROVE FutureInv'
  <2>1. g \in 1..gens /\ g \in Gens /\ g <= gens /\ gens \in Nat
    BY <1>13, GensGiven, GensNat
  <2>2. UNCHANGED <<gens, of, up, dead, slots, ready, inbox>>
    BY <1>13 DEF Drained, rest, linkVars, worldVars
  <2>3. ASSUME NEW h \in Gens, h > gens PROVE Untouched(h)
    <3>1. Unused(h) /\ h # g
      BY <2>1, <2>3 DEF Inv1, FutureInv
    <3> QED BY <1>13, <2>1, <2>2, <3>1
               DEF Drained, Untouched, Unused, Inv1, Types, FlowTypes, SupTypes, LinkTypes
  <2> QED BY <2>2, <2>3, FutureKept
<1>14. ASSUME NEW g \in 1..gens, ReadLine(g) PROVE FutureInv'
  <2>1. g \in 1..gens /\ g \in Gens /\ g <= gens /\ gens \in Nat
    BY <1>14, GensGiven, GensNat
  <2>2. UNCHANGED <<gens, of, up, dead, slots, ready, sup, inbox>>
    BY <1>14 DEF ReadLine, rest, linkVars, worldVars
  <2>3. ASSUME NEW h \in Gens, h > gens PROVE Untouched(h)
    <3>1. Unused(h) /\ h # g
      BY <2>1, <2>3 DEF Inv1, FutureInv
    <3> QED BY <1>14, <2>1, <2>2, <3>1
               DEF ReadLine, Untouched, Unused, Inv1, Types, FlowTypes, SupTypes, LinkTypes
  <2> QED BY <2>2, <2>3, FutureKept
<1>15. ASSUME NEW g \in 1..gens, Exits(g) PROVE FutureInv'
  <2>1. of[g] \in Instances /\ \A h \in Behind(g) : of[h] = of[g]
    BY <1>15, GensGiven, BehindKnown
  <2>2. UNCHANGED <<gens, of, slots, ready, sup, lines>>
    BY <1>15 DEF Exits, rest, linkVars
  <2>3. CASE Ends(Behind(g))
    BY <2>1, <2>2, <2>3, EndsFuture
  <2>4. CASE UNCHANGED worldVars
    BY <2>2, <2>4 DEF worldVars, Inv1, FutureInv, Unused
  <2> QED BY <1>15, <2>3, <2>4 DEF Exits
<1>16. ASSUME NEW g \in 1..gens, Drops(g) PROVE FutureInv'
  <2>1. g \in 1..gens /\ g \in Gens /\ g <= gens /\ gens \in Nat
    BY <1>16, GensGiven, GensNat
  <2>2. UNCHANGED <<gens, of, dead, slots, ready, sup, lines, inbox>>
    BY <1>16 DEF Drops, linkVars
  <2>3. ASSUME NEW h \in Gens, h > gens PROVE Untouched(h)
    <3>1. Unused(h) /\ h # g
      BY <2>1, <2>3 DEF Inv1, FutureInv
    <3> QED BY <1>16, <2>1, <2>2, <3>1
               DEF Drops, Untouched, Unused, Inv1, Types, FlowTypes, SupTypes, LinkTypes
  <2> QED BY <2>2, <2>3, FutureKept
<1>17. ASSUME NEW g \in 1..gens, NEW t \in Tasks, Accept(g, t) PROVE FutureInv'
  <2>1. g \in 1..gens /\ g \in Gens /\ g <= gens /\ gens \in Nat
    BY <1>17, GensGiven, GensNat
  <2>2. UNCHANGED <<gens, of, up, dead, slots, ready, sup>>
    BY <1>17 DEF Accept, rest, linkVars, worldVars
  <2>3. ASSUME NEW h \in Gens, h > gens PROVE Untouched(h)
    <3>1. Unused(h) /\ h # g
      BY <2>1, <2>3 DEF Inv1, FutureInv
    <3> QED BY <1>17, <2>1, <2>2, <3>1
               DEF Accept, Untouched, Unused, Says, Inv1, Types, FlowTypes, SupTypes, LinkTypes
  <2> QED BY <2>2, <2>3, FutureKept
<1>18. ASSUME UNCHANGED <<gens, of, up, dead, slots, ready, sup, lines, inbox>> PROVE FutureInv'
  BY <1>18 DEF Inv1, FutureInv, Unused
<1>19. ASSUME NEW r \in Calls,
       Replaced(r) \/ Enter(r) \/ Started(r) \/ StartCheck(r) \/ SpawnFails(r) \/ Answered(r)
       \/ Recover(r)
      PROVE FutureInv'
  BY <1>19, <1>18 DEF Replaced, linkVars, worldVars, Enter, rest, Started, StartCheck,
                      SpawnFails, Answered, Recover
<1>20. ASSUME NEW r \in Calls, NEW i \in Instances,
       Get(r, i)
      PROVE FutureInv'
  BY <1>20, <1>18 DEF Get, linkVars, worldVars
<1>21. ASSUME NEW t \in Tasks,
       ReadGeneration(t) \/ WriteFails(t) \/ Timeout(t) \/ Take(t) \/ FailPending(t)
      PROVE FutureInv'
  BY <1>21, <1>18 DEF ReadGeneration, worldVars, rest, linkVars, WriteFails, Timeout, Take,
                      FailPending
<1>22. ASSUME NEW i \in Instances,
       Kill(i) \/ EvictChecks(i) \/ RetireLocks(i)
      PROVE FutureInv'
  BY <1>22, <1>18 DEF Kill, linkVars, worldVars, EvictChecks, RetireLocks
<1> QED BY <1>1, <1>2, <1>3, <1>4, <1>5, <1>6, <1>7, <1>8, <1>9, <1>10, <1>11, <1>12, <1>13,
           <1>14, <1>15, <1>16, <1>17, <1>18, <1>19, <1>20, <1>21, <1>22 DEF Next, vars

-----------------------------------------------------------------------------
(* The links of the tasks.                                                  *)

\* A task that keeps its place, generation and entry stays linked, and so does one that moves.
LEMMA LinkedKept ==
  ASSUME Inv1, gens' \in Nat, gens <= gens', \A g \in Gens : g <= gens => of'[g] = of[g],
         NEW t \in Tasks, UNCHANGED client,
         pc'[t] = pc[t], gen'[t] = gen[t], pending'[t] = pending[t]
  PROVE  Linked(t)'
<1>1. Linked(t) /\ gen[t] \in 0..MaxGens
  BY DEF Inv1, Types, TaskInv, TaskTypes
<1>2. gens \in Nat /\ MaxGens \in Nat
  BY GensNat
<1>3. gen[t] <= gens'
  BY <1>1, <1>2 DEF Linked
<1>4. ClientOf(t)' = ClientOf(t)
  BY DEF ClientOf
<1>5. gen[t] # 0 => gen[t] \in Gens /\ gen[t] <= gens
  BY <1>1, <1>2 DEF Linked
<1> QED BY <1>1, <1>2, <1>4, <1>5 DEF Linked

\* The tasks that stay, stay linked.
LEMMA TasksKept ==
  ASSUME Inv1, UNCHANGED <<client, gens, of>>,
         \A x \in Tasks : \/ pc'[x] = pc[x] /\ gen'[x] = gen[x] /\ pending'[x] = pending[x]
                         \/ Linked(x)'
  PROVE  TaskInv'
<1>1. gens' \in Nat /\ gens <= gens' /\ \A g \in Gens : g <= gens => of'[g] = of[g]
  BY GensNat
<1> QED BY <1>1, LinkedKept DEF TaskInv

\* What is known of a task, as the steps use it.
LEMMA LinkFacts ==
  ASSUME Inv1, NEW t \in Tasks
  PROVE  /\ Linked(t) /\ gen[t] \in Nat /\ pending[t] \in Nat /\ gens \in Nat
         /\ pc \in [Tasks -> Steps] /\ gen \in [Tasks -> 0..MaxGens]
         /\ pending \in [Tasks -> 0..MaxGens]
<1>1. Linked(t) /\ pc \in [Tasks -> Steps] /\ gen \in [Tasks -> 0..MaxGens]
      /\ pending \in [Tasks -> 0..MaxGens]
  BY DEF Inv1, TaskInv, Types, TaskTypes
<1> QED BY <1>1, GensNat

\* A task takes the process of its client.
LEMMA TakenLinks ==
  ASSUME Inv1, NEW t \in Tasks, pc[t] # "idle", UNCHANGED <<client, gens, of>>,
         process[ClientOf(t)] # 0, pc'[t] # "waits", gen'[t] = process[ClientOf(t)],
         pc'[t] \notin Early, pending[t] = 0, pending'[t] = 0
  PROVE  Linked(t)'
<1>1. ClientOf(t) \in Instances /\ ClientOf(t)' = ClientOf(t)
  BY Owners DEF ClientOf
<1>2. process[ClientOf(t)] <= gens /\ of[process[ClientOf(t)]] = ClientOf(t)
  BY <1>1 DEF Inv1, ProcessInv
<1> QED BY <1>1, <1>2 DEF Linked

\* A failed request is linked.
LEMMA FailingLinks ==
  ASSUME Inv1, UNCHANGED <<client, gens, of, gen>>, NEW g, NEW t \in Tasks,
         pc'[t] = Failing(g)[t], pending'[t] = Without(g)[t]
  PROVE  Linked(t)'
<1>1. pc'[t] = (IF pending[t] = g /\ pc[t] = "waits" THEN Failed(t) ELSE pc[t])
  BY FailingTypes DEF Inv1, Types
<1>2. pending'[t] = IF pending[t] = g THEN 0 ELSE pending[t]
  BY FailingTypes DEF Inv1, Types
<1> QED BY <1>1, <1>2, LinkFacts, Outcomes DEF Linked, Closers, Sending, Early, ClientOf

\* Tasks stay linked: to their own client's generations, in `pending` for the one they have.
LEMMA TaskInvStep ==
  ASSUME Inv1, [Next]_vars
  PROVE  TaskInv'
<1>1. ASSUME NEW r \in Calls, Replaced(r) PROVE TaskInv'
  <2>1. UNCHANGED <<gen, pending, gens, of>> /\ pc[Call(r)] \in Early /\ pc'[Call(r)] \in Early
    BY <1>1, LinkFacts, TaskNames, RegTypes DEF Replaced, linkVars, Early
  <2>2. \A s \in Calls : s # r => client'[s] = client[s]
    BY <1>1 DEF Replaced, Inv1, Types, TaskTypes
  <2>3. gen[Call(r)] = 0 /\ gen[Start(r)] = 0 /\ pc[Start(r)] = "idle"
    <3>1. pc[Start(r)] = "idle"
      BY <2>1, TaskNames DEF Inv1, PlaceInv
    <3> QED BY <2>1, <3>1, LinkFacts, TaskNames DEF Linked, Early
  <2>4. ASSUME NEW t \in Tasks PROVE Linked(t)'
    <3>1. Linked(t)
      BY LinkFacts
    <3>2. gen[t] = 0 \/ ClientOf(t)' = ClientOf(t)
      <4>1. CASE t[1] \in {"call", "start"} /\ t[2] = r
        <5>1. t = Call(r) \/ t = Start(r)
          BY <4>1, TaskNames DEF Call, Start
        <5> QED BY <2>3, <5>1
      <4>2. CASE ~ (t[1] \in {"call", "start"} /\ t[2] = r)
        BY <2>2, <4>2, TaskNames DEF ClientOf
      <4> QED BY <4>1, <4>2
    <3>3. \/ pc'[t] = pc[t]
          \/ /\ pc'[t] \notin Closers \cup Sending \cup {"waits", "writes"}
             /\ gen[t] = 0 /\ pending[t] = 0
      BY <1>1, <2>3, <3>1, LinkFacts, TaskNames DEF Replaced, Closers, Sending, Linked
    <3> QED BY <2>1, <3>1, <3>2, <3>3 DEF Linked
  <2> QED BY <2>4 DEF TaskInv
<1>2. ASSUME NEW r \in Calls, Enter(r) PROVE TaskInv'
  <2>1. UNCHANGED <<client, gen, pending, gens, of>>
    BY <1>2 DEF Enter, rest, callVars, linkVars
  <2>2. \A x \in Tasks :
          \/ pc'[x] = pc[x]
          \/ /\ pc'[x] \in {"over", "starts", "locks"}
             /\ gen[x] = 0 /\ pending[x] = 0
    <3>1. pc[Call(r)] = "got" /\ pc[Start(r)] = "idle"
      BY <1>2, TaskNames DEF Enter, Inv1, PlaceInv, Early
    <3>2. gen[Call(r)] = 0 /\ gen[Start(r)] = 0 /\ pending[Call(r)] = 0 /\ pending[Start(r)] = 0
      BY <3>1, LinkFacts, TaskNames DEF Linked, Early
    <3>3. \A x \in Tasks :
             \/ pc'[x] = pc[x]
             \/ x \in {Call(r), Start(r)} /\ pc'[x] \in {"over", "starts", "locks"}
      <4>1. \/ pc' = [pc EXCEPT ![Call(r)] = "over"]
            \/ pc' = [pc EXCEPT ![Call(r)] = "starts", ![Start(r)] = "locks"]
        BY <1>2 DEF Enter
      <4> QED BY <4>1, LinkFacts, TaskNames
    <3> QED BY <3>2, <3>3
  <2>3. \A x \in Tasks : pc'[x] \in {"over", "starts", "locks"} /\ gen[x] = 0
          /\ pending[x] = 0 => Linked(x)'
    BY <2>1, LinkFacts DEF Linked, Closers, Sending
  <2> QED BY <2>1, <2>2, <2>3, TasksKept
<1>3. ASSUME NEW r \in Calls, Started(r) PROVE TaskInv'
  <2>1. UNCHANGED <<client, gens, of>>
    BY <1>3 DEF Started, rest, callVars, linkVars
  <2>2. \A x \in Tasks : x # Call(r)
          => pc'[x] = pc[x] /\ gen'[x] = gen[x] /\ pending'[x] = pending[x]
    BY <1>3, LinkFacts, TaskNames DEF Started, rest, callVars, linkVars
  <2>4. pc[Call(r)] \in {"starts"} /\ UNCHANGED <<gen, pending>>
    BY <1>3 DEF Started, rest, callVars
  <2>5. pc'[Call(r)] \in {"reads", "over"}
    BY <1>3, <2>4, LinkFacts, TaskNames DEF Started
  <2>6. Linked(Call(r)) /\ ClientOf(Call(r))' = ClientOf(Call(r)) /\ Call(r) \in Tasks
    BY <2>1, LinkFacts, TaskNames DEF ClientOf
  <2>3. Linked(Call(r))'
    BY <2>1, <2>4, <2>5, <2>6 DEF Linked, Closers, Sending, Early
  <2> QED BY <2>1, <2>2, <2>3, TasksKept
<1>4. ASSUME NEW r \in Calls, StartCheck(r) PROVE TaskInv'
  <2>1. UNCHANGED <<client, gens, of>>
    BY <1>4 DEF StartCheck, rest, callVars, linkVars
  <2>2. \A x \in Tasks : x # Start(r)
          => pc'[x] = pc[x] /\ gen'[x] = gen[x] /\ pending'[x] = pending[x]
    BY <1>4, LinkFacts, TaskNames DEF StartCheck, rest, callVars, linkVars
  <2>4. pc[Start(r)] \in {"locks"} /\ UNCHANGED pending /\ Start(r) \in Tasks
    BY <1>4, TaskNames DEF StartCheck, rest
  <2>5. Linked(Start(r)) /\ pending[Start(r)] = 0 /\ pc[Start(r)] # "idle"
    BY <2>4, LinkFacts DEF Linked
  <2>6. \/ pc'[Start(r)] \in {"err", "spawns"} /\ gen'[Start(r)] = gen[Start(r)]
        \/ /\ pc'[Start(r)] \notin Early \cup {"waits"}
              /\ gen'[Start(r)] = process[ClientOf(Start(r))]
           /\ process[ClientOf(Start(r))] # 0
    BY <1>4, <2>4, <2>5, LinkFacts, AfterPlaces, Outcomes, TaskNames
       DEF StartCheck, ClientOf, Early, Linked, Sending
  <2>8. ClientOf(Start(r))' = ClientOf(Start(r))
    BY <2>1 DEF ClientOf
  <2>7. ASSUME pc'[Start(r)] \in {"err", "spawns"}, gen'[Start(r)] = gen[Start(r)]
        PROVE  Linked(Start(r))'
    BY <2>1, <2>4, <2>5, <2>7, <2>8, AfterPlaces, Outcomes, TaskNames
       DEF Linked, Closers, Sending, Early, ClientOf
  <2>3. Linked(Start(r))'
    BY <2>1, <2>4, <2>5, <2>6, <2>7, TakenLinks
  <2> QED BY <2>1, <2>2, <2>3, TasksKept
<1>5. ASSUME NEW r \in Calls, Spawn(r) PROVE TaskInv'
  <2>1. UNCHANGED <<client, gen, pending>> /\ pc[Start(r)] = "spawns"
    BY <1>5 DEF Spawn, callVars
  <2>2. gens + 1 \in Gens /\ gens \in Nat /\ gens' = gens + 1
          /\ of \in [Gens -> Instances \cup {None}]
    BY <1>5, GensNat DEF Spawn, Opens, Inv1, Types, LinkTypes
  <2>3. \A x \in Tasks : pc'[x] = IF x = Start(r) THEN "reads" ELSE pc[x]
    BY <1>5, LinkFacts, TaskNames DEF Spawn
  <2>4. gens' \in Nat /\ gens <= gens' /\ \A g \in Gens : g <= gens => of'[g] = of[g]
    BY <1>5, <2>2 DEF Spawn, Opens
  <2>5. Linked(Start(r))'
    <3>1. Linked(Start(r)) /\ gen[Start(r)] \in 0..MaxGens /\ gen[Start(r)] <= gens
      BY LinkFacts, TaskNames DEF Linked
    <3>2. gen[Start(r)] # 0 => gen[Start(r)] \in Gens
      BY <3>1, GensNat
    <3>3. ClientOf(Start(r))' = ClientOf(Start(r)) /\ pc'[Start(r)] = "reads"
      BY <2>1, <2>3, TaskNames DEF ClientOf
    <3> QED BY <2>1, <2>2, <2>4, <3>1, <3>2, <3>3 DEF Linked, Closers, Sending, Early
  <2> QED BY <2>1, <2>3, <2>4, <2>5, LinkedKept DEF TaskInv
<1>6. ASSUME NEW r \in Calls, SpawnFails(r) PROVE TaskInv'
  <2>1. UNCHANGED <<client, gens, of>>
    BY <1>6 DEF SpawnFails, Move, rest, callVars, linkVars
  <2>2. \A x \in Tasks : x # Start(r)
          => pc'[x] = pc[x] /\ gen'[x] = gen[x] /\ pending'[x] = pending[x]
    BY <1>6, LinkFacts, TaskNames DEF SpawnFails, Move, rest, callVars, linkVars
  <2>4. pc[Start(r)] \in {"spawns"} /\ UNCHANGED <<gen, pending>>
    BY <1>6 DEF SpawnFails, Move, rest, callVars
  <2>5. pc'[Start(r)] \in {"err"}
    BY <1>6, <2>4, LinkFacts, TaskNames DEF SpawnFails, Move
  <2>6. Linked(Start(r)) /\ ClientOf(Start(r))' = ClientOf(Start(r)) /\ Start(r) \in Tasks
    BY <2>1, LinkFacts, TaskNames DEF ClientOf
  <2>3. Linked(Start(r))'
    BY <2>1, <2>4, <2>5, <2>6 DEF Linked, Closers, Sending, Early
  <2> QED BY <2>1, <2>2, <2>3, TasksKept
<1>7. ASSUME NEW r \in Calls, Initialized(r) PROVE TaskInv'
  <2>1. UNCHANGED <<client, gens, of>>
    BY <1>7 DEF Initialized, callVars, rest, callVars, linkVars
  <2>2. \A x \in Tasks : x # Start(r)
          => pc'[x] = pc[x] /\ gen'[x] = gen[x] /\ pending'[x] = pending[x]
    BY <1>7, LinkFacts, TaskNames DEF Initialized, callVars, rest, callVars, linkVars
  <2>4. pc[Start(r)] \in {"answered"} /\ UNCHANGED pending /\ Start(r) \in Tasks
    BY <1>7, TaskNames DEF Initialized, callVars, rest
  <2>5. Linked(Start(r)) /\ pending[Start(r)] = 0 /\ pc[Start(r)] # "idle"
    BY <2>4, LinkFacts DEF Linked
  <2>6. \/ pc'[Start(r)] \in {"takes"} /\ gen'[Start(r)] = gen[Start(r)]
        \/ /\ pc'[Start(r)] \notin Early \cup {"waits"}
              /\ gen'[Start(r)] = process[ClientOf(Start(r))]
           /\ process[ClientOf(Start(r))] # 0
    BY <1>7, <2>4, <2>5, LinkFacts, AfterPlaces, Outcomes, TaskNames
       DEF Initialized, callVars, ClientOf, Early, Linked, Sending
  <2>8. ClientOf(Start(r))' = ClientOf(Start(r))
    BY <2>1 DEF ClientOf
  <2>7. ASSUME pc'[Start(r)] \in {"takes"}, gen'[Start(r)] = gen[Start(r)] PROVE Linked(Start(r))'
    BY <2>1, <2>4, <2>5, <2>7, <2>8, AfterPlaces, Outcomes, TaskNames
       DEF Linked, Closers, Sending, Early, ClientOf
  <2>3. Linked(Start(r))'
    BY <2>1, <2>4, <2>5, <2>6, <2>7, TakenLinks
  <2> QED BY <2>1, <2>2, <2>3, TasksKept
<1>8. ASSUME NEW r \in Calls, Answered(r) PROVE TaskInv'
  <2>1. UNCHANGED <<client, gens, of>>
    BY <1>8 DEF Answered, Move, rest, callVars, linkVars
  <2>2. \A x \in Tasks : x # Call(r)
          => pc'[x] = pc[x] /\ gen'[x] = gen[x] /\ pending'[x] = pending[x]
    BY <1>8, LinkFacts, TaskNames DEF Answered, Move, rest, callVars, linkVars
  <2>4. pc[Call(r)] \in {"answered"} /\ UNCHANGED <<gen, pending>>
    BY <1>8 DEF Answered, Move, rest, callVars
  <2>5. pc'[Call(r)] \in {"over"}
    BY <1>8, <2>4, LinkFacts, TaskNames DEF Answered, Move
  <2>6. Linked(Call(r)) /\ ClientOf(Call(r))' = ClientOf(Call(r)) /\ Call(r) \in Tasks
    BY <2>1, LinkFacts, TaskNames DEF ClientOf
  <2>3. Linked(Call(r))'
    BY <2>1, <2>4, <2>5, <2>6 DEF Linked, Closers, Sending, Early
  <2> QED BY <2>1, <2>2, <2>3, TasksKept
<1>9. ASSUME NEW r \in Calls, Recover(r) PROVE TaskInv'
  <2>1. UNCHANGED <<client, gens, of>>
    BY <1>9 DEF Recover, Taken, rest, callVars, linkVars
  <2>2. \A x \in Tasks : x # Call(r)
          => pc'[x] = pc[x] /\ gen'[x] = gen[x] /\ pending'[x] = pending[x]
    BY <1>9, LinkFacts, TaskNames DEF Recover, Taken, rest, callVars, linkVars
  <2>4. pc[Call(r)] \in {"recovers"} /\ UNCHANGED pending /\ Call(r) \in Tasks
    BY <1>9, TaskNames DEF Recover, Taken, rest
  <2>5. Linked(Call(r)) /\ pending[Call(r)] = 0 /\ pc[Call(r)] # "idle"
    BY <2>4, LinkFacts DEF Linked
  <2>6. \/ pc'[Call(r)] \in {"over"} /\ gen'[Call(r)] = gen[Call(r)]
        \/ /\ pc'[Call(r)] \notin Early \cup {"waits"} /\ gen'[Call(r)] = process[ClientOf(Call(r))]
           /\ process[ClientOf(Call(r))] # 0
    BY <1>9, <2>4, <2>5, LinkFacts, AfterPlaces, Outcomes, TaskNames
       DEF Recover, Taken, ClientOf, Early, Linked, Sending
  <2>8. ClientOf(Call(r))' = ClientOf(Call(r))
    BY <2>1 DEF ClientOf
  <2>7. ASSUME pc'[Call(r)] \in {"over"}, gen'[Call(r)] = gen[Call(r)] PROVE Linked(Call(r))'
    BY <2>1, <2>4, <2>5, <2>7, <2>8, AfterPlaces, Outcomes, TaskNames
       DEF Linked, Closers, Sending, Early, ClientOf
  <2>3. Linked(Call(r))'
    BY <2>1, <2>4, <2>5, <2>6, <2>7, TakenLinks
  <2> QED BY <2>1, <2>2, <2>3, TasksKept
<1>10. ASSUME NEW r \in Calls, NEW i \in Instances, Get(r, i) PROVE TaskInv'
  <2>1. UNCHANGED <<gen, pending, gens, of>> /\ pc[Call(r)] \in Early /\ pc'[Call(r)] \in Early
    BY <1>10, LinkFacts, TaskNames, RegTypes DEF Get, linkVars, Early
  <2>2. \A s \in Calls : s # r => client'[s] = client[s]
    BY <1>10 DEF Get, Inv1, Types, TaskTypes
  <2>3. gen[Call(r)] = 0 /\ gen[Start(r)] = 0 /\ pc[Start(r)] = "idle"
    <3>1. pc[Start(r)] = "idle"
      BY <2>1, TaskNames DEF Inv1, PlaceInv
    <3> QED BY <2>1, <3>1, LinkFacts, TaskNames DEF Linked, Early
  <2>4. ASSUME NEW t \in Tasks PROVE Linked(t)'
    <3>1. Linked(t)
      BY LinkFacts
    <3>2. gen[t] = 0 \/ ClientOf(t)' = ClientOf(t)
      <4>1. CASE t[1] \in {"call", "start"} /\ t[2] = r
        <5>1. t = Call(r) \/ t = Start(r)
          BY <4>1, TaskNames DEF Call, Start
        <5> QED BY <2>3, <5>1
      <4>2. CASE ~ (t[1] \in {"call", "start"} /\ t[2] = r)
        BY <2>2, <4>2, TaskNames DEF ClientOf
      <4> QED BY <4>1, <4>2
    <3>3. \/ pc'[t] = pc[t]
          \/ /\ pc'[t] \notin Closers \cup Sending \cup {"waits", "writes"}
             /\ pending[t] = 0 /\ (gen[t] = 0 \/ t[1] \notin {"call", "start"})
      <4>1. pc' = [pc EXCEPT ![Call(r)] = "got"]
            \/ \E j \in Instances : pc' = [pc EXCEPT ![Call(r)] = "replaces", ![<<"retire",
               j>>] = "locks"]

        BY <1>10, RegTypes DEF Get
      <4>2. ASSUME NEW j \in Instances PROVE pending[<<"retire", j>>] = 0
        <5>1. <<"retire", j>> \in Tasks /\ <<"retire", j>>[1] = "retire"
          BY TaskNames
        <5> QED BY <5>1, LinkFacts, Kinded DEF Linked
      <4>3. pending[Call(r)] = 0
        BY <2>1, LinkFacts, TaskNames DEF Linked, Early
      <4>4. \/ pc'[t] = pc[t]
            \/ t = Call(r) /\ pc'[t] \in {"got", "replaces"}
            \/ pc'[t] = "locks" /\ \E j \in Instances : t = <<"retire", j>>
        <5>1. CASE pc' = [pc EXCEPT ![Call(r)] = "got"]
          BY <5>1, LinkFacts
        <5>2. CASE \E j \in Instances : pc' = [pc EXCEPT ![Call(r)] = "replaces", ![<<"retire",
                j>>] = "locks"]
          BY <5>2, LinkFacts
        <5> QED BY <4>1, <5>1, <5>2
      <4> QED BY <2>3, <4>2, <4>3, <4>4 DEF Closers, Sending
    <3> QED BY <2>1, <3>1, <3>2, <3>3 DEF Linked
  <2> QED BY <2>4 DEF TaskInv
<1>11. ASSUME NEW t \in Tasks, ReadGeneration(t) PROVE TaskInv'
  <2>1. UNCHANGED <<client, gens, of>>
    BY <1>11 DEF ReadGeneration, rest, callVars, linkVars
  <2>2. \A x \in Tasks : x # t => pc'[x] = pc[x] /\ gen'[x] = gen[x] /\ pending'[x] = pending[x]
    BY <1>11, LinkFacts, TaskNames DEF ReadGeneration, rest, callVars, linkVars
  <2>4. pc[t] \in {"reads"} /\ UNCHANGED pending /\ t \in Tasks
    BY <1>11, TaskNames DEF ReadGeneration, rest
  <2>5. Linked(t) /\ pending[t] = 0 /\ pc[t] # "idle"
    BY <2>4, LinkFacts DEF Linked
  <2>6. \/ pc'[t] \in {Failed(t)} /\ gen'[t] = gen[t]
        \/ /\ pc'[t] \notin Early \cup {"waits"} /\ gen'[t] = process[ClientOf(t)]
           /\ process[ClientOf(t)] # 0
    BY <1>11, <2>4, <2>5, LinkFacts, AfterPlaces, Outcomes, TaskNames
       DEF ReadGeneration, ClientOf, Early, Linked, Sending
  <2>8. ClientOf(t)' = ClientOf(t)
    BY <2>1 DEF ClientOf
  <2>7. ASSUME pc'[t] \in {Failed(t)}, gen'[t] = gen[t] PROVE Linked(t)'
    BY <2>1, <2>4, <2>5, <2>7, <2>8, AfterPlaces, Outcomes, TaskNames
       DEF Linked, Closers, Sending, Early, ClientOf
  <2>3. Linked(t)'
    BY <2>1, <2>4, <2>5, <2>6, <2>7, TakenLinks
  <2> QED BY <2>1, <2>2, <2>3, TasksKept
<1>12. ASSUME NEW t \in Tasks, Send(t) PROVE TaskInv'
  <2>1. UNCHANGED <<client, gens, of>>
    BY <1>12 DEF Send, rest, callVars, linkVars
  <2>2. \A x \in Tasks : x # t => pc'[x] = pc[x] /\ gen'[x] = gen[x] /\ pending'[x] = pending[x]
    BY <1>12, LinkFacts, TaskNames DEF Send, rest, callVars, linkVars
  <2>4. pc[t] = "sends" /\ UNCHANGED gen
    BY <1>12 DEF Send, rest
  <2>5. \/ pc'[t] \in {"waits", "writes"} /\ pending'[t] = gen[t]
        \/ pc'[t] = Failed(t) /\ pending'[t] = pending[t]
    BY <1>12, LinkFacts DEF Send
  <2>3. Linked(t)'
    BY <2>1, <2>4, <2>5, LinkFacts, Outcomes DEF Linked, Closers, Sending, Early, ClientOf
  <2> QED BY <2>1, <2>2, <2>3, TasksKept
<1>13. ASSUME NEW t \in Tasks, WriteFails(t) PROVE TaskInv'
  <2>1. UNCHANGED <<client, gens, of>>
    BY <1>13 DEF WriteFails, Move, rest, callVars, linkVars
  <2>2. \A x \in Tasks : x # t => pc'[x] = pc[x] /\ gen'[x] = gen[x] /\ pending'[x] = pending[x]
    BY <1>13, LinkFacts, TaskNames DEF WriteFails, Move, rest, callVars, linkVars
  <2>4. pc[t] \in {"writes"} /\ UNCHANGED gen
    BY <1>13 DEF WriteFails, Move, rest
  <2>5. pc'[t] \in {Failed(t)} /\ pending'[t] = 0
    BY <1>13, LinkFacts, GensNat DEF WriteFails, Move
  <2>3. Linked(t)'
    BY <2>1, <2>4, <2>5, LinkFacts, Outcomes DEF Linked, Closers, Sending, Early, ClientOf
  <2> QED BY <2>1, <2>2, <2>3, TasksKept
<1>14. ASSUME NEW t \in Tasks, NoticeWrite(t) PROVE TaskInv'
  <2>1. UNCHANGED <<client, gens, of>>
    BY <1>14 DEF NoticeWrite, Move, rest, callVars, linkVars
  <2>2. \A x \in Tasks : x # t => pc'[x] = pc[x] /\ gen'[x] = gen[x] /\ pending'[x] = pending[x]
    BY <1>14, LinkFacts, TaskNames DEF NoticeWrite, Move, rest, callVars, linkVars
  <2>4. pc[t] \in {"writes"} /\ UNCHANGED gen
    BY <1>14 DEF NoticeWrite, Move, rest
  <2>5. pc'[t] \in {Failed(t)} /\ pending'[t] = 0
    BY <1>14, LinkFacts, GensNat DEF NoticeWrite, Move
  <2>3. Linked(t)'
    BY <2>1, <2>4, <2>5, LinkFacts, Outcomes DEF Linked, Closers, Sending, Early, ClientOf
  <2> QED BY <2>1, <2>2, <2>3, TasksKept
<1>15. ASSUME NEW t \in Tasks, Timeout(t) PROVE TaskInv'
  <2>1. UNCHANGED <<client, gens, of>>
    BY <1>15 DEF Timeout, rest, callVars, linkVars
  <2>2. \A x \in Tasks : x # t => pc'[x] = pc[x] /\ gen'[x] = gen[x] /\ pending'[x] = pending[x]
    BY <1>15, LinkFacts, TaskNames DEF Timeout, rest, callVars, linkVars
  <2>4. pc[t] \in {"waits", "writes"} /\ UNCHANGED gen
    BY <1>15 DEF Timeout, rest
  <2>5. pc'[t] \in {Failed(t), "recovers"} /\ pending'[t] = 0
    BY <1>15, LinkFacts, GensNat DEF Timeout
  <2>3. Linked(t)'
    BY <2>1, <2>4, <2>5, LinkFacts, Outcomes DEF Linked, Closers, Sending, Early, ClientOf
  <2> QED BY <2>1, <2>2, <2>3, TasksKept
<1>16. ASSUME NEW t \in Tasks, Take(t) PROVE TaskInv'
  <2>1. UNCHANGED <<client, gens, of>>
    BY <1>16 DEF Take, Taken, rest, callVars, linkVars
  <2>2. \A x \in Tasks : x # t => pc'[x] = pc[x] /\ gen'[x] = gen[x] /\ pending'[x] = pending[x]
    BY <1>16, LinkFacts, TaskNames DEF Take, Taken, rest, callVars, linkVars
  <2>4. pc[t] \in {"takes"} /\ UNCHANGED pending /\ t \in Tasks
    BY <1>16, TaskNames DEF Take, Taken, rest
  <2>5. Linked(t) /\ pending[t] = 0 /\ pc[t] # "idle"
    BY <2>4, LinkFacts DEF Linked
  <2>6. \/ pc'[t] \in {After(t)} /\ gen'[t] = gen[t]
        \/ /\ pc'[t] \notin Early \cup {"waits"} /\ gen'[t] = process[ClientOf(t)]
           /\ process[ClientOf(t)] # 0
    BY <1>16, <2>4, <2>5, LinkFacts, AfterPlaces, Outcomes, TaskNames
       DEF Take, Taken, ClientOf, Early, Linked, Sending
  <2>8. ClientOf(t)' = ClientOf(t)
    BY <2>1 DEF ClientOf
  <2>7. ASSUME pc'[t] \in {After(t)}, gen'[t] = gen[t] PROVE Linked(t)'
    BY <2>1, <2>4, <2>5, <2>7, <2>8, AfterPlaces, Outcomes, TaskNames
       DEF Linked, Closers, Sending, Early, ClientOf
  <2>3. Linked(t)'
    BY <2>1, <2>4, <2>5, <2>6, <2>7, TakenLinks
  <2> QED BY <2>1, <2>2, <2>3, TasksKept
<1>17. ASSUME NEW t \in Tasks, FailPending(t) PROVE TaskInv'
  <2>1. UNCHANGED <<client, gens, of, gen>> /\ pc[t] = "fails" /\ pending' = Without(gen[t])
    BY <1>17 DEF FailPending, rest, callVars, linkVars
  <2>2. \A x \in Tasks : x # t => pc'[x] = Failing(gen[t])[x] /\ pending'[x] = Without(gen[t])[x]
    BY <1>17, FailingTypes DEF FailPending, Inv1, Types
  <2>3. pc'[t] = "kills" /\ pending'[t] = 0
    BY <1>17, <2>1, FailingTypes, LinkFacts DEF FailPending, Inv1, Types, Linked
  <2>4. Linked(t)'
    BY <2>1, <2>3, LinkFacts DEF Linked, Closers, Sending, Early, ClientOf
  <2>5. \A x \in Tasks : x = t \/ Linked(x)'
    BY <2>1, <2>2, FailingLinks
  <2> QED BY <2>1, <2>4, <2>5, TasksKept
<1>18. ASSUME NEW t \in Tasks, Terminate(t) PROVE TaskInv'
  <2>1. UNCHANGED <<client, gens, of>>
    BY <1>18 DEF Terminate, Move, rest, callVars, linkVars
  <2>2. \A x \in Tasks : x # t => pc'[x] = pc[x] /\ gen'[x] = gen[x] /\ pending'[x] = pending[x]
    BY <1>18, LinkFacts, TaskNames DEF Terminate, Move, rest, callVars, linkVars
  <2>4. pc[t] \in {"kills", "clears"} /\ UNCHANGED <<gen, pending>>
    BY <1>18 DEF Terminate, Move, rest, callVars
  <2>5. pc'[t] \in {"joins", "awaits"}
    BY <1>18, <2>4, LinkFacts, TaskNames DEF Terminate, Move
  <2>6. Linked(t) /\ ClientOf(t)' = ClientOf(t) /\ t \in Tasks
    BY <2>1, LinkFacts, TaskNames DEF ClientOf
  <2>3. Linked(t)'
    BY <2>1, <2>4, <2>5, <2>6 DEF Linked, Closers, Sending, Early
  <2> QED BY <2>1, <2>2, <2>3, TasksKept
<1>19. ASSUME NEW t \in Tasks, Join(t) PROVE TaskInv'
  <2>1. UNCHANGED <<client, gens, of>>
    BY <1>19 DEF Join, rest, callVars, linkVars
  <2>2. \A x \in Tasks : x # t => pc'[x] = pc[x] /\ gen'[x] = gen[x] /\ pending'[x] = pending[x]
    BY <1>19, LinkFacts, TaskNames DEF Join, rest, callVars, linkVars
  <2>4. pc[t] \in {"joins", "awaits"} /\ UNCHANGED <<gen, pending>>
    BY <1>19 DEF Join, rest, callVars
  <2>5. pc'[t] \in IF pc[t] = "awaits" THEN {"spawns"} ELSE {After(t)}
    BY <1>19, <2>4, LinkFacts, TaskNames, AfterPlaces DEF Join
  <2>6. Linked(t) /\ ClientOf(t)' = ClientOf(t) /\ t \in Tasks
    BY <2>1, LinkFacts, TaskNames DEF ClientOf
  <2>3. Linked(t)'
    BY <2>1, <2>4, <2>5, <2>6, AfterPlaces DEF Linked, Closers, Sending, Early
  <2> QED BY <2>1, <2>2, <2>3, TasksKept
<1>20. ASSUME NEW t \in Tasks, StopDaemon(t) PROVE TaskInv'
  <2>1. UNCHANGED <<client, gens, of>>
    BY <1>20 DEF StopDaemon, Move, rest, callVars, linkVars
  <2>2. \A x \in Tasks : x # t => pc'[x] = pc[x] /\ gen'[x] = gen[x] /\ pending'[x] = pending[x]
    BY <1>20, LinkFacts, TaskNames DEF StopDaemon, Move, rest, callVars, linkVars
  <2>4. pc[t] \in {"stops"} /\ UNCHANGED <<gen, pending>>
    BY <1>20 DEF StopDaemon, Move, rest, callVars
  <2>5. pc'[t] \in {"over"}
    BY <1>20, <2>4, LinkFacts, TaskNames DEF StopDaemon, Move
  <2>6. Linked(t) /\ ClientOf(t)' = ClientOf(t) /\ t \in Tasks
    BY <2>1, LinkFacts, TaskNames DEF ClientOf
  <2>3. Linked(t)'
    BY <2>1, <2>4, <2>5, <2>6 DEF Linked, Closers, Sending, Early
  <2> QED BY <2>1, <2>2, <2>3, TasksKept
<1>21. ASSUME NEW i \in Instances, Kill(i) PROVE TaskInv'
  <2>1. UNCHANGED <<client, gens, of>>
    BY <1>21 DEF Kill, Taken, rest, callVars, linkVars
  <2>2. \A x \in Tasks : x # <<"kill", i>>
          => pc'[x] = pc[x] /\ gen'[x] = gen[x] /\ pending'[x] = pending[x]
    BY <1>21, LinkFacts, TaskNames DEF Kill, Taken, rest, callVars, linkVars
  <2>4. UNCHANGED pending /\ process[i] # 0 /\ <<"kill", i>> \in Tasks /\ pc[<<"kill", i>>] = "idle"
    BY <1>21, TaskNames DEF Kill
  <2>5. /\ pc'[<<"kill", i>>] = "fails" /\ gen'[<<"kill", i>>] = process[i]
        /\ ClientOf(<<"kill", i>>)' = i /\ pending[<<"kill", i>>] = 0
    BY <1>21, <2>4, LinkFacts DEF Kill, Taken, ClientOf, Linked
  <2>6. process[i] <= gens /\ of[process[i]] = i
    BY <2>4 DEF Inv1, ProcessInv
  <2>3. Linked(<<"kill", i>>)'
    BY <2>1, <2>4, <2>5, <2>6 DEF Linked, Early
  <2> QED BY <2>1, <2>2, <2>3, TasksKept
<1>22. ASSUME NEW i \in Instances, EvictChecks(i) PROVE TaskInv'
  <2>1. UNCHANGED <<client, gens, of>>
    BY <1>22 DEF EvictChecks, Move, callVars, linkVars, rest, callVars, linkVars
  <2>2. \A x \in Tasks : x # <<"evict", i>>
          => pc'[x] = pc[x] /\ gen'[x] = gen[x] /\ pending'[x] = pending[x]
    BY <1>22, LinkFacts, TaskNames
       DEF EvictChecks, Move, callVars, linkVars, rest, callVars, linkVars
  <2>4. pc[<<"evict", i>>] \in {"idle"} /\ UNCHANGED <<gen, pending>>
    BY <1>22 DEF EvictChecks, Move, callVars, linkVars, rest, callVars
  <2>5. pc'[<<"evict", i>>] \in {"takes"}
    BY <1>22, <2>4, LinkFacts, TaskNames DEF EvictChecks, Move, callVars, linkVars
  <2>6. Linked(<<"evict", i>>) /\ ClientOf(<<"evict", i>>)' = ClientOf(<<"evict", i>>)
          /\ <<"evict", i>> \in Tasks
    BY <2>1, LinkFacts, TaskNames DEF ClientOf
  <2>3. Linked(<<"evict", i>>)'
    BY <2>1, <2>4, <2>5, <2>6 DEF Linked, Closers, Sending, Early
  <2> QED BY <2>1, <2>2, <2>3, TasksKept
<1>23. ASSUME NEW i \in Instances, RetireLocks(i) PROVE TaskInv'
  <2>1. UNCHANGED <<client, gens, of>>
    BY <1>23 DEF RetireLocks, Move, callVars, linkVars, rest, callVars, linkVars
  <2>2. \A x \in Tasks : x # <<"retire", i>>
          => pc'[x] = pc[x] /\ gen'[x] = gen[x] /\ pending'[x] = pending[x]
    BY <1>23, LinkFacts, TaskNames
       DEF RetireLocks, Move, callVars, linkVars, rest, callVars, linkVars
  <2>4. pc[<<"retire", i>>] \in {"locks"} /\ UNCHANGED <<gen, pending>>
    BY <1>23 DEF RetireLocks, Move, callVars, linkVars, rest, callVars
  <2>5. pc'[<<"retire", i>>] \in {"takes"}
    BY <1>23, <2>4, LinkFacts, TaskNames DEF RetireLocks, Move, callVars, linkVars
  <2>6. Linked(<<"retire", i>>) /\ ClientOf(<<"retire", i>>)' = ClientOf(<<"retire", i>>)
          /\ <<"retire", i>> \in Tasks
    BY <2>1, LinkFacts, TaskNames DEF ClientOf
  <2>3. Linked(<<"retire", i>>)'
    BY <2>1, <2>4, <2>5, <2>6 DEF Linked, Closers, Sending, Early
  <2> QED BY <2>1, <2>2, <2>3, TasksKept
<1>24. ASSUME NEW g \in 1..gens, FailFirst(g) PROVE TaskInv'
  <2>1. UNCHANGED <<client, gens, of, gen>>
    BY <1>24 DEF FailFirst, rest, callVars, linkVars
  <2>2. UNCHANGED <<pc, pending>> \/ (pc' = Failing(g) /\ pending' = Without(g))
    BY <1>24 DEF FailFirst
  <2> QED BY <2>1, <2>2, FailingLinks, TasksKept
<1>25. ASSUME NEW g \in 1..gens, Finalize(g) PROVE TaskInv'
  <2>1. UNCHANGED <<client, gens, of, gen>>
    BY <1>25 DEF Finalize, rest, callVars, linkVars
  <2>2. UNCHANGED <<pc, pending>> \/ (pc' = Failing(g) /\ pending' = Without(g))
    BY <1>25 DEF Finalize
  <2> QED BY <2>1, <2>2, FailingLinks, TasksKept
<1>26. ASSUME NEW g \in 1..gens, ReadLine(g) PROVE TaskInv'
  <2>1. UNCHANGED <<client, gens, of, gen>>
    BY <1>26 DEF ReadLine, rest, callVars, linkVars
  <2>2. g \in Gens /\ lines[g] # <<>>
    BY <1>26, GensGiven DEF ReadLine
  <2>3. PICK t \in Tasks : \/ UNCHANGED <<pc, pending>>
                         \/ /\ pending[t] # 0 /\ pc' = [pc EXCEPT ![t] = "answered"]
                            /\ pending' = [pending EXCEPT ![t] = 0]
    BY <1>26, <2>2, Lines0 DEF ReadLine
  <2>4. CASE UNCHANGED <<pc, pending>>
    BY <2>1, <2>4, TasksKept
  <2>5. CASE /\ pending[t] # 0 /\ pc' = [pc EXCEPT ![t] = "answered"]
             /\ pending' = [pending EXCEPT ![t] = 0]
    <3>1. \A x \in Tasks : x # t => pc'[x] = pc[x] /\ pending'[x] = pending[x]
      BY <2>5, LinkFacts
    <3>2. pc'[t] = "answered" /\ pending'[t] = 0
      BY <2>5, LinkFacts
    <3>3. Linked(t)'
      BY <2>1, <3>2, LinkFacts DEF Linked, Closers, Sending, Early, ClientOf
    <3> QED BY <2>1, <3>1, <3>3, TasksKept
  <2> QED BY <2>3, <2>4, <2>5
<1>27. ASSUME UNCHANGED <<pc, gen, pending, client, gens, of>> PROVE TaskInv'
  BY <1>27 DEF Inv1, TaskInv, Linked, ClientOf
<1>28. ASSUME NEW r \in Calls,
       Completes(r)
      PROVE TaskInv'
  BY <1>28, <1>27 DEF Completes, rest, callVars, linkVars
<1>29. ASSUME NEW g \in 1..gens,
       Notice(g) \/ ShutsDown(g) \/ Drained(g) \/ Exits(g) \/ Drops(g)
      PROVE TaskInv'
  BY <1>29, <1>27 DEF Notice, rest, callVars, linkVars, ShutsDown, Drained, Exits, Drops
<1>30. ASSUME NEW g \in 1..gens, NEW t \in Tasks,
       Accept(g, t)
      PROVE TaskInv'
  BY <1>30, <1>27 DEF Accept, rest, callVars, linkVars
<1> QED BY <1>1, <1>2, <1>3, <1>4, <1>5, <1>6, <1>7, <1>8, <1>9, <1>10, <1>11, <1>12, <1>13,
           <1>14, <1>15, <1>16, <1>17, <1>18, <1>19, <1>20, <1>21, <1>22, <1>23, <1>24,
           <1>25, <1>26, <1>27, <1>28, <1>29, <1>30 DEF Next, vars

\* The types and the links between the tables are kept by every step.
LEMMA Inv1Step ==
  ASSUME Inv1, [Next]_vars
  PROVE  Inv1'
  BY TaskTypesStep, RegistryTypesStep, ProcessTypesStep, SupTypesStep, LinkTypesStep,
     SlotTypesStep, GhostTypesStep,
     PastTypesStep, FlowTypesStep, LineInvStep, PlaceInvStep, ProcessInvStep, FutureInvStep,
     TaskInvStep DEF Inv1, Types

(* Every state reachable by the pool has the types of TypeOK: in particular  *)
(* no more permits of process_slots are out than max_processes, and a queue  *)
(* of `pending` names generations that were given out.                       *)
THEOREM TypeCorrectness == Spec => []TypeOK
<1>1. Init => Inv1
  BY InitInv1
<1>2. Inv1 /\ [Next]_vars => Inv1'
  BY Inv1Step
<1>3. Inv1 => TypeOK
  BY TypesOK DEF Inv1
<1> QED BY <1>1, <1>2, <1>3, PTL DEF Spec

-------------------------------------------------------------------------------
(* The mechanisms.                                                         *)


\* A process that is connected runs and is supervised; a write that was queued is not sent.
UpInv == \A g \in up : g \in Gens /\ g \notin dead /\ sup[g] = "on"
WriteInv == \A t \in Tasks : pc[t] = "writes" => gen[t] \notin up

\* The variables are functions.
LEMMA Functions1 ==
  ASSUME Inv1
  PROVE  /\ pc \in [Tasks -> Steps] /\ gen \in [Tasks -> 0..MaxGens]
            /\ pending \in [Tasks -> 0..MaxGens]
         /\ client \in [Calls -> Instances \cup {None}] /\ kind \in [Calls -> Kinds \cup {None}]
         /\ process \in [Instances -> 0..MaxGens] /\ active \in [Instances -> SUBSET Calls]
         /\ start_lock \in [Instances -> Calls \cup {None}]
         /\ SupTypes /\ of \in [Gens -> Instances \cup {None}]
         /\ registry \in [Keys -> Instances \cup {None}]
  BY DEF Inv1, Types, TaskTypes, ProcessTypes, RegistryTypes, LinkTypes

\* What a failed process loses.
LEMMA EndsUp ==
  ASSUME NEW G, Ends(G)
  PROVE  up' = up \ G /\ dead' = dead \cup G
  BY DEF Ends
\* A connection that breaks changes its own supervisor only.
LEMMA BreaksSup ==
  ASSUME Inv1, NEW g \in Gens, NEW to, Breaks(g, to)
  PROVE  sup'[g] = to /\ \A h \in Gens : h # g => sup'[h] = sup[h]
<1>1. sup' = [sup EXCEPT ![g] = to]
  BY BreaksTypes
<1>2. DOMAIN sup = Gens
  BY DEF Inv1, Types, SupTypes
<1> QED BY <1>1, <1>2

\* UpInv is kept.
LEMMA UpInvStep ==
  ASSUME Inv1, UpInv, WriteInv, [Next]_vars
  PROVE  UpInv'
<1>1. ASSUME NEW r \in Calls, Spawn(r) PROVE UpInv'
  <2>1. gens + 1 \in Gens /\ gens + 1 \notin dead /\ UNCHANGED dead
    BY <1>1, GensNat DEF Spawn, Inv1, FutureInv, Unused
  <2>2. up' = up \cup {gens + 1} /\ sup' = [sup EXCEPT ![gens + 1] = "on"]
    BY <1>1 DEF Spawn, Opens
  <2> QED BY <2>1, <2>2, Functions1 DEF UpInv, SupTypes
<1>2. ASSUME NEW t \in Tasks, NoticeWrite(t) PROVE UpInv'
  <2>0. pc[t] = "writes"
    BY <1>2 DEF NoticeWrite, Move
  <2>3. gen[t] \in Gens
    BY <2>0, Bound DEF Sending
  <2>1. gen[t] \in Gens /\ gen[t] \notin up' /\ up' \subseteq up /\ UNCHANGED dead
    BY <1>2, GensGiven, <2>0, <2>3 DEF NoticeWrite, worldVars, WriteInv
  <2>2. \A h \in Gens : h # gen[t] => sup'[h] = sup[h]
    BY <1>2, <2>1, BreaksSup DEF NoticeWrite
  <2> QED BY <2>1, <2>2 DEF UpInv
<1>3. ASSUME NEW t \in Tasks, Terminate(t) PROVE UpInv'
  <2>1. UNCHANGED sup /\ (UNCHANGED <<up, dead>> \/ \E G : Ends(G))
    BY <1>3 DEF Terminate, worldVars
  <2> QED BY <2>1, EndsUp DEF UpInv
<1>4. ASSUME NEW t \in Tasks, Join(t) PROVE UpInv'
  <2>3. gen[t] \in Gens
    BY <1>4, Bound DEF Join, Closers
  <2>1. gen[t] \in Gens /\ gen[t] \notin up' /\ up' \subseteq up /\ UNCHANGED dead
    BY <1>4, GensGiven, <2>3 DEF Join, worldVars, WriteInv
  <2>2. \A h \in Gens : h # gen[t] => sup'[h] = sup[h]
    BY <1>4, <2>1, BreaksSup DEF Join
  <2> QED BY <2>1, <2>2 DEF UpInv
<1>5. ASSUME NEW t \in Tasks, StopDaemon(t) PROVE UpInv'
  <2>1. UNCHANGED sup /\ (UNCHANGED <<up, dead>> \/ \E G : Ends(G))
    BY <1>5 DEF StopDaemon, worldVars
  <2> QED BY <2>1, EndsUp DEF UpInv
<1>6. ASSUME NEW g \in 1..gens, Notice(g) PROVE UpInv'
  <2>1. g \in Gens /\ g \notin up' /\ up' \subseteq up /\ UNCHANGED dead
    BY <1>6, GensGiven DEF Notice, worldVars, WriteInv
  <2>2. \A h \in Gens : h # g => sup'[h] = sup[h]
    BY <1>6, <2>1, BreaksSup DEF Notice
  <2> QED BY <2>1, <2>2 DEF UpInv
<1>7. ASSUME NEW g \in 1..gens, ShutsDown(g) PROVE UpInv'
  <2>1. g \in Gens /\ g \notin up' /\ up' \subseteq up /\ UNCHANGED dead
    BY <1>7, GensGiven DEF ShutsDown, worldVars, WriteInv
  <2>2. \A h \in Gens : h # g => sup'[h] = sup[h]
    BY <1>7, <2>1, BreaksSup DEF ShutsDown
  <2> QED BY <2>1, <2>2 DEF UpInv
<1>8. ASSUME NEW g \in 1..gens, FailFirst(g) PROVE UpInv'
  BY <1>8, Functions1, GensGiven DEF FailFirst, worldVars, UpInv, SupTypes
<1>9. ASSUME NEW g \in 1..gens, Finalize(g) PROVE UpInv'
  BY <1>9, Functions1, GensGiven DEF Finalize, worldVars, UpInv, SupTypes
<1>10. ASSUME NEW g \in 1..gens, Drained(g) PROVE UpInv'
  BY <1>10, Functions1, GensGiven DEF Drained, worldVars, UpInv, SupTypes
<1>11. ASSUME NEW g \in 1..gens, Exits(g) PROVE UpInv'
  <2>1. UNCHANGED sup /\ (UNCHANGED <<up, dead>> \/ \E G : Ends(G))
    BY <1>11 DEF Exits, worldVars
  <2> QED BY <2>1, EndsUp DEF UpInv
<1>12. ASSUME NEW g \in 1..gens, Drops(g) PROVE UpInv'
  BY <1>12, Functions1, GensGiven DEF Drops, UpInv, SupTypes
<1>13. ASSUME UNCHANGED <<up, dead, sup>> PROVE UpInv'
  BY <1>13 DEF UpInv, SupTypes
<1>14. ASSUME NEW r \in Calls,
       Replaced(r) \/ Enter(r) \/ Started(r) \/ StartCheck(r) \/ SpawnFails(r) \/
       Initialized(r) \/ Answered(r) \/ Recover(r) \/ Completes(r)
      PROVE UpInv'
  BY <1>14, <1>13 DEF Replaced, worldVars, Enter, Started, StartCheck, SpawnFails,
                      Initialized, Answered, Recover, Completes
<1>15. ASSUME NEW r \in Calls, NEW i \in Instances,
       Get(r, i)
      PROVE UpInv'
  BY <1>15, <1>13 DEF Get, worldVars
<1>16. ASSUME NEW t \in Tasks,
       ReadGeneration(t) \/ Send(t) \/ WriteFails(t) \/ Timeout(t) \/ Take(t) \/
       FailPending(t)
      PROVE UpInv'
  BY <1>16, <1>13 DEF ReadGeneration, worldVars, Send, WriteFails, Timeout, Take, FailPending
<1>17. ASSUME NEW i \in Instances,
       Kill(i) \/ EvictChecks(i) \/ RetireLocks(i)
      PROVE UpInv'
  BY <1>17, <1>13 DEF Kill, worldVars, EvictChecks, RetireLocks
<1>18. ASSUME NEW g \in 1..gens,
       ReadLine(g)
      PROVE UpInv'
  BY <1>18, <1>13 DEF ReadLine, worldVars
<1>19. ASSUME NEW g \in 1..gens, NEW t \in Tasks,
       Accept(g, t)
      PROVE UpInv'
  BY <1>19, <1>13 DEF Accept
<1> QED BY <1>1, <1>2, <1>3, <1>4, <1>5, <1>6, <1>7, <1>8, <1>9, <1>10, <1>11, <1>12, <1>13,
           <1>14, <1>15, <1>16, <1>17, <1>18, <1>19 DEF Next, vars

\* WriteInv is kept.
LEMMA WriteInvStep ==
  ASSUME Inv1, UpInv, WriteInv, [Next]_vars
  PROVE  WriteInv'
<1>1. ASSUME NEW r \in Calls, Replaced(r) PROVE WriteInv'
  BY <1>1, Functions1, GensGiven, Outcomes, RegTypes DEF Replaced, worldVars, WriteInv
<1>2. ASSUME NEW r \in Calls, Enter(r) PROVE WriteInv'
  BY <1>2, Functions1, GensGiven, Outcomes, RegTypes DEF Enter, worldVars, WriteInv
<1>3. ASSUME NEW r \in Calls, Started(r) PROVE WriteInv'
  BY <1>3, Functions1, GensGiven, Outcomes, RegTypes DEF Started, worldVars, WriteInv
<1>4. ASSUME NEW r \in Calls, StartCheck(r) PROVE WriteInv'
  BY <1>4, Functions1, GensGiven, Outcomes, RegTypes DEF StartCheck, worldVars, WriteInv
<1>5. ASSUME NEW r \in Calls, Spawn(r) PROVE WriteInv'
  <2>1. gens + 1 \in Gens /\ up' = up \cup {gens + 1} /\ UNCHANGED gen
    BY <1>5, GensNat DEF Spawn, Opens, callVars
  <2>2. \A x \in Tasks : pc'[x] = "writes" => pc[x] = "writes" /\ gen[x] # gens + 1
    BY <1>5, Functions1, LinkFacts DEF Spawn, Linked
  <2> QED BY <2>1, <2>2 DEF WriteInv
<1>6. ASSUME NEW r \in Calls, SpawnFails(r) PROVE WriteInv'
  BY <1>6, Functions1, GensGiven, Outcomes, RegTypes DEF SpawnFails, Move, worldVars,
                                                         WriteInv
<1>7. ASSUME NEW r \in Calls, Initialized(r) PROVE WriteInv'
  BY <1>7, Functions1, GensGiven, Outcomes, RegTypes DEF Initialized, worldVars, WriteInv
<1>8. ASSUME NEW r \in Calls, Answered(r) PROVE WriteInv'
  BY <1>8, Functions1, GensGiven, Outcomes, RegTypes DEF Answered, Move, worldVars, WriteInv
<1>9. ASSUME NEW r \in Calls, Recover(r) PROVE WriteInv'
  BY <1>9, Functions1, GensGiven, Outcomes, RegTypes DEF Recover, Taken, worldVars, WriteInv
<1>10. ASSUME NEW r \in Calls, NEW i \in Instances, Get(r, i) PROVE WriteInv'
  BY <1>10, Functions1, GensGiven, Outcomes, RegTypes DEF Get, worldVars, WriteInv
<1>11. ASSUME NEW t \in Tasks, ReadGeneration(t) PROVE WriteInv'
  BY <1>11, Functions1, GensGiven, Outcomes, RegTypes DEF ReadGeneration, worldVars, WriteInv
<1>12. ASSUME NEW t \in Tasks, Send(t) PROVE WriteInv'
  <2>1. UNCHANGED <<gen, up>> /\ \A x \in Tasks : x # t => pc'[x] = pc[x]
    BY <1>12, Functions1 DEF Send, rest
  <2>2. pc'[t] = "writes" => gen[t] \notin up
    BY <1>12, Functions1, UpInv, Outcomes DEF Send, UpInv
  <2> QED BY <2>1, <2>2 DEF WriteInv
<1>13. ASSUME NEW t \in Tasks, WriteFails(t) PROVE WriteInv'
  BY <1>13, Functions1, GensGiven, Outcomes, RegTypes DEF WriteFails, Move, worldVars,
                                                          WriteInv
<1>14. ASSUME NEW t \in Tasks, NoticeWrite(t) PROVE WriteInv'
  BY <1>14, Functions1, GensGiven, Outcomes, RegTypes DEF NoticeWrite, Move, worldVars,
                                                          WriteInv
<1>15. ASSUME NEW t \in Tasks, Timeout(t) PROVE WriteInv'
  BY <1>15, Functions1, GensGiven, Outcomes, RegTypes DEF Timeout, worldVars, WriteInv
<1>16. ASSUME NEW t \in Tasks, Take(t) PROVE WriteInv'
  BY <1>16, Functions1, GensGiven, Outcomes, RegTypes DEF Take, Taken, worldVars, WriteInv
<1>17. ASSUME NEW t \in Tasks, FailPending(t) PROVE WriteInv'
  <2>1. UNCHANGED <<gen, up>> /\ \A x \in Tasks : pc'[x] = "kills" \/ pc'[x] = Failing(gen[t])[x]
    BY <1>17, FailingTypes DEF FailPending, worldVars, Inv1, Types
  <2> QED BY <2>1, FailingTypes, Outcomes DEF WriteInv, Inv1, Types
<1>18. ASSUME NEW t \in Tasks, Terminate(t) PROVE WriteInv'
  <2>1. UNCHANGED gen /\ (UNCHANGED up \/ \E G : Ends(G))
    BY <1>18 DEF Terminate, worldVars, callVars, rest
  <2>2. \A x \in Tasks : pc'[x] = "writes" => pc[x] = "writes"
    BY <1>18, Functions1 DEF Terminate, Move
  <2> QED BY <2>1, <2>2, EndsUp DEF WriteInv
<1>19. ASSUME NEW t \in Tasks, Join(t) PROVE WriteInv'
  BY <1>19, Functions1, GensGiven, Outcomes, RegTypes DEF Join, WriteInv
<1>20. ASSUME NEW t \in Tasks, StopDaemon(t) PROVE WriteInv'
  <2>1. UNCHANGED gen /\ (UNCHANGED up \/ \E G : Ends(G))
    BY <1>20 DEF StopDaemon, worldVars, callVars, rest
  <2>2. \A x \in Tasks : pc'[x] = "writes" => pc[x] = "writes"
    BY <1>20, Functions1 DEF StopDaemon, Move
  <2> QED BY <2>1, <2>2, EndsUp DEF WriteInv
<1>21. ASSUME NEW i \in Instances, Kill(i) PROVE WriteInv'
  BY <1>21, Functions1, GensGiven, Outcomes, RegTypes DEF Kill, Taken, worldVars, WriteInv
<1>22. ASSUME NEW i \in Instances, EvictChecks(i) PROVE WriteInv'
  BY <1>22, Functions1, GensGiven, Outcomes, RegTypes DEF EvictChecks, Move, worldVars,
                                                          WriteInv
<1>23. ASSUME NEW i \in Instances, RetireLocks(i) PROVE WriteInv'
  BY <1>23, Functions1, GensGiven, Outcomes, RegTypes DEF RetireLocks, Move, worldVars,
                                                          WriteInv
<1>24. ASSUME NEW g \in 1..gens, ShutsDown(g) PROVE WriteInv'
  BY <1>24, Functions1, GensGiven, Outcomes, RegTypes DEF ShutsDown, WriteInv
<1>25. ASSUME NEW g \in 1..gens, FailFirst(g) PROVE WriteInv'
  <2>1. UNCHANGED <<gen, up>> /\ (UNCHANGED pc \/ pc' = Failing(g))
    BY <1>25 DEF FailFirst, worldVars
  <2> QED BY <2>1, FailingTypes, Outcomes DEF WriteInv, Inv1, Types
<1>26. ASSUME NEW g \in 1..gens, Finalize(g) PROVE WriteInv'
  <2>1. UNCHANGED <<gen, up>> /\ (UNCHANGED pc \/ pc' = Failing(g))
    BY <1>26 DEF Finalize, worldVars
  <2> QED BY <2>1, FailingTypes, Outcomes DEF WriteInv, Inv1, Types
<1>27. ASSUME NEW g \in 1..gens, ReadLine(g) PROVE WriteInv'
  BY <1>27, Functions1, GensGiven, Outcomes, RegTypes DEF ReadLine, worldVars, WriteInv
<1>28. ASSUME NEW g \in 1..gens, Exits(g) PROVE WriteInv'
  <2>1. UNCHANGED gen /\ (UNCHANGED up \/ \E G : Ends(G))
    BY <1>28 DEF Exits, worldVars, callVars, rest
  <2>2. \A x \in Tasks : pc'[x] = "writes" => pc[x] = "writes"
    BY <1>28, Functions1 DEF Exits, Move
  <2> QED BY <2>1, <2>2, EndsUp DEF WriteInv
<1>29. ASSUME NEW g \in 1..gens, Drops(g) PROVE WriteInv'
  BY <1>29, Functions1, GensGiven, Outcomes, RegTypes DEF Drops, WriteInv
<1>30. ASSUME UNCHANGED <<pc, gen, up>> PROVE WriteInv'
  BY <1>30 DEF WriteInv
<1>31. ASSUME NEW r \in Calls,
       Completes(r)
      PROVE WriteInv'
  BY <1>31, <1>30 DEF Completes
<1>32. ASSUME NEW g \in 1..gens,
       Notice(g) \/ Drained(g)
      PROVE WriteInv'
  BY <1>32, <1>30 DEF Notice, worldVars, Drained
<1>33. ASSUME NEW g \in 1..gens, NEW t \in Tasks,
       Accept(g, t)
      PROVE WriteInv'
  BY <1>33, <1>30 DEF Accept
<1> QED BY <1>1, <1>2, <1>3, <1>4, <1>5, <1>6, <1>7, <1>8, <1>9, <1>10, <1>11, <1>12, <1>13,
           <1>14, <1>15, <1>16, <1>17, <1>18, <1>19, <1>20, <1>21, <1>22, <1>23, <1>24,
           <1>25, <1>26, <1>27, <1>28, <1>29, <1>30, <1>31, <1>32, <1>33 DEF Next, vars

-----------------------------------------------------------------------------
(* The start lock.                                                          *)

\* A start that works on its client holds the lock; the client has no process when the start
\* closes one or makes one.
Locked == StartPlaces \ {"idle", "locks", "ok", "err"}
Empties == Closers \cup {"spawns"}
LockInv == \A r \in Calls :
  /\ pc[Start(r)] \in Locked => start_lock[client[r]] = r
  /\ pc[Start(r)] \in Empties => process[client[r]] = 0

\* Of the starts of one client no two are past its lock.
LEMMA Holder ==
  ASSUME Inv1, LockInv
  PROVE  /\ \A r \in Calls : pc[Start(r)] \in Locked
            => client[r] \in Instances /\ pc[Call(r)] \notin Early
         /\ \A r, s \in Calls :
              pc[Start(r)] \in Locked /\ pc[Start(s)] \in Locked /\ client[r] = client[s] => r = s
<1>1. ASSUME NEW r \in Calls, pc[Start(r)] \in Locked
      PROVE  client[r] \in Instances /\ pc[Call(r)] \notin Early
  <2>1. pc[Start(r)] # "idle"
    BY <1>1 DEF Locked
  <2> QED BY <2>1, TaskNames, Owners DEF Inv1, PlaceInv
<1>2. \A r \in Calls : pc[Start(r)] \in Locked => start_lock[client[r]] = r
  BY DEF LockInv
<1> QED BY <1>1, <1>2

\* The start of a request as a task.
LEMMA StartTask ==
  ASSUME NEW t \in Tasks
  PROVE  IF t[1] = "start" THEN t[2] \in Calls /\ t = Start(t[2]) ELSE \A r \in Calls : t # Start(r)
  BY TaskNames DEF Start

\* The starts as they are.
LEMMA LockKept ==
  ASSUME Inv1, LockInv, UNCHANGED <<client, start_lock>>,
         \A r \in Calls : process'[client[r]] = process[client[r]] \/ process'[client[r]] = 0,
         \A r \in Calls :
           \/ pc'[Start(r)] = pc[Start(r)]
           \/ pc'[Start(r)] \notin Locked
           \/ pc[Start(r)] \in Locked /\ pc'[Start(r)] \notin Empties
           \/ pc[Start(r)] \in Empties
  PROVE  LockInv'
  BY DEF LockInv, Locked, StartPlaces, Empties, Closers

\* A process taken from a client.
LEMMA TakenProcess ==
  ASSUME Inv1, NEW g, NEW t, NEW to, Taken(t, g, to)
  PROVE  \A i \in Instances : process'[i] = IF i = of[g] THEN 0 ELSE process[i]
  BY Functions1 DEF Taken

\* A start lets its lock go.
LEMMA ReleasedLock ==
  ASSUME Inv1, LockInv, NEW r \in Calls, UNCHANGED <<client, process>>, pc[Start(r)] \in Locked,
         start_lock' = [start_lock EXCEPT ![client[r]] = None], pc'[Start(r)] \notin Locked,
         \A s \in Calls : s # r => pc'[Start(s)] = pc[Start(s)]
  PROVE  LockInv'
<1>1. \A i \in Instances : i # client[r] => start_lock'[i] = start_lock[i]
  BY Functions1
<1>2. \A s \in Calls : s # r /\ pc[Start(s)] \in Locked
        => client[s] # client[r] /\ client[s] \in Instances
  BY Holder
<1> QED BY <1>1, <1>2 DEF LockInv, Locked, StartPlaces, Empties, Closers

\* A task that has closed a process lets the lock of its start go.
LEMMA UnlockedLock ==
  ASSUME Inv1, LockInv, NEW t \in Tasks, UNCHANGED <<client, process>>, Unlocks(t),
         pc[t] \in Locked \/ t[1] # "start", pc' = [pc EXCEPT ![t] = After(t)]
  PROVE  LockInv'
<1>1. CASE t[1] = "start"
  <2>1. PICK r \in Calls : t = Start(r) /\ t[2] = r
    BY <1>1, StartTask
  <2>2. pc'[Start(r)] = "err" /\ \A s \in Calls : s # r => pc'[Start(s)] = pc[Start(s)]
    BY <1>1, <2>1, AfterPlaces, Functions1, TaskNames
  <2>3. start_lock' = [start_lock EXCEPT ![client[r]] = None]
    BY <1>1, <2>1 DEF Unlocks
  <2> QED BY <1>1, <2>1, <2>2, <2>3, ReleasedLock DEF Locked
<1>2. CASE t[1] # "start"
  <2>1. \A s \in Calls : pc'[Start(s)] = pc[Start(s)]
    BY <1>2, StartTask, Functions1, TaskNames
  <2> QED BY <1>2, <2>1 DEF LockInv, Unlocks
<1> QED BY <1>1, <1>2

\* A task takes the process of its client.
LEMMA TakenLock ==
  ASSUME Inv1, LockInv, NEW t \in Tasks, UNCHANGED <<client, start_lock>>, NEW to,
         ClientOf(t) \in Instances, process[ClientOf(t)] # 0, Taken(t, process[ClientOf(t)], to),
         pc[t] \in Locked \/ t[1] # "start"
  PROVE  LockInv'
<1>1. of[process[ClientOf(t)]] = ClientOf(t)
  BY DEF Inv1, ProcessInv
<1>2. \A i \in Instances : process'[i] = IF i = ClientOf(t) THEN 0 ELSE process[i]
  BY <1>1, TakenProcess
<1>3. \A s \in Calls : Start(s) # t => pc'[Start(s)] = pc[Start(s)]
  BY Functions1, TaskNames DEF Taken
<1>4. \A s \in Calls : Start(s) = t => client[s] = ClientOf(t) /\ pc[Start(s)] \in Locked
  BY StartTask, TaskNames DEF ClientOf
<1>5. \A s \in Calls : pc[Start(s)] \in Empties
        => pc[Start(s)] \in Locked /\ client[s] \in Instances
  BY Holder DEF Empties, Locked, Closers, StartPlaces
<1> QED BY <1>2, <1>3, <1>4, <1>5, Holder DEF LockInv

\* LockInv is kept: one start at a time holds its client's lock.
LEMMA LockInvStep ==
  ASSUME Inv1, LockInv, [Next]_vars
  PROVE  LockInv'
<1>1. ASSUME NEW r \in Calls, Replaced(r) PROVE LockInv'
  <2>1. \A s \in Calls : pc'[Start(s)] = pc[Start(s)] /\ (s # r => client'[s] = client[s])
    BY <1>1, Functions1, RegTypes, TaskNames DEF Replaced
  <2>2. UNCHANGED <<start_lock, process>> /\ pc[Start(r)] = "idle"
    BY <1>1, TaskNames DEF Replaced, Inv1, PlaceInv, Early
  <2> QED BY <2>1, <2>2 DEF LockInv, Locked, Empties, Closers
<1>2. ASSUME NEW r \in Calls, Enter(r) PROVE LockInv'
  BY <1>2, Functions1, Holder, TaskNames, Outcomes, RegTypes DEF Enter, rest, callVars,
                                                                 LockInv, Locked,
                                                                 StartPlaces, Empties,
                                                                 Closers
<1>3. ASSUME NEW r \in Calls, Started(r) PROVE LockInv'
  BY <1>3, Functions1, Holder, TaskNames, Outcomes, RegTypes DEF Started, rest, callVars,
                                                                 LockInv, Locked,
                                                                 StartPlaces, Empties,
                                                                 Closers
<1>4. ASSUME NEW r \in Calls, StartCheck(r) PROVE LockInv'
  <2>1. UNCHANGED client /\ pc[Start(r)] = "locks" /\ start_lock[client[r]] = None
    BY <1>4 DEF StartCheck, rest, callVars
  <2>2. \A s \in Calls : s # r => pc'[Start(s)] = pc[Start(s)]
    BY <1>4, Functions1, TaskNames DEF StartCheck
  <2>3. client[r] \in Instances
    BY <2>1, Processes
  <2>4. \A s \in Calls : pc[Start(s)] \in Locked => client[s] # client[r] /\ client[s] \in Instances
    BY <2>1, Holder, KeyAssumption DEF LockInv
  <2>5. \A i \in Instances : i # client[r]
          => start_lock'[i] = start_lock[i] /\ process'[i] = process[i]
    BY <1>4, Functions1 DEF StartCheck
  <2>6. \/ pc'[Start(r)] \in {"ok", "err"}
        \/ start_lock'[client[r]] = r /\ process'[client[r]] = 0
    BY <1>4, <2>3, Functions1, TaskNames DEF StartCheck
  <2> QED BY <2>1, <2>2, <2>3, <2>4, <2>5, <2>6 DEF LockInv, Locked, StartPlaces, Empties, Closers
<1>5. ASSUME NEW r \in Calls, Spawn(r) PROVE LockInv'
  BY <1>5, Functions1, Holder, TaskNames, Outcomes, RegTypes DEF Spawn, Offers, callVars,
                                                                 LockInv, Locked,
                                                                 StartPlaces, Empties,
                                                                 Closers
<1>6. ASSUME NEW r \in Calls, SpawnFails(r) PROVE LockInv'
  <2>1. UNCHANGED <<client, process>>
    BY <1>6 DEF SpawnFails, Move, rest, callVars
  <2>2. /\ pc[Start(r)] \in Locked
        /\ \A s \in Calls : s # r => pc'[Start(s)] = pc[Start(s)]
    BY <1>6, Functions1, TaskNames DEF SpawnFails, Move, Locked, StartPlaces
  <2>3. pc'[Start(r)] = "err" /\ start_lock' = [start_lock EXCEPT ![client[r]] = None]
    BY <1>6, Functions1, TaskNames DEF SpawnFails, Move
  <2> QED BY <2>1, <2>2, <2>3, ReleasedLock DEF Locked
<1>7. ASSUME NEW r \in Calls, Initialized(r) PROVE LockInv'
  <2>1. UNCHANGED <<client, process>>
    BY <1>7 DEF Initialized, rest, callVars
  <2>2. /\ pc[Start(r)] \in Locked
        /\ \A s \in Calls : s # r => pc'[Start(s)] = pc[Start(s)]
    BY <1>7, Functions1, TaskNames DEF Initialized, Locked, StartPlaces
  <2>3. \/ pc'[Start(r)] = "ok" /\ start_lock' = [start_lock EXCEPT ![client[r]] = None]
        \/ /\ pc'[Start(r)] = "takes" /\ UNCHANGED start_lock
    BY <1>7, Functions1, TaskNames DEF Initialized
  <2>4. CASE pc'[Start(r)] = "ok" /\ start_lock' = [start_lock EXCEPT ![client[r]] = None]
    BY <2>1, <2>2, <2>4, ReleasedLock DEF Locked
  <2>5. CASE pc'[Start(r)] = "takes" /\ UNCHANGED start_lock
    <3>1. \A s \in Calls :
             \/ pc'[Start(s)] = pc[Start(s)]
             \/ pc[Start(s)] \in Locked /\ pc'[Start(s)] \notin Empties
      BY <2>2, <2>5 DEF Empties, Closers
    <3> QED BY <2>1, <2>5, <3>1, LockKept
  <2> QED BY <2>3, <2>4, <2>5
<1>8. ASSUME NEW r \in Calls, Answered(r) PROVE LockInv'
  BY <1>8, Functions1, Holder, TaskNames, Outcomes, RegTypes DEF Answered, Move, rest,
                                                                 callVars, LockInv, Locked,
                                                                 StartPlaces, Empties,
                                                                 Closers
<1>9. ASSUME NEW r \in Calls, Recover(r) PROVE LockInv'
  BY <1>9, Functions1, Holder, TaskNames, Outcomes, RegTypes DEF Recover, Taken, rest,
                                                                 callVars, LockInv, Locked,
                                                                 StartPlaces, Empties,
                                                                 Closers
<1>10. ASSUME NEW r \in Calls, NEW i \in Instances, Get(r, i) PROVE LockInv'
  <2>1. \A s \in Calls : pc'[Start(s)] = pc[Start(s)] /\ (s # r => client'[s] = client[s])
    BY <1>10, Functions1, RegTypes, TaskNames DEF Get
  <2>2. UNCHANGED <<start_lock, process>> /\ pc[Start(r)] = "idle"
    BY <1>10, TaskNames DEF Get, Inv1, PlaceInv, Early
  <2> QED BY <2>1, <2>2 DEF LockInv, Locked, Empties, Closers
<1>11. ASSUME NEW t \in Tasks, ReadGeneration(t) PROVE LockInv'
  BY <1>11, Functions1, Holder, TaskNames, Outcomes, RegTypes DEF ReadGeneration, rest,
                                                                  callVars, LockInv, Locked,
                                                                  StartPlaces, Empties,
                                                                  Closers
<1>12. ASSUME NEW t \in Tasks, Send(t) PROVE LockInv'
  BY <1>12, Functions1, Holder, TaskNames, Outcomes, RegTypes DEF Send, rest, callVars,
                                                                  LockInv, Locked,
                                                                  StartPlaces, Empties,
                                                                  Closers
<1>13. ASSUME NEW t \in Tasks, WriteFails(t) PROVE LockInv'
  BY <1>13, Functions1, Holder, TaskNames, Outcomes, RegTypes DEF WriteFails, Move, rest,
                                                                  callVars, LockInv, Locked,
                                                                  StartPlaces, Empties,
                                                                  Closers
<1>14. ASSUME NEW t \in Tasks, NoticeWrite(t) PROVE LockInv'
  BY <1>14, Functions1, Holder, TaskNames, Outcomes, RegTypes DEF NoticeWrite, Move, rest,
                                                                  callVars, LockInv, Locked,
                                                                  StartPlaces, Empties,
                                                                  Closers
<1>15. ASSUME NEW t \in Tasks, Timeout(t) PROVE LockInv'
  BY <1>15, Functions1, Holder, TaskNames, Outcomes, RegTypes DEF Timeout, rest, callVars,
                                                                  LockInv, Locked,
                                                                  StartPlaces, Empties,
                                                                  Closers
<1>16. ASSUME NEW t \in Tasks, Take(t) PROVE LockInv'
  <2>1. UNCHANGED client /\ pc[t] = "takes"
    BY <1>16 DEF Take, rest, callVars
  <2>2. ClientOf(t) \in Instances
    BY <2>1, Owners
  <2>3. CASE process[ClientOf(t)] = 0
    <3>1. pc' = [pc EXCEPT ![t] = After(t)] /\ Unlocks(t) /\ UNCHANGED process
      BY <1>16, <2>3 DEF Take
    <3>2. pc[t] \in Locked
      BY <2>1 DEF Locked, StartPlaces
    <3> QED BY <2>1, <3>1, <3>2, UnlockedLock
  <2>4. CASE process[ClientOf(t)] # 0
    <3>1. Taken(t, process[ClientOf(t)], "fails") /\ UNCHANGED start_lock
      BY <1>16, <2>4 DEF Take
    <3> QED BY <2>1, <3>1, <2>2, <2>4, TakenLock DEF Locked, StartPlaces
  <2> QED BY <2>3, <2>4
<1>17. ASSUME NEW t \in Tasks, FailPending(t) PROVE LockInv'
  <2>1. UNCHANGED <<client, start_lock>> /\ \A i \in Instances : process'[i] \in {0, process[i]}
    BY <1>17, Functions1 DEF FailPending, rest, callVars
  <2>2. \A x \in Tasks :
       \/ pc'[x] = pc[x]
       \/ pc[x] = "fails" /\ pc'[x] = "kills"
       \/ pc[x] = "waits" /\ pc'[x] = Failed(x)
    BY <1>17, FailingTypes DEF FailPending, Inv1, Types
  <2>3. \A r \in Calls : process'[client[r]] \in {0, process[client[r]]} \/ pc[Start(r)] = "idle"
    BY <2>1, Processes
  <2>4. \A r \in Calls : pc'[Start(r)] = "takes" \/ pc[Start(r)] # "waits"
          \/ pc'[Start(r)] = "waits"
    BY <2>2, Outcomes, TaskNames
  <2> QED BY <2>1, <2>2, <2>3, <2>4, TaskNames DEF LockInv, Locked, StartPlaces, Empties, Closers
<1>18. ASSUME NEW t \in Tasks, Terminate(t) PROVE LockInv'
  BY <1>18, Functions1, Holder, TaskNames, Outcomes, RegTypes DEF Terminate, Move, rest,
                                                                  callVars, LockInv, Locked,
                                                                  StartPlaces, Empties,
                                                                  Closers
<1>19. ASSUME NEW t \in Tasks, Join(t) PROVE LockInv'
  <2>1. UNCHANGED <<client, process>> /\ pc[t] \in {"joins", "awaits"}
        /\ pc' = [pc EXCEPT ![t] = IF pc[t] = "awaits" THEN "spawns" ELSE After(t)]
        /\ IF pc[t] = "joins" THEN Unlocks(t) ELSE UNCHANGED start_lock
    BY <1>19 DEF Join, rest, callVars
  <2>2. CASE pc[t] = "joins"
    BY <2>1, <2>2, UnlockedLock, AfterPlaces DEF Locked, StartPlaces
  <2>3. CASE pc[t] = "awaits"
    <3>1. \A r \in Calls : pc'[Start(r)] = pc[Start(r)] \/ pc[Start(r)] = "awaits"
      BY <2>1, <2>3, Functions1, TaskNames
    <3> QED BY <2>1, <2>3, <3>1, LockKept DEF Empties, Closers
  <2> QED BY <2>1, <2>2, <2>3
<1>20. ASSUME NEW t \in Tasks, StopDaemon(t) PROVE LockInv'
  BY <1>20, Functions1, Holder, TaskNames, Outcomes, RegTypes DEF StopDaemon, Move, rest,
                                                                  callVars, LockInv, Locked,
                                                                  StartPlaces, Empties,
                                                                  Closers
<1>21. ASSUME NEW i \in Instances, Kill(i) PROVE LockInv'
  BY <1>21, Functions1, Holder, TaskNames, Outcomes, RegTypes DEF Kill, Taken, callVars,
                                                                  LockInv, Locked,
                                                                  StartPlaces, Empties,
                                                                  Closers
<1>22. ASSUME NEW i \in Instances, EvictChecks(i) PROVE LockInv'
  BY <1>22, Functions1, Holder, TaskNames, Outcomes, RegTypes DEF EvictChecks, Move,
                                                                  callVars, LockInv, Locked,
                                                                  StartPlaces, Empties,
                                                                  Closers
<1>23. ASSUME NEW i \in Instances, RetireLocks(i) PROVE LockInv'
  BY <1>23, Functions1, Holder, TaskNames, Outcomes, RegTypes DEF RetireLocks, Move,
                                                                  callVars, LockInv, Locked,
                                                                  StartPlaces, Empties,
                                                                  Closers
<1>24. ASSUME NEW g \in 1..gens, FailFirst(g) PROVE LockInv'
  <2>1. UNCHANGED <<client, start_lock>> /\ \A i \in Instances : process'[i] \in {0, process[i]}
    BY <1>24, Functions1 DEF FailFirst, rest, callVars
  <2>2. \A x \in Tasks :
       \/ pc'[x] = pc[x]
       \/ pc[x] = "fails" /\ pc'[x] = "kills"
       \/ pc[x] = "waits" /\ pc'[x] = Failed(x)
    BY <1>24, FailingTypes DEF FailFirst, Inv1, Types
  <2>3. \A r \in Calls : process'[client[r]] \in {0, process[client[r]]} \/ pc[Start(r)] = "idle"
    BY <2>1, Processes
  <2>4. \A r \in Calls : pc'[Start(r)] = "takes" \/ pc[Start(r)] # "waits"
          \/ pc'[Start(r)] = "waits"
    BY <2>2, Outcomes, TaskNames
  <2> QED BY <2>1, <2>2, <2>3, <2>4, TaskNames DEF LockInv, Locked, StartPlaces, Empties, Closers
<1>25. ASSUME NEW g \in 1..gens, Finalize(g) PROVE LockInv'
  <2>1. UNCHANGED <<client, start_lock>> /\ \A i \in Instances : process'[i] \in {0, process[i]}
    BY <1>25, Functions1 DEF Finalize, rest, callVars
  <2>2. \A x \in Tasks :
       \/ pc'[x] = pc[x]
       \/ pc[x] = "fails" /\ pc'[x] = "kills"
       \/ pc[x] = "waits" /\ pc'[x] = Failed(x)
    BY <1>25, FailingTypes DEF Finalize, Inv1, Types
  <2>3. \A r \in Calls : process'[client[r]] \in {0, process[client[r]]} \/ pc[Start(r)] = "idle"
    BY <2>1, Processes
  <2>4. \A r \in Calls : pc'[Start(r)] = "takes" \/ pc[Start(r)] # "waits"
          \/ pc'[Start(r)] = "waits"
    BY <2>2, Outcomes, TaskNames
  <2> QED BY <2>1, <2>2, <2>3, <2>4, TaskNames DEF LockInv, Locked, StartPlaces, Empties, Closers
<1>26. ASSUME NEW g \in 1..gens, ReadLine(g) PROVE LockInv'
  <2>1. UNCHANGED <<client, start_lock, process>>
    BY <1>26 DEF ReadLine, rest, callVars
  <2>2. g \in Gens /\ lines[g] # <<>>
    BY <1>26, GensGiven DEF ReadLine
  <2>3. PICK t \in Tasks :
       \/ UNCHANGED pc
       \/ pending[t] # 0 /\ pc' = [pc EXCEPT ![t] = "answered"]
    BY <1>26, <2>2, Lines0 DEF ReadLine
  <2>4. pending[t] # 0 => pc[t] \in {"waits", "writes"}
    BY LinkFacts DEF Linked
  <2>5. \A r \in Calls :
       \/ pc'[Start(r)] = pc[Start(r)]
       \/ pc[Start(r)] \in {"waits", "writes"} /\ pc'[Start(r)] = "answered"
    BY <2>3, <2>4, Functions1, TaskNames
  <2> QED BY <2>1, <2>5 DEF LockInv, Locked, StartPlaces, Empties, Closers
<1>27. ASSUME UNCHANGED <<pc, client, process, start_lock>> PROVE LockInv'
  BY <1>27 DEF LockInv, Locked, StartPlaces, Empties, Closers
<1>28. ASSUME NEW r \in Calls,
       Completes(r)
      PROVE LockInv'
  BY <1>28, <1>27 DEF Completes, rest, callVars
<1>29. ASSUME NEW g \in 1..gens,
       Notice(g) \/ ShutsDown(g) \/ Drained(g) \/ Exits(g) \/ Drops(g)
      PROVE LockInv'
  BY <1>29, <1>27 DEF Notice, rest, callVars, ShutsDown, Drained, Exits, Drops
<1>30. ASSUME NEW g \in 1..gens, NEW t \in Tasks,
       Accept(g, t)
      PROVE LockInv'
  BY <1>30, <1>27 DEF Accept, rest, callVars
<1> QED BY <1>1, <1>2, <1>3, <1>4, <1>5, <1>6, <1>7, <1>8, <1>9, <1>10, <1>11, <1>12, <1>13,
           <1>14, <1>15, <1>16, <1>17, <1>18, <1>19, <1>20, <1>21, <1>22, <1>23, <1>24,
           <1>25, <1>26, <1>27, <1>28, <1>29, <1>30 DEF Next, vars

-----------------------------------------------------------------------------
(* Replaced clients.                                                        *)

\* A registered client is not replaced; a start that holds a replaced one's lock is an orphan's.
RetireInv ==
  /\ \A k \in Keys : registry[k] # None =>
        /\ Key[registry[k]] = k /\ registry[k] \notin retired
        /\ pc[<<"retire", registry[k]>>] = "idle"
  /\ \A i \in retired : /\ pc[<<"retire", i>>] \notin {"idle", "locks"}
                        /\ start_lock[i] # None => i \in orphans

\* Steps that leave the registry alone, and free locks only, keep RetireInv.
LEMMA RetireKept ==
  ASSUME Inv1, RetireInv, UNCHANGED <<registry, retired>>, orphans \subseteq orphans',
         \A i \in Instances : i \in retired => start_lock'[i] \in {None, start_lock[i]},
         \A i \in Instances :
           \/ pc'[<<"retire", i>>] = pc[<<"retire", i>>]
           \/ pc[<<"retire", i>>] \notin {"idle", "locks"}
              /\ pc'[<<"retire", i>>] \notin {"idle", "locks"}
  PROVE  RetireInv'
<1>1. retired \subseteq Instances /\ registry \in [Keys -> Instances \cup {None}]
  BY DEF Inv1, Types, RegistryTypes
<1> QED BY <1>1 DEF RetireInv

\* The task that replaces a client is no request.
LEMMA RetireTask ==
  ASSUME Inv1
  PROVE  /\ \A i \in Instances : /\ <<"retire", i>> \in Tasks /\ <<"retire", i>>[1] = "retire"
                                 /\ After(<<"retire", i>>) = "stops" /\ pending[<<"retire", i>>] = 0
         /\ \A i \in Instances, r \in Calls : <<"retire", i>> # Call(r)
            /\ <<"retire", i>> # Start(r)
         /\ retired \subseteq Instances
<1>1. ASSUME NEW i \in Instances PROVE pending[<<"retire", i>>] = 0
  <2>1. <<"retire", i>> \in Tasks /\ <<"retire", i>>[1] = "retire"
    BY TaskNames
  <2> QED BY <2>1, LinkFacts, Kinded DEF Linked
<1>2. ASSUME NEW i \in Instances
      PROVE  /\ <<"retire", i>> \in Tasks /\ <<"retire", i>>[1] = "retire"
             /\ After(<<"retire", i>>) = "stops"
  <2>1. <<"retire", i>> \in Tasks /\ <<"retire", i>>[1] = "retire"
    BY TaskNames
  <2> QED BY <2>1, AfterPlaces
<1>3. \A i \in Instances, r \in Calls : <<"retire", i>> # Call(r) /\ <<"retire", i>> # Start(r)
  BY DEF Call, Start
<1> QED BY <1>1, <1>2, <1>3 DEF Inv1, Types, RegistryTypes

\* RetireInv is kept.
LEMMA RetireInvStep ==
  ASSUME Inv1, LockInv, RetireInv, [Next]_vars
  PROVE  RetireInv'
<1>1. ASSUME NEW r \in Calls, Replaced(r) PROVE RetireInv'
  BY <1>1, Functions1, TaskNames, RetireTask, RegTypes DEF Replaced, history, RetireInv
<1>2. ASSUME NEW r \in Calls, Enter(r) PROVE RetireInv'
  <2>1. UNCHANGED <<registry, retired>> /\ orphans' = orphans
    BY <1>2 DEF Enter, rest, history
  <2>2. \A j \in Instances : j \in retired => start_lock'[j] \in {None, start_lock[j]}
    BY <1>2, Functions1 DEF Enter
  <2>3. \A j \in Instances :
          \/ pc'[<<"retire", j>>] = pc[<<"retire", j>>]
          \/ pc[<<"retire", j>>] \notin {"idle", "locks"}
             /\ pc'[<<"retire", j>>] \notin {"idle", "locks"}
    BY <1>2, Functions1, RetireTask, Kinded DEF Enter
  <2> QED BY <2>1, <2>2, <2>3, RetireKept
<1>3. ASSUME NEW r \in Calls, Started(r) PROVE RetireInv'
  <2>1. UNCHANGED <<registry, retired>> /\ orphans' = orphans
    BY <1>3 DEF Started, rest, history
  <2>2. \A j \in Instances : j \in retired => start_lock'[j] \in {None, start_lock[j]}
    BY <1>3, Functions1 DEF Started
  <2>3. \A j \in Instances :
          \/ pc'[<<"retire", j>>] = pc[<<"retire", j>>]
          \/ pc[<<"retire", j>>] \notin {"idle", "locks"}
             /\ pc'[<<"retire", j>>] \notin {"idle", "locks"}
    BY <1>3, Functions1, RetireTask, Kinded DEF Started
  <2> QED BY <2>1, <2>2, <2>3, RetireKept
<1>4. ASSUME NEW r \in Calls, StartCheck(r) PROVE RetireInv'
  <2>1. UNCHANGED <<registry, retired>> /\ orphans' = orphans
    BY <1>4 DEF StartCheck, rest, history
  <2>2. \A j \in Instances : j \in retired => start_lock'[j] \in {None, start_lock[j]}
    BY <1>4, Functions1 DEF StartCheck
  <2>3. \A j \in Instances :
          \/ pc'[<<"retire", j>>] = pc[<<"retire", j>>]
          \/ pc[<<"retire", j>>] \notin {"idle", "locks"}
             /\ pc'[<<"retire", j>>] \notin {"idle", "locks"}
    BY <1>4, Functions1, RetireTask DEF StartCheck
  <2> QED BY <2>1, <2>2, <2>3, RetireKept
<1>5. ASSUME NEW r \in Calls, Spawn(r) PROVE RetireInv'
  <2>1. UNCHANGED <<registry, retired>> /\ orphans' = orphans
    BY <1>5 DEF Spawn, rest, history
  <2>2. \A j \in Instances : j \in retired => start_lock'[j] \in {None, start_lock[j]}
    BY <1>5, Functions1 DEF Spawn
  <2>3. \A j \in Instances :
          \/ pc'[<<"retire", j>>] = pc[<<"retire", j>>]
          \/ pc[<<"retire", j>>] \notin {"idle", "locks"}
             /\ pc'[<<"retire", j>>] \notin {"idle", "locks"}
    BY <1>5, Functions1, RetireTask, Kinded DEF Spawn
  <2> QED BY <2>1, <2>2, <2>3, RetireKept
<1>6. ASSUME NEW r \in Calls, SpawnFails(r) PROVE RetireInv'
  <2>1. UNCHANGED <<registry, retired>> /\ orphans' = orphans
    BY <1>6 DEF SpawnFails, Move, rest, history
  <2>2. \A j \in Instances : j \in retired => start_lock'[j] \in {None, start_lock[j]}
    BY <1>6, Functions1 DEF SpawnFails, Move
  <2>3. \A j \in Instances :
          \/ pc'[<<"retire", j>>] = pc[<<"retire", j>>]
          \/ pc[<<"retire", j>>] \notin {"idle", "locks"}
             /\ pc'[<<"retire", j>>] \notin {"idle", "locks"}
    BY <1>6, Functions1, RetireTask, Kinded DEF SpawnFails, Move
  <2> QED BY <2>1, <2>2, <2>3, RetireKept
<1>7. ASSUME NEW r \in Calls, Initialized(r) PROVE RetireInv'
  <2>1. UNCHANGED <<registry, retired>> /\ orphans' = orphans
    BY <1>7 DEF Initialized, rest, history
  <2>2. \A j \in Instances : j \in retired => start_lock'[j] \in {None, start_lock[j]}
    BY <1>7, Functions1 DEF Initialized
  <2>3. \A j \in Instances :
          \/ pc'[<<"retire", j>>] = pc[<<"retire", j>>]
          \/ pc[<<"retire", j>>] \notin {"idle", "locks"}
             /\ pc'[<<"retire", j>>] \notin {"idle", "locks"}
    BY <1>7, Functions1, RetireTask, Kinded DEF Initialized
  <2> QED BY <2>1, <2>2, <2>3, RetireKept
<1>8. ASSUME NEW r \in Calls, Answered(r) PROVE RetireInv'
  <2>1. UNCHANGED <<registry, retired>> /\ orphans' = orphans
    BY <1>8 DEF Answered, Move, rest, history
  <2>2. \A j \in Instances : j \in retired => start_lock'[j] \in {None, start_lock[j]}
    BY <1>8, Functions1 DEF Answered, Move
  <2>3. \A j \in Instances :
          \/ pc'[<<"retire", j>>] = pc[<<"retire", j>>]
          \/ pc[<<"retire", j>>] \notin {"idle", "locks"}
             /\ pc'[<<"retire", j>>] \notin {"idle", "locks"}
    BY <1>8, Functions1, RetireTask, Kinded DEF Answered, Move
  <2> QED BY <2>1, <2>2, <2>3, RetireKept
<1>9. ASSUME NEW r \in Calls, Recover(r) PROVE RetireInv'
  <2>1. UNCHANGED <<registry, retired>> /\ orphans' = orphans
    BY <1>9 DEF Recover, Taken, rest, history
  <2>2. \A j \in Instances : j \in retired => start_lock'[j] \in {None, start_lock[j]}
    BY <1>9, Functions1 DEF Recover, Taken
  <2>3. \A j \in Instances :
          \/ pc'[<<"retire", j>>] = pc[<<"retire", j>>]
          \/ pc[<<"retire", j>>] \notin {"idle", "locks"}
             /\ pc'[<<"retire", j>>] \notin {"idle", "locks"}
    BY <1>9, Functions1, RetireTask, Kinded DEF Recover, Taken
  <2> QED BY <2>1, <2>2, <2>3, RetireKept
<1>10. ASSUME NEW r \in Calls, NEW i \in Instances, Get(r, i) PROVE RetireInv'
  <2>1. UNCHANGED <<retired, start_lock, orphans>> /\ Key[i] \in Keys
        /\ pc[<<"retire", i>>] = "idle" /\ i \notin retired
    BY <1>10, RegTypes DEF Get, history, RetireInv
  <2>2. CASE registry[Key[i]] \in {i, None}
    <3>1. registry' = [registry EXCEPT ![Key[i]] = i] /\ pc' = [pc EXCEPT ![Call(r)] = "got"]
      BY <1>10, <2>2 DEF Get
    <3>2. \A j \in Instances : pc'[<<"retire", j>>] = pc[<<"retire", j>>]
      BY <3>1, Functions1, RetireTask
    <3> QED BY <2>1, <3>1, <3>2, Functions1, RetireTask DEF RetireInv
  <2>3. CASE registry[Key[i]] \notin {i, None}
    <3>1. PICK old \in Instances :
             /\ registry[Key[i]] = old /\ registry' = [registry EXCEPT ![Key[i]] = None]
             /\ pc' = [pc EXCEPT ![Call(r)] = "replaces", ![<<"retire", old>>] = "locks"]
      BY <1>10, <2>3, RegTypes DEF Get
    <3>2. \A j \in Instances : j # old => pc'[<<"retire", j>>] = pc[<<"retire", j>>]
      BY <3>1, Functions1, RetireTask
    <3>3. Key[old] = Key[i] /\ old \notin retired
      BY <2>1, <3>1, KeyAssumption DEF RetireInv
    <3>4. \A k \in Keys : registry'[k] # None =>
            registry'[k] = registry[k] /\ registry[k] # old /\ registry[k] \in Instances
      BY <2>1, <3>1, <3>3, Functions1 DEF RetireInv
    <3> QED BY <2>1, <3>2, <3>3, <3>4, RetireTask DEF RetireInv
  <2> QED BY <2>2, <2>3
<1>11. ASSUME NEW t \in Tasks, ReadGeneration(t) PROVE RetireInv'
  <2>1. UNCHANGED <<registry, retired>> /\ orphans' = orphans
    BY <1>11 DEF ReadGeneration, rest, history
  <2>2. \A j \in Instances : j \in retired => start_lock'[j] \in {None, start_lock[j]}
    BY <1>11, Functions1 DEF ReadGeneration
  <2>3. \A j \in Instances :
          \/ pc'[<<"retire", j>>] = pc[<<"retire", j>>]
          \/ pc[<<"retire", j>>] \notin {"idle", "locks"}
             /\ pc'[<<"retire", j>>] \notin {"idle", "locks"}
    BY <1>11, Functions1, RetireTask, Kinded DEF ReadGeneration
  <2> QED BY <2>1, <2>2, <2>3, RetireKept
<1>12. ASSUME NEW t \in Tasks, Send(t) PROVE RetireInv'
  <2>1. UNCHANGED <<registry, retired>> /\ orphans' = orphans
    BY <1>12 DEF Send, rest, history
  <2>2. \A j \in Instances : j \in retired => start_lock'[j] \in {None, start_lock[j]}
    BY <1>12, Functions1 DEF Send
  <2>3. \A j \in Instances :
          \/ pc'[<<"retire", j>>] = pc[<<"retire", j>>]
          \/ pc[<<"retire", j>>] \notin {"idle", "locks"}
             /\ pc'[<<"retire", j>>] \notin {"idle", "locks"}
    BY <1>12, Functions1, RetireTask, Kinded DEF Send
  <2> QED BY <2>1, <2>2, <2>3, RetireKept
<1>13. ASSUME NEW t \in Tasks, WriteFails(t) PROVE RetireInv'
  <2>1. UNCHANGED <<registry, retired>> /\ orphans' = orphans
    BY <1>13 DEF WriteFails, Move, rest, history
  <2>2. \A j \in Instances : j \in retired => start_lock'[j] \in {None, start_lock[j]}
    BY <1>13, Functions1 DEF WriteFails, Move
  <2>3. \A j \in Instances :
          \/ pc'[<<"retire", j>>] = pc[<<"retire", j>>]
          \/ pc[<<"retire", j>>] \notin {"idle", "locks"}
             /\ pc'[<<"retire", j>>] \notin {"idle", "locks"}
    BY <1>13, Functions1, RetireTask, Kinded DEF WriteFails, Move
  <2> QED BY <2>1, <2>2, <2>3, RetireKept
<1>14. ASSUME NEW t \in Tasks, NoticeWrite(t) PROVE RetireInv'
  <2>1. UNCHANGED <<registry, retired>> /\ orphans' = orphans
    BY <1>14 DEF NoticeWrite, Move, rest, history
  <2>2. \A j \in Instances : j \in retired => start_lock'[j] \in {None, start_lock[j]}
    BY <1>14, Functions1 DEF NoticeWrite, Move
  <2>3. \A j \in Instances :
          \/ pc'[<<"retire", j>>] = pc[<<"retire", j>>]
          \/ pc[<<"retire", j>>] \notin {"idle", "locks"}
             /\ pc'[<<"retire", j>>] \notin {"idle", "locks"}
    BY <1>14, Functions1, RetireTask, Kinded DEF NoticeWrite, Move
  <2> QED BY <2>1, <2>2, <2>3, RetireKept
<1>15. ASSUME NEW t \in Tasks, Timeout(t) PROVE RetireInv'
  <2>1. UNCHANGED <<registry, retired>> /\ orphans' = orphans
    BY <1>15 DEF Timeout, rest, history
  <2>2. \A j \in Instances : j \in retired => start_lock'[j] \in {None, start_lock[j]}
    BY <1>15, Functions1 DEF Timeout
  <2>3. \A j \in Instances :
          \/ pc'[<<"retire", j>>] = pc[<<"retire", j>>]
          \/ pc[<<"retire", j>>] \notin {"idle", "locks"}
             /\ pc'[<<"retire", j>>] \notin {"idle", "locks"}
    BY <1>15, Functions1, RetireTask, Kinded DEF Timeout
  <2> QED BY <2>1, <2>2, <2>3, RetireKept
<1>16. ASSUME NEW t \in Tasks, Take(t) PROVE RetireInv'
  <2>1. UNCHANGED <<registry, retired>> /\ orphans' = orphans
    BY <1>16 DEF Take, Taken, Unlocks, rest, history
  <2>2. \A j \in Instances : j \in retired => start_lock'[j] \in {None, start_lock[j]}
    BY <1>16, Functions1 DEF Take, Taken, Unlocks
  <2>3. \A j \in Instances :
          \/ pc'[<<"retire", j>>] = pc[<<"retire", j>>]
          \/ pc[<<"retire", j>>] \notin {"idle", "locks"}
             /\ pc'[<<"retire", j>>] \notin {"idle", "locks"}
    BY <1>16, Functions1, RetireTask, Kinded DEF Take, Taken, Unlocks
  <2> QED BY <2>1, <2>2, <2>3, RetireKept
<1>17. ASSUME NEW t \in Tasks, FailPending(t) PROVE RetireInv'
  <2>1. UNCHANGED <<registry, retired, orphans, start_lock>>
    BY <1>17 DEF FailPending, rest, history
  <2>2. \A x \in Tasks :
          \/ pc'[x] = pc[x]
          \/ pc[x] = "fails" /\ pc'[x] = "kills"
          \/ pending[x] # 0
    BY <1>17, FailingTypes, LinkFacts DEF FailPending, Inv1, Types, Linked
  <2> QED BY <2>1, <2>2, RetireTask, RetireKept
<1>18. ASSUME NEW t \in Tasks, Terminate(t) PROVE RetireInv'
  <2>1. UNCHANGED <<registry, retired>> /\ orphans' = orphans
    BY <1>18 DEF Terminate, Move, rest, history
  <2>2. \A j \in Instances : j \in retired => start_lock'[j] \in {None, start_lock[j]}
    BY <1>18, Functions1 DEF Terminate, Move
  <2>3. \A j \in Instances :
          \/ pc'[<<"retire", j>>] = pc[<<"retire", j>>]
          \/ pc[<<"retire", j>>] \notin {"idle", "locks"}
             /\ pc'[<<"retire", j>>] \notin {"idle", "locks"}
    BY <1>18, Functions1, RetireTask, Kinded DEF Terminate, Move
  <2> QED BY <2>1, <2>2, <2>3, RetireKept
<1>19. ASSUME NEW t \in Tasks, Join(t) PROVE RetireInv'
  <2>1. UNCHANGED <<registry, retired>> /\ orphans' = orphans
    BY <1>19 DEF Join, Unlocks, rest, history
  <2>2. \A j \in Instances : j \in retired => start_lock'[j] \in {None, start_lock[j]}
    BY <1>19, Functions1 DEF Join, Unlocks
  <2>3. \A j \in Instances :
          \/ pc'[<<"retire", j>>] = pc[<<"retire", j>>]
          \/ pc[<<"retire", j>>] \notin {"idle", "locks"}
             /\ pc'[<<"retire", j>>] \notin {"idle", "locks"}
    BY <1>19, Functions1, RetireTask, Kinded DEF Join, Unlocks
  <2> QED BY <2>1, <2>2, <2>3, RetireKept
<1>20. ASSUME NEW t \in Tasks, StopDaemon(t) PROVE RetireInv'
  <2>1. UNCHANGED <<registry, retired>> /\ orphans' = orphans
    BY <1>20 DEF StopDaemon, Move, rest, history
  <2>2. \A j \in Instances : j \in retired => start_lock'[j] \in {None, start_lock[j]}
    BY <1>20, Functions1 DEF StopDaemon, Move
  <2>3. \A j \in Instances :
          \/ pc'[<<"retire", j>>] = pc[<<"retire", j>>]
          \/ pc[<<"retire", j>>] \notin {"idle", "locks"}
             /\ pc'[<<"retire", j>>] \notin {"idle", "locks"}
    BY <1>20, Functions1, RetireTask, Kinded DEF StopDaemon, Move
  <2> QED BY <2>1, <2>2, <2>3, RetireKept
<1>21. ASSUME NEW i \in Instances, Kill(i) PROVE RetireInv'
  <2>1. UNCHANGED <<registry, retired>> /\ orphans' = orphans
    BY <1>21 DEF Kill, Taken, rest, history
  <2>2. \A j \in Instances : j \in retired => start_lock'[j] \in {None, start_lock[j]}
    BY <1>21, Functions1 DEF Kill, Taken
  <2>3. \A j \in Instances :
          \/ pc'[<<"retire", j>>] = pc[<<"retire", j>>]
          \/ pc[<<"retire", j>>] \notin {"idle", "locks"}
             /\ pc'[<<"retire", j>>] \notin {"idle", "locks"}
    BY <1>21, Functions1, RetireTask, Kinded DEF Kill, Taken
  <2> QED BY <2>1, <2>2, <2>3, RetireKept
<1>22. ASSUME NEW i \in Instances, EvictChecks(i) PROVE RetireInv'
  <2>1. UNCHANGED <<registry, retired>> /\ orphans' = orphans
    BY <1>22 DEF EvictChecks, Move, rest, history
  <2>2. \A j \in Instances : j \in retired => start_lock'[j] \in {None, start_lock[j]}
    BY <1>22, Functions1 DEF EvictChecks, Move
  <2>3. \A j \in Instances :
          \/ pc'[<<"retire", j>>] = pc[<<"retire", j>>]
          \/ pc[<<"retire", j>>] \notin {"idle", "locks"}
             /\ pc'[<<"retire", j>>] \notin {"idle", "locks"}
    BY <1>22, Functions1, RetireTask, Kinded DEF EvictChecks, Move
  <2> QED BY <2>1, <2>2, <2>3, RetireKept
<1>23. ASSUME NEW i \in Instances, RetireLocks(i) PROVE RetireInv'
  BY <1>23, Functions1, TaskNames, RetireTask, RegTypes DEF RetireLocks, Move, RetireInv
<1>24. ASSUME NEW g \in 1..gens, FailFirst(g) PROVE RetireInv'
  <2>1. UNCHANGED <<registry, retired, orphans, start_lock>>
    BY <1>24 DEF FailFirst, rest, history
  <2>2. \A x \in Tasks :
          \/ pc'[x] = pc[x]
          \/ pc[x] = "fails" /\ pc'[x] = "kills"
          \/ pending[x] # 0
    BY <1>24, FailingTypes, LinkFacts DEF FailFirst, Inv1, Types, Linked
  <2> QED BY <2>1, <2>2, RetireTask, RetireKept
<1>25. ASSUME NEW g \in 1..gens, Finalize(g) PROVE RetireInv'
  <2>1. UNCHANGED <<registry, retired, orphans, start_lock>>
    BY <1>25 DEF Finalize, rest, history
  <2>2. \A x \in Tasks :
          \/ pc'[x] = pc[x]
          \/ pc[x] = "fails" /\ pc'[x] = "kills"
          \/ pending[x] # 0
    BY <1>25, FailingTypes, LinkFacts DEF Finalize, Inv1, Types, Linked
  <2> QED BY <2>1, <2>2, RetireTask, RetireKept
<1>26. ASSUME NEW g \in 1..gens, ReadLine(g) PROVE RetireInv'
  <2>1. UNCHANGED <<registry, retired, orphans, start_lock>>
    BY <1>26 DEF ReadLine, rest
  <2>2. g \in Gens /\ lines[g] # <<>>
    BY <1>26, GensGiven DEF ReadLine
  <2>3. PICK t \in Tasks :
          \/ UNCHANGED pc
          \/ pending[t] # 0 /\ pc' = [pc EXCEPT ![t] = "answered"]
    BY <1>26, <2>2, Lines0 DEF ReadLine
  <2>4. \A i \in Instances : pc'[<<"retire", i>>] = pc[<<"retire", i>>]
    BY <2>3, Functions1, RetireTask
  <2> QED BY <2>1, <2>4, RetireKept
<1>27. ASSUME UNCHANGED <<registry, retired, pc, start_lock, orphans>> PROVE RetireInv'
  BY <1>27 DEF RetireInv
<1>28. ASSUME NEW r \in Calls,
       Completes(r)
      PROVE RetireInv'
  BY <1>28, <1>27 DEF Completes, rest
<1>29. ASSUME NEW g \in 1..gens,
       Notice(g) \/ ShutsDown(g) \/ Drained(g) \/ Exits(g) \/ Drops(g)
      PROVE RetireInv'
  BY <1>29, <1>27 DEF Notice, rest, ShutsDown, Drained, Exits, Drops, history
<1>30. ASSUME NEW g \in 1..gens, NEW t \in Tasks,
       Accept(g, t)
      PROVE RetireInv'
  BY <1>30, <1>27 DEF Accept, history, rest
<1> QED BY <1>1, <1>2, <1>3, <1>4, <1>5, <1>6, <1>7, <1>8, <1>9, <1>10, <1>11, <1>12, <1>13,
           <1>14, <1>15, <1>16, <1>17, <1>18, <1>19, <1>20, <1>21, <1>22, <1>23, <1>24,
           <1>25, <1>26, <1>27, <1>28, <1>29, <1>30 DEF Next, vars

-----------------------------------------------------------------------------
(* Permits and their owners.                                                *)

\* Who a permit belongs to.
Owned(g) == LET i == of[g] IN
  \/ process[i] = g /\ (i \in retired /\ pc[<<"retire", i>>] # "takes" => i \in orphans)
  \/ \E t \in Tasks : gen[t] = g /\ pc[t] \in Closers
SlotInv == up \subseteq slots /\ \A g \in slots : Owned(g)

\* A permit belongs to a generation given out.
LEMMA SlotFacts ==
  ASSUME Inv1
  PROVE  /\ slots \subseteq Gens /\ \A g \in slots : g <= gens /\ of[g] \in Instances /\ g # 0
         /\ gens \in Nat
<1>1. slots \subseteq Gens
  BY DEF Inv1, Types, SlotTypes
<1>2. gens \in Nat /\ MaxGens \in Nat
  BY GensNat
<1>3. \A g \in slots : ~ (g > gens)
  BY <1>1 DEF Inv1, FutureInv, Unused
<1>4. ASSUME NEW g \in slots PROVE g <= gens /\ of[g] \in Instances /\ g # 0
  <2>1. g \in Gens /\ ~ (g > gens)
    BY <1>1, <1>3
  <2>2. g \in Nat /\ g # 0 /\ g <= gens
    BY <1>2, <2>1
  <2> QED BY <2>1, <2>2 DEF Inv1, ProcessInv
<1> QED BY <1>1, <1>2, <1>4

\* A slot stays owned.
LEMMA OwnedKept ==
  ASSUME NEW g, Owned(g), of[g] \in Instances, of'[g] = of[g], orphans \subseteq orphans',
         \/ process[of[g]] # g
         \/ \E t \in Tasks : gen'[t] = g /\ pc'[t] \in Closers
         \/ /\ process'[of[g]] = g
            /\ of[g] \in retired' /\ pc'[<<"retire", of[g]>>] # "takes" =>
                 of[g] \in retired /\ pc[<<"retire", of[g]>>] # "takes",
         \A t \in Tasks : gen[t] = g /\ pc[t] \in Closers => gen'[t] = g /\ pc'[t] \in Closers
  PROVE  Owned(g)'
  BY DEF Owned

\* Steps that close nothing and take nothing.
LEMMA SlotsKept ==
  ASSUME Inv1, SlotInv, UNCHANGED <<slots, of, process, retired>>, up' \subseteq up,
           orphans \subseteq orphans',
         \A x \in Tasks :
           \/ pc'[x] = pc[x] /\ gen'[x] = gen[x]
           \/ pc[x] \notin Closers \cup {"takes"}
           \/ pc[x] \in Closers /\ pc'[x] \in Closers /\ gen'[x] = gen[x]
  PROVE  SlotInv'
<1>1. up' \subseteq slots'
  BY DEF SlotInv
<1>2. ASSUME NEW g \in slots' PROVE Owned(g)'
  <2>1. g \in slots /\ of[g] \in Instances /\ Owned(g)
    BY <1>2, SlotFacts DEF SlotInv
  <2>2. pc'[<<"retire", of[g]>>] # "takes" => pc[<<"retire", of[g]>>] # "takes"
    BY <2>1, TaskNames DEF Closers
  <2>3. \A t \in Tasks : gen[t] = g /\ pc[t] \in Closers => gen'[t] = g /\ pc'[t] \in Closers
    OBVIOUS
  <2> QED BY <2>1, <2>2, <2>3, OwnedKept
<1> QED BY <1>1, <1>2 DEF SlotInv

\* A task takes the process of a client and is to close it.
LEMMA SlotTaken ==
  ASSUME Inv1, SlotInv, UNCHANGED <<slots, of, retired, up, orphans>>, NEW t \in Tasks,
           NEW i \in Instances,
         ClientOf(t) = i, process[i] # 0, process' = [process EXCEPT ![i] = 0],
         gen' = [gen EXCEPT ![t] = process[i]], pc[t] \notin Closers, NEW to \in Closers,
           pc' = [pc EXCEPT ![t] = to]
  PROVE  SlotInv'
<1>1. ASSUME NEW g \in slots' PROVE Owned(g)'
  <2>1. g \in slots /\ of[g] \in Instances /\ Owned(g)
    BY <1>1, SlotFacts DEF SlotInv
  <2>2. gen'[t] = process[i] /\ pc'[t] \in Closers /\ \A x \in Tasks : x # t
          => gen'[x] = gen[x] /\ pc'[x] = pc[x]
    BY Functions1
  <2>3. \A x \in Tasks : gen[x] = g /\ pc[x] \in Closers => gen'[x] = g /\ pc'[x] \in Closers
    BY <2>2
  <2>4. of[g] # i => process'[of[g]] = process[of[g]]
    BY Functions1, <2>1
  <2>5. pc'[<<"retire", of[g]>>] # "takes"
          => pc[<<"retire", of[g]>>] # "takes" \/ t = <<"retire", of[g]>>
    BY <2>1, <2>2, TaskNames
  <2>6. t = <<"retire", of[g]>> => of[g] = i
    BY DEF ClientOf
  <2> QED BY <2>1, <2>2, <2>3, <2>4, <2>5, <2>6, OwnedKept
<1> QED BY <1>1 DEF SlotInv

\* A call that has no client yet has no start.
LEMMA EarlyStarts ==
  ASSUME Inv1, NEW r \in Calls, pc[Call(r)] \in Early
  PROVE  pc[Start(r)] = "idle"
  BY TaskNames DEF Inv1, PlaceInv

\* SlotInv is kept: who takes a process closes it, and returns its permit only then.
LEMMA SlotInvStep ==
  ASSUME Inv1, UpInv, LockInv, RetireInv, SlotInv, [Next]_vars
  PROVE  SlotInv'
<1>1. ASSUME NEW r \in Calls, Replaced(r) PROVE SlotInv'
  <2>1. UNCHANGED <<slots, of, process, retired>> /\ up' \subseteq up /\ orphans' = orphans
    BY <1>1, EndsUp DEF Replaced, rest, linkVars, worldVars, history
  <2>2. \A x \in Tasks :
          \/ pc'[x] = pc[x] /\ gen'[x] = gen[x]
          \/ pc[x] \notin Closers \cup {"takes"}
          \/ pc[x] \in Closers /\ pc'[x] \in Closers /\ gen'[x] = gen[x]
    BY <1>1, Functions1, TaskNames DEF Replaced, rest, callVars, Closers
  <2> QED BY <2>1, <2>2, SlotsKept
<1>2. ASSUME NEW r \in Calls, Enter(r) PROVE SlotInv'
  <2>0. pc[Call(r)] = "got" /\ pc[Start(r)] = "idle"
    BY <1>2, EarlyStarts DEF Enter, Early
  <2>1. UNCHANGED <<slots, of, process, retired>> /\ up' \subseteq up /\ orphans' = orphans
    BY <1>2, EndsUp DEF Enter, rest, linkVars, worldVars, history
  <2>2. \A x \in Tasks :
          \/ pc'[x] = pc[x] /\ gen'[x] = gen[x]
          \/ pc[x] \notin Closers \cup {"takes"}
          \/ pc[x] \in Closers /\ pc'[x] \in Closers /\ gen'[x] = gen[x]
    BY <1>2, <2>0, Functions1, TaskNames DEF Enter, rest, callVars, Closers
  <2> QED BY <2>1, <2>2, SlotsKept
<1>3. ASSUME NEW r \in Calls, Started(r) PROVE SlotInv'
  <2>1. UNCHANGED <<slots, of, process, retired>> /\ up' \subseteq up /\ orphans' = orphans
    BY <1>3, EndsUp DEF Started, rest, linkVars, worldVars, history
  <2>2. \A x \in Tasks :
          \/ pc'[x] = pc[x] /\ gen'[x] = gen[x]
          \/ pc[x] \notin Closers \cup {"takes"}
          \/ pc[x] \in Closers /\ pc'[x] \in Closers /\ gen'[x] = gen[x]
    BY <1>3, Functions1, TaskNames DEF Started, rest, callVars, Closers
  <2> QED BY <2>1, <2>2, SlotsKept
<1>4. ASSUME NEW r \in Calls, StartCheck(r) PROVE SlotInv'
  <2>1. UNCHANGED <<slots, of, retired, up>> /\ orphans' = orphans
    BY <1>4 DEF StartCheck, rest, linkVars, worldVars, history
  <2>2. client[r] \in Instances /\ Start(r) \in Tasks /\ pc[Start(r)] = "locks"
          /\ (process[client[r]] # 0 => of[process[client[r]]] = client[r])
        /\ ClientOf(Start(r)) = client[r]
    BY <1>4, Owners, Processes, TaskNames DEF StartCheck, Inv1, ProcessInv, Move, ClientOf
  <2>3. \/ UNCHANGED <<process>> /\ \A x \in Tasks : x # Start(r)
           => pc'[x] = pc[x] /\ gen'[x] = gen[x]
        \/ /\ process[client[r]] # 0 /\ pc' = [pc EXCEPT ![Start(r)] = "clears"]
           /\ gen' = [gen EXCEPT ![Start(r)] = process[client[r]]]
           /\ process' = [process EXCEPT ![client[r]] = 0]
    BY <1>4, Functions1 DEF StartCheck
  <2>4. CASE UNCHANGED <<process>> /\ \A x \in Tasks : x # Start(r)
          => pc'[x] = pc[x] /\ gen'[x] = gen[x]
    <3>1. \A x \in Tasks :
            \/ pc'[x] = pc[x] /\ gen'[x] = gen[x]
            \/ pc[x] \notin Closers \cup {"takes"}
      BY <2>2, <2>4 DEF Closers
    <3> QED BY <2>1, <2>4, <3>1, SlotsKept
  <2>5. CASE /\ process[client[r]] # 0 /\ pc' = [pc EXCEPT ![Start(r)] = "clears"]
             /\ gen' = [gen EXCEPT ![Start(r)] = process[client[r]]]
             /\ process' = [process EXCEPT ![client[r]] = 0]
    BY <2>1, <2>2, <2>5, SlotTaken DEF Closers
  <2> QED BY <2>3, <2>4, <2>5
<1>5. ASSUME NEW r \in Calls, Spawn(r) PROVE SlotInv'
  <2>1. /\ UNCHANGED <<retired, gen>> /\ orphans' = orphans /\ up' = up \cup {gens + 1}
           /\ slots' = slots \cup {gens + 1}
        /\ of' = [of EXCEPT ![gens + 1] = client[r]]
           /\ process' = [process EXCEPT ![client[r]] = gens + 1]
        /\ pc[Start(r)] = "spawns" /\ gens + 1 \in Gens
    BY <1>5, GensNat DEF Spawn, Opens, callVars, history
  <2>2. client[r] \in Instances /\ process[client[r]] = 0 /\ start_lock[client[r]] # None
    BY <2>1, Processes, KeyAssumption DEF LockInv, Empties, Locked, StartPlaces
  <2>3. pc'[Start(r)] = "reads" /\ \A x \in Tasks : x # Start(r) => pc'[x] = pc[x]
    BY <1>5, Functions1, TaskNames DEF Spawn
  <2>4. ASSUME NEW n, n = gens + 1 PROVE Owned(n)'
    <3>1. of'[n] = client[r] /\ process'[client[r]] = n
      BY <2>1, <2>4, <2>2, Functions1
    <3>2. client[r] \in retired => client[r] \in orphans
      BY <2>2 DEF RetireInv
    <3> QED BY <2>1, <3>1, <3>2 DEF Owned
  <2>5. ASSUME NEW g \in slots PROVE Owned(g)'
    <3>1. of[g] \in Instances /\ Owned(g) /\ g <= gens /\ gens \in Nat /\ g \in Gens /\ g # 0
      BY SlotFacts DEF SlotInv
    <3>2. of'[g] = of[g]
      BY <2>1, <3>1, Functions1
    <3>3. of[g] # client[r] => process'[of[g]] = process[of[g]]
      BY <2>1, <3>1, Functions1
    <3>4. \A x \in Tasks : gen[x] = g /\ pc[x] \in Closers => gen'[x] = g /\ pc'[x] \in Closers
      BY <2>1, <2>3 DEF Closers
    <3>5. pc'[<<"retire", of[g]>>] = pc[<<"retire", of[g]>>]
      BY <2>1, <2>3, <3>1, RetireTask
    <3> QED BY <2>1, <2>2, <3>1, <3>2, <3>3, <3>4, <3>5, OwnedKept
  <2>6. up' \subseteq slots' /\ \A g \in slots' : g \in slots \/ g = gens + 1
    BY <2>1 DEF SlotInv
  <2> QED BY <2>4, <2>5, <2>6 DEF SlotInv
<1>6. ASSUME NEW r \in Calls, SpawnFails(r) PROVE SlotInv'
  <2>1. UNCHANGED <<slots, of, process, retired>> /\ up' \subseteq up /\ orphans' = orphans
    BY <1>6, EndsUp DEF SpawnFails, rest, linkVars, worldVars, history
  <2>2. \A x \in Tasks :
          \/ pc'[x] = pc[x] /\ gen'[x] = gen[x]
          \/ pc[x] \notin Closers \cup {"takes"}
          \/ pc[x] \in Closers /\ pc'[x] \in Closers /\ gen'[x] = gen[x]
    BY <1>6, Functions1, TaskNames DEF SpawnFails, rest, callVars, Move, Closers
  <2> QED BY <2>1, <2>2, SlotsKept
<1>7. ASSUME NEW r \in Calls, Initialized(r) PROVE SlotInv'
  <2>1. UNCHANGED <<slots, of, process, retired>> /\ up' \subseteq up /\ orphans' = orphans
    BY <1>7, EndsUp DEF Initialized, rest, linkVars, worldVars, history
  <2>2. \A x \in Tasks :
          \/ pc'[x] = pc[x] /\ gen'[x] = gen[x]
          \/ pc[x] \notin Closers \cup {"takes"}
          \/ pc[x] \in Closers /\ pc'[x] \in Closers /\ gen'[x] = gen[x]
    BY <1>7, Functions1, TaskNames DEF Initialized, rest, callVars, Closers
  <2> QED BY <2>1, <2>2, SlotsKept
<1>8. ASSUME NEW r \in Calls, Answered(r) PROVE SlotInv'
  <2>1. UNCHANGED <<slots, of, process, retired>> /\ up' \subseteq up /\ orphans' = orphans
    BY <1>8, EndsUp DEF Answered, rest, linkVars, worldVars, history
  <2>2. \A x \in Tasks :
          \/ pc'[x] = pc[x] /\ gen'[x] = gen[x]
          \/ pc[x] \notin Closers \cup {"takes"}
          \/ pc[x] \in Closers /\ pc'[x] \in Closers /\ gen'[x] = gen[x]
    BY <1>8, Functions1, TaskNames DEF Answered, rest, callVars, Move, Closers
  <2> QED BY <2>1, <2>2, SlotsKept
<1>9. ASSUME NEW r \in Calls, Recover(r) PROVE SlotInv'
  <2>1. UNCHANGED <<slots, of, retired, up>> /\ orphans' = orphans
    BY <1>9 DEF Recover, rest, linkVars, worldVars, history
  <2>2. client[r] \in Instances /\ Call(r) \in Tasks /\ pc[Call(r)] = "recovers"
          /\ (process[client[r]] # 0 => of[process[client[r]]] = client[r])
        /\ ClientOf(Call(r)) = client[r]
    BY <1>9, Owners, Processes, TaskNames DEF Recover, Inv1, ProcessInv, Move, ClientOf
  <2>3. gen[Call(r)] # 0
    BY <2>2, Bound DEF Sending
  <2>4. CASE process[client[r]] = gen[Call(r)]
    <3>1. /\ pc' = [pc EXCEPT ![Call(r)] = "fails"]
             /\ gen' = [gen EXCEPT ![Call(r)] = process[client[r]]]
          /\ process' = [process EXCEPT ![client[r]] = 0]
      BY <1>9, <2>2, <2>3, <2>4 DEF Recover, Taken
    <3> QED BY <2>1, <2>2, <2>3, <2>4, <3>1, SlotTaken DEF Closers
  <2>5. CASE process[client[r]] # gen[Call(r)]
    <3>1. pc' = [pc EXCEPT ![Call(r)] = "over"] /\ UNCHANGED <<gen, process>>
      BY <1>9, <2>5 DEF Recover
    <3> QED BY <2>1, <2>2, <3>1, Functions1, SlotsKept DEF Closers
  <2> QED BY <2>4, <2>5
<1>10. ASSUME NEW r \in Calls, Completes(r) PROVE SlotInv'
  <2>1. UNCHANGED <<slots, of, process, retired>> /\ up' \subseteq up /\ orphans' = orphans
    BY <1>10, EndsUp DEF Completes, rest, linkVars, worldVars, history
  <2>2. \A x \in Tasks :
          \/ pc'[x] = pc[x] /\ gen'[x] = gen[x]
          \/ pc[x] \notin Closers \cup {"takes"}
          \/ pc[x] \in Closers /\ pc'[x] \in Closers /\ gen'[x] = gen[x]
    BY <1>10, Functions1, TaskNames DEF Completes, rest, callVars, Closers
  <2> QED BY <2>1, <2>2, SlotsKept
<1>11. ASSUME NEW r \in Calls, NEW i \in Instances, Get(r, i) PROVE SlotInv'
  <2>1. UNCHANGED <<slots, of, process, retired, up, gen>> /\ orphans' = orphans
    BY <1>11 DEF Get, linkVars, worldVars, history
  <2>2. \A x \in Tasks : pc'[x] = pc[x] \/ pc[x] = "idle"
    <3>1. \/ pc' = [pc EXCEPT ![Call(r)] = "got"]
          \/ \E old \in Instances :
               /\ registry[Key[i]] = old
                  /\ pc' = [pc EXCEPT ![Call(r)] = "replaces", ![<<"retire", old>>] = "locks"]
      BY <1>11, RegTypes DEF Get
    <3>2. pc[Call(r)] = "idle"
      BY <1>11 DEF Get
    <3>3. \A old \in Instances : registry[Key[i]] = old => pc[<<"retire", old>>] = "idle"
      BY RegTypes, KeyAssumption DEF RetireInv
    <3> QED BY <3>1, <3>2, <3>3, Functions1
  <2> QED BY <2>1, <2>2, SlotsKept DEF Closers
<1>12. ASSUME NEW t \in Tasks, ReadGeneration(t) PROVE SlotInv'
  <2>1. UNCHANGED <<slots, of, process, retired>> /\ up' \subseteq up /\ orphans' = orphans
    BY <1>12, EndsUp DEF ReadGeneration, rest, linkVars, worldVars, history
  <2>2. \A x \in Tasks :
          \/ pc'[x] = pc[x] /\ gen'[x] = gen[x]
          \/ pc[x] \notin Closers \cup {"takes"}
          \/ pc[x] \in Closers /\ pc'[x] \in Closers /\ gen'[x] = gen[x]
    BY <1>12, Functions1, TaskNames DEF ReadGeneration, rest, callVars, Closers
  <2> QED BY <2>1, <2>2, SlotsKept
<1>13. ASSUME NEW t \in Tasks, Send(t) PROVE SlotInv'
  <2>1. UNCHANGED <<slots, of, process, retired>> /\ up' \subseteq up /\ orphans' = orphans
    BY <1>13, EndsUp DEF Send, rest, linkVars, worldVars, history
  <2>2. \A x \in Tasks :
          \/ pc'[x] = pc[x] /\ gen'[x] = gen[x]
          \/ pc[x] \notin Closers \cup {"takes"}
          \/ pc[x] \in Closers /\ pc'[x] \in Closers /\ gen'[x] = gen[x]
    BY <1>13, Functions1, TaskNames DEF Send, rest, callVars, Closers
  <2> QED BY <2>1, <2>2, SlotsKept
<1>14. ASSUME NEW t \in Tasks, WriteFails(t) PROVE SlotInv'
  <2>1. UNCHANGED <<slots, of, process, retired>> /\ up' \subseteq up /\ orphans' = orphans
    BY <1>14, EndsUp DEF WriteFails, rest, linkVars, worldVars, history
  <2>2. \A x \in Tasks :
          \/ pc'[x] = pc[x] /\ gen'[x] = gen[x]
          \/ pc[x] \notin Closers \cup {"takes"}
          \/ pc[x] \in Closers /\ pc'[x] \in Closers /\ gen'[x] = gen[x]
    BY <1>14, Functions1, TaskNames DEF WriteFails, rest, callVars, Move, Closers
  <2> QED BY <2>1, <2>2, SlotsKept
<1>15. ASSUME NEW t \in Tasks, NoticeWrite(t) PROVE SlotInv'
  <2>1. UNCHANGED <<slots, of, process, retired>> /\ up' \subseteq up /\ orphans' = orphans
    BY <1>15, EndsUp DEF NoticeWrite, rest, linkVars, worldVars, history
  <2>2. \A x \in Tasks :
          \/ pc'[x] = pc[x] /\ gen'[x] = gen[x]
          \/ pc[x] \notin Closers \cup {"takes"}
          \/ pc[x] \in Closers /\ pc'[x] \in Closers /\ gen'[x] = gen[x]
    BY <1>15, Functions1, TaskNames DEF NoticeWrite, rest, callVars, Move, Closers
  <2> QED BY <2>1, <2>2, SlotsKept
<1>16. ASSUME NEW t \in Tasks, Timeout(t) PROVE SlotInv'
  <2>1. UNCHANGED <<slots, of, process, retired>> /\ up' \subseteq up /\ orphans' = orphans
    BY <1>16, EndsUp DEF Timeout, rest, linkVars, worldVars, history
  <2>2. \A x \in Tasks :
          \/ pc'[x] = pc[x] /\ gen'[x] = gen[x]
          \/ pc[x] \notin Closers \cup {"takes"}
          \/ pc[x] \in Closers /\ pc'[x] \in Closers /\ gen'[x] = gen[x]
    BY <1>16, Functions1, TaskNames DEF Timeout, rest, callVars, Closers
  <2> QED BY <2>1, <2>2, SlotsKept
<1>17. ASSUME NEW t \in Tasks, Take(t) PROVE SlotInv'
  <2>1. UNCHANGED <<slots, of, retired, up>> /\ orphans' = orphans
    BY <1>17 DEF Take, rest, linkVars, worldVars, history
  <2>2. ClientOf(t) \in Instances /\ t \in Tasks /\ pc[t] = "takes"
          /\ (process[ClientOf(t)] # 0 => of[process[ClientOf(t)]] = ClientOf(t))
        /\ ClientOf(t) = ClientOf(t)
    BY <1>17, Owners, Processes, TaskNames DEF Take, Inv1, ProcessInv, Move, ClientOf
  <2>3. CASE process[ClientOf(t)] # 0
    <3>1. /\ pc' = [pc EXCEPT ![t] = "fails"] /\ gen' = [gen EXCEPT ![t] = process[ClientOf(t)]]
          /\ process' = [process EXCEPT ![ClientOf(t)] = 0]
      BY <1>17, <2>2, <2>3 DEF Take, Taken
    <3> QED BY <2>1, <2>2, <2>3, <3>1, SlotTaken DEF Closers
  <2>4. CASE process[ClientOf(t)] = 0
    <3>1. UNCHANGED <<gen, process>> /\ \A x \in Tasks : x # t => pc'[x] = pc[x]
      BY <1>17, <2>4, Functions1 DEF Take
    <3>2. ASSUME NEW g \in slots' PROVE Owned(g)'
      <4>1. g \in slots /\ of[g] \in Instances /\ Owned(g) /\ g # 0
        BY <2>1, <3>2, SlotFacts DEF SlotInv
      <4>2. \A x \in Tasks : gen[x] = g /\ pc[x] \in Closers => gen'[x] = g /\ pc'[x] \in Closers
        BY <2>2, <3>1 DEF Closers
      <4>3. process[of[g]] = g => t # <<"retire", of[g]>>
        <5>1. t = <<"retire", of[g]>> => ClientOf(t) = of[g]
          BY DEF ClientOf
        <5> QED BY <2>4, <4>1, <5>1
      <4>4. pc'[<<"retire", of[g]>>] # "takes"
              => pc[<<"retire", of[g]>>] # "takes" \/ t = <<"retire", of[g]>>
        BY <3>1, <4>1, TaskNames
      <4> QED BY <2>1, <3>1, <4>1, <4>2, <4>3, <4>4, OwnedKept
    <3> QED BY <2>1, <3>2 DEF SlotInv
  <2> QED BY <2>3, <2>4
<1>18. ASSUME NEW t \in Tasks, FailPending(t) PROVE SlotInv'
  <2>1. UNCHANGED <<slots, of, process, retired>> /\ up' \subseteq up /\ orphans' = orphans
    BY <1>18, EndsUp DEF FailPending, rest, linkVars, worldVars, history
  <2>2. UNCHANGED gen /\ \A x \in Tasks :
          \/ pc'[x] = pc[x]
          \/ pc[x] = "waits"
          \/ pc[x] = "fails" /\ pc'[x] = "kills"
    BY <1>18, FailingTypes DEF FailPending, Inv1, Types, rest, callVars
  <2> QED BY <2>1, <2>2, SlotsKept DEF Closers
<1>19. ASSUME NEW t \in Tasks, Terminate(t) PROVE SlotInv'
  <2>1. UNCHANGED <<slots, of, process, retired>> /\ up' \subseteq up /\ orphans' = orphans
    BY <1>19, EndsUp DEF Terminate, rest, linkVars, worldVars, history
  <2>2. \A x \in Tasks :
          \/ pc'[x] = pc[x] /\ gen'[x] = gen[x]
          \/ pc[x] \notin Closers \cup {"takes"}
          \/ pc[x] \in Closers /\ pc'[x] \in Closers /\ gen'[x] = gen[x]
    BY <1>19, Functions1, TaskNames DEF Terminate, rest, callVars, Move, Closers
  <2> QED BY <2>1, <2>2, SlotsKept
<1>20. ASSUME NEW t \in Tasks, Join(t) PROVE SlotInv'
  <2>1. /\ UNCHANGED <<retired, gen, process, of>> /\ orphans' = orphans
           /\ up' = up \ {gen[t]} /\ slots' = slots \ {gen[t]}
        /\ pc[t] \in {"joins", "awaits"} /\ \A x \in Tasks : x # t => pc'[x] = pc[x]
    BY <1>20, Functions1 DEF Join, rest, callVars, linkVars
  <2>2. ASSUME NEW g \in slots' PROVE Owned(g)'
    <3>1. g \in slots /\ of[g] \in Instances /\ Owned(g) /\ g # gen[t]
      BY <2>1, <2>2, SlotFacts DEF SlotInv
    <3>2. \A x \in Tasks : gen[x] = g /\ pc[x] \in Closers => gen'[x] = g /\ pc'[x] \in Closers
      BY <2>1, <3>1
    <3>3. pc'[<<"retire", of[g]>>] # "takes" => pc[<<"retire", of[g]>>] # "takes"
      BY <2>1, <3>1, RetireTask
    <3> QED BY <2>1, <3>1, <3>2, <3>3, OwnedKept
  <2> QED BY <2>1, <2>2 DEF SlotInv
<1>21. ASSUME NEW t \in Tasks, StopDaemon(t) PROVE SlotInv'
  <2>1. UNCHANGED <<slots, of, process, retired>> /\ up' \subseteq up /\ orphans' = orphans
    BY <1>21, EndsUp DEF StopDaemon, rest, linkVars, worldVars, history
  <2>2. \A x \in Tasks :
          \/ pc'[x] = pc[x] /\ gen'[x] = gen[x]
          \/ pc[x] \notin Closers \cup {"takes"}
          \/ pc[x] \in Closers /\ pc'[x] \in Closers /\ gen'[x] = gen[x]
    BY <1>21, Functions1, TaskNames DEF StopDaemon, rest, callVars, Move, Closers
  <2> QED BY <2>1, <2>2, SlotsKept
<1>22. ASSUME NEW i \in Instances, Kill(i) PROVE SlotInv'
  <2>1. UNCHANGED <<slots, of, retired, up>> /\ orphans' = orphans
    BY <1>22 DEF Kill, rest, linkVars, worldVars, history
  <2>2. i \in Instances /\ <<"kill", i>> \in Tasks /\ pc[<<"kill", i>>] = "idle"
          /\ (process[i] # 0 => of[process[i]] = i)
        /\ ClientOf(<<"kill", i>>) = i
    BY <1>22, Owners, Processes, TaskNames DEF Kill, Inv1, ProcessInv, Move, ClientOf
  <2>3. /\ process[i] # 0 /\ pc' = [pc EXCEPT ![<<"kill", i>>] = "fails"]
        /\ gen' = [gen EXCEPT ![<<"kill", i>>] = process[i]] /\ process' = [process EXCEPT ![i] = 0]
    BY <1>22, <2>2 DEF Kill, Taken
  <2> QED BY <2>1, <2>2, <2>3, SlotTaken DEF Closers
<1>23. ASSUME NEW i \in Instances, EvictChecks(i) PROVE SlotInv'
  <2>1. UNCHANGED <<slots, of, process, retired, up, orphans, gen>>
    BY <1>23 DEF EvictChecks, linkVars, worldVars, callVars
  <2>2. <<"evict", i>> \in Tasks /\ pc[<<"evict", i>>] = "idle"
          /\ pc' = [pc EXCEPT ![<<"evict", i>>] = "takes"]
    BY <1>23, TaskNames DEF EvictChecks, Move
  <2>3. \A x \in Tasks : pc'[x] = pc[x] \/ pc[x] = "idle"
    BY <2>2, Functions1
  <2> QED BY <2>1, <2>3, SlotsKept DEF Closers
<1>24. ASSUME NEW i \in Instances, RetireLocks(i) PROVE SlotInv'
  <2>1. UNCHANGED <<slots, of, process, up, gen>> /\ orphans \subseteq orphans'
          /\ retired' = retired \cup {i}
    BY <1>24 DEF RetireLocks, linkVars, worldVars, callVars
  <2>2. pc'[<<"retire", i>>] = "takes" /\ \A x \in Tasks : pc'[x] = pc[x]
          \/ (pc[x] = "locks" /\ x = <<"retire", i>>)
    BY <1>24, Functions1, RetireTask DEF RetireLocks, Move
  <2>3. ASSUME NEW g \in slots' PROVE Owned(g)'
    <3>1. g \in slots /\ of[g] \in Instances /\ Owned(g)
      BY <2>1, <2>3, SlotFacts DEF SlotInv
    <3>2. \A x \in Tasks : gen[x] = g /\ pc[x] \in Closers => gen'[x] = g /\ pc'[x] \in Closers
      BY <2>1, <2>2 DEF Closers
    <3>3. of[g] \in retired' /\ pc'[<<"retire", of[g]>>] # "takes" =>
             of[g] \in retired /\ pc[<<"retire", of[g]>>] # "takes"
      BY <2>1, <2>2, <3>1, RetireTask
    <3> QED BY <2>1, <3>1, <3>2, <3>3, OwnedKept
  <2> QED BY <2>1, <2>3 DEF SlotInv
<1>25. ASSUME NEW g \in 1..gens, Notice(g) PROVE SlotInv'
  <2>1. UNCHANGED <<slots, of, process, retired>> /\ up' \subseteq up /\ orphans' = orphans
    BY <1>25, EndsUp DEF Notice, rest, linkVars, worldVars, history
  <2>2. \A x \in Tasks :
          \/ pc'[x] = pc[x] /\ gen'[x] = gen[x]
          \/ pc[x] \notin Closers \cup {"takes"}
          \/ pc[x] \in Closers /\ pc'[x] \in Closers /\ gen'[x] = gen[x]
    BY <1>25, Functions1, TaskNames DEF Notice, rest, callVars, Closers
  <2> QED BY <2>1, <2>2, SlotsKept
<1>26. ASSUME NEW g \in 1..gens, ShutsDown(g) PROVE SlotInv'
  <2>1. UNCHANGED <<slots, of, process, retired>> /\ up' \subseteq up /\ orphans' = orphans
    BY <1>26, EndsUp DEF ShutsDown, rest, linkVars, worldVars, history
  <2>2. \A x \in Tasks :
          \/ pc'[x] = pc[x] /\ gen'[x] = gen[x]
          \/ pc[x] \notin Closers \cup {"takes"}
          \/ pc[x] \in Closers /\ pc'[x] \in Closers /\ gen'[x] = gen[x]
    BY <1>26, Functions1, TaskNames DEF ShutsDown, rest, callVars, Closers
  <2> QED BY <2>1, <2>2, SlotsKept
<1>27. ASSUME NEW g \in 1..gens, FailFirst(g) PROVE SlotInv'
  <2>1. UNCHANGED <<slots, of, process, retired>> /\ up' \subseteq up /\ orphans' = orphans
    BY <1>27, EndsUp DEF FailFirst, rest, linkVars, worldVars, history
  <2>2. UNCHANGED gen /\ \A x \in Tasks :
          \/ pc'[x] = pc[x]
          \/ pc[x] = "waits"
          \/ pc[x] = "fails" /\ pc'[x] = "kills"
    BY <1>27, FailingTypes DEF FailFirst, Inv1, Types, rest, callVars
  <2> QED BY <2>1, <2>2, SlotsKept DEF Closers
<1>28. ASSUME NEW g \in 1..gens, Finalize(g) PROVE SlotInv'
  <2>0. g \in Gens /\ of[g] \in Instances /\ sup[g] # "on" /\ UNCHANGED <<of, retired, up, gen>>
        /\ orphans' = orphans
    BY <1>28, GensGiven DEF Finalize, rest, linkVars, worldVars, history, callVars
  <2>1. \A x \in Tasks : pc'[x] = pc[x] \/ pc[x] = "waits"
    BY <1>28, FailingTypes DEF Finalize, Inv1, Types
  <2>2. CASE process[of[g]] # g
    <3>1. UNCHANGED <<process, slots>>
      BY <1>28, <2>2 DEF Finalize
    <3> QED BY <2>0, <2>1, <3>1, SlotsKept DEF Closers
  <2>3. CASE process[of[g]] = g
    <3>1. slots' = slots \ {g} /\ \A i \in Instances : i # of[g] => process'[i] = process[i]
      BY <1>28, <2>3, Functions1 DEF Finalize
    <3>2. up' \subseteq slots'
      BY <2>0, <3>1 DEF SlotInv, UpInv
    <3>3. ASSUME NEW h \in slots' PROVE Owned(h)'
      <4>1. h \in slots /\ h # g /\ of[h] \in Instances /\ Owned(h) /\ of'[h] = of[h]
        BY <2>0, <3>1, <3>3, SlotFacts DEF SlotInv
      <4>2. process[of[h]] = h => process'[of[h]] = h
        BY <2>3, <3>1, <4>1
      <4>3. \A t \in Tasks : gen[t] = h /\ pc[t] \in Closers => gen'[t] = h /\ pc'[t] \in Closers
        BY <2>0, <2>1 DEF Closers
      <4>4. pc'[<<"retire", of[h]>>] # "takes" => pc[<<"retire", of[h]>>] # "takes"
        BY <2>1, <4>1, RetireTask
      <4> QED BY <2>0, <4>1, <4>2, <4>3, <4>4, OwnedKept
    <3> QED BY <3>2, <3>3 DEF SlotInv
  <2> QED BY <2>2, <2>3
<1>29. ASSUME NEW g \in 1..gens, Drained(g) PROVE SlotInv'
  <2>1. UNCHANGED <<slots, of, process, retired>> /\ up' \subseteq up /\ orphans' = orphans
    BY <1>29, EndsUp DEF Drained, rest, linkVars, worldVars, history
  <2>2. \A x \in Tasks :
          \/ pc'[x] = pc[x] /\ gen'[x] = gen[x]
          \/ pc[x] \notin Closers \cup {"takes"}
          \/ pc[x] \in Closers /\ pc'[x] \in Closers /\ gen'[x] = gen[x]
    BY <1>29, Functions1, TaskNames DEF Drained, rest, callVars, Closers
  <2> QED BY <2>1, <2>2, SlotsKept
<1>30. ASSUME NEW g \in 1..gens, ReadLine(g) PROVE SlotInv'
  <2>1. UNCHANGED <<slots, of, process, retired, up, gen>> /\ orphans' = orphans
    BY <1>30 DEF ReadLine, rest, linkVars, worldVars, callVars
  <2>2. g \in Gens /\ lines[g] # <<>>
    BY <1>30, GensGiven DEF ReadLine
  <2>3. PICK t \in Tasks :
          \/ UNCHANGED pc
          \/ pending[t] # 0 /\ pc' = [pc EXCEPT ![t] = "answered"]
    BY <1>30, <2>2, Lines0 DEF ReadLine
  <2>4. \A x \in Tasks : pc'[x] = pc[x] \/ pc[x] \in {"waits", "writes"}
    BY <2>3, LinkFacts, Functions1 DEF Linked
  <2> QED BY <2>1, <2>4, SlotsKept DEF Closers
<1>31. ASSUME NEW g \in 1..gens, Exits(g) PROVE SlotInv'
  <2>1. UNCHANGED <<slots, of, process, retired>> /\ up' \subseteq up /\ orphans' = orphans
    BY <1>31, EndsUp DEF Exits, rest, linkVars, worldVars, history
  <2>2. \A x \in Tasks :
          \/ pc'[x] = pc[x] /\ gen'[x] = gen[x]
          \/ pc[x] \notin Closers \cup {"takes"}
          \/ pc[x] \in Closers /\ pc'[x] \in Closers /\ gen'[x] = gen[x]
    BY <1>31, Functions1, TaskNames DEF Exits, rest, callVars, Closers
  <2> QED BY <2>1, <2>2, SlotsKept
<1>32. ASSUME NEW g \in 1..gens, Drops(g) PROVE SlotInv'
  <2>1. UNCHANGED <<slots, of, process, retired>> /\ up' \subseteq up /\ orphans' = orphans
    BY <1>32, EndsUp DEF Drops, rest, linkVars, worldVars, history
  <2>2. \A x \in Tasks :
          \/ pc'[x] = pc[x] /\ gen'[x] = gen[x]
          \/ pc[x] \notin Closers \cup {"takes"}
          \/ pc[x] \in Closers /\ pc'[x] \in Closers /\ gen'[x] = gen[x]
    BY <1>32, Functions1, TaskNames DEF Drops, rest, callVars, Closers
  <2> QED BY <2>1, <2>2, SlotsKept
<1>33. ASSUME NEW g \in 1..gens, NEW t \in Tasks, Accept(g, t) PROVE SlotInv'
  <2>1. UNCHANGED <<slots, of, process, retired>> /\ up' \subseteq up /\ orphans' = orphans
    BY <1>33, EndsUp DEF Accept, rest, linkVars, worldVars, history
  <2>2. \A x \in Tasks :
          \/ pc'[x] = pc[x] /\ gen'[x] = gen[x]
          \/ pc[x] \notin Closers \cup {"takes"}
          \/ pc[x] \in Closers /\ pc'[x] \in Closers /\ gen'[x] = gen[x]
    BY <1>33, Functions1, TaskNames DEF Accept, rest, callVars, Closers
  <2> QED BY <2>1, <2>2, SlotsKept
<1>34. ASSUME UNCHANGED <<up, slots, of, process, retired, pc, gen, orphans>> PROVE SlotInv'
  BY <1>34 DEF SlotInv, Owned
<1> QED BY <1>1, <1>2, <1>3, <1>4, <1>5, <1>6, <1>7, <1>8, <1>9, <1>10, <1>11, <1>12, <1>13,
           <1>14, <1>15, <1>16, <1>17, <1>18, <1>19, <1>20, <1>21, <1>22, <1>23, <1>24,
           <1>25, <1>26, <1>27, <1>28, <1>29, <1>30, <1>31, <1>32, <1>33, <1>34 DEF Next, vars

-----------------------------------------------------------------------------
(* The handshake; a start and the supervisor of its process.                *)

\* A client nobody starts has an initialized process or none; so has a start that is over.
ReadyInv ==
  /\ \A i \in Instances : start_lock[i] = None /\ process[i] # 0 => process[i] \in ready
  /\ \A r \in Calls : pc[Start(r)] = "ok" => gen[Start(r)] \in ready

\* Who got the lock and no new process has an initialized one.
LEMMA ReadyKept ==
  ASSUME ReadyInv, ready \subseteq ready',
         \A i \in Instances : start_lock'[i] = None /\ process'[i] # 0 =>
           \/ start_lock[i] = None /\ process'[i] = process[i]
           \/ process'[i] \in ready',
         \A r \in Calls : pc'[Start(r)] = "ok" =>
           \/ pc[Start(r)] = "ok" /\ gen'[Start(r)] = gen[Start(r)]
           \/ gen'[Start(r)] \in ready'
  PROVE  ReadyInv'
  BY DEF ReadyInv

\* What reading a line does to the tasks.
LEMMA ReadEffect ==
  ASSUME Inv1, NEW g \in 1..gens, ReadLine(g)
  PROVE  \A x \in Tasks :
           \/ pc'[x] = pc[x] /\ pending'[x] = pending[x]
           \/ /\ pc[x] \in {"waits", "writes"} /\ pending[x] # 0
              /\ pc'[x] = "answered" /\ pending'[x] = 0
<1>1. g \in Gens /\ lines[g] # <<>>
  BY GensGiven DEF ReadLine
<1>2. PICK t \in Tasks :
        \/ UNCHANGED <<pc, pending>>
        \/ /\ pending[t] # 0 /\ pc' = [pc EXCEPT ![t] = "answered"]
           /\ pending' = [pending EXCEPT ![t] = 0]
  BY <1>1, Lines0 DEF ReadLine
<1>3. pending[t] # 0 => pc[t] \in {"waits", "writes"}
  BY LinkFacts DEF Linked
<1> QED BY <1>2, <1>3, Functions1

\* What the failure of the requests to a process does to them.
LEMMA FailEffect ==
  ASSUME Inv1, NEW g, NEW x \in Tasks, pc'[x] = Failing(g)[x], pending'[x] = Without(g)[x]
  PROVE  IF pending[x] = g
         THEN /\ pending'[x] = 0
              /\ IF pc[x] = "waits" THEN pc'[x] = (IF x[1] = "start"
                 THEN "takes" ELSE "over") ELSE pc'[x] = pc[x]
         ELSE pending'[x] = pending[x] /\ pc'[x] = pc[x]
  BY FailingTypes, Outcomes DEF Inv1, Types
\* What the task that took a process does to the requests on it.
LEMMA FailPendingEffect ==
  ASSUME Inv1, NEW t \in Tasks, FailPending(t)
  PROVE  /\ pc[t] = "fails" /\ pc'[t] = "kills" /\ pending'[t] = 0 /\ pending[t] = 0
         /\ \A x \in Tasks : x # t
            => pc'[x] = Failing(gen[t])[x] /\ pending'[x] = Without(gen[t])[x]
<1>1. pc[t] = "fails" /\ pending' = Without(gen[t]) /\ pc' = [Failing(gen[t]) EXCEPT ![t] = "kills"]
  BY DEF FailPending
<1>2. pending[t] = 0
  BY <1>1, LinkFacts DEF Linked
<1> QED BY <1>1, <1>2, FailingTypes DEF Inv1, Types
\* What letting the lock go does.
LEMMA UnlockEffect ==
  ASSUME Inv1, NEW t \in Tasks, Unlocks(t)
  PROVE  IF t[1] = "start"
         THEN /\ t[2] \in Calls /\ t = Start(t[2])
              /\ start_lock' = [start_lock EXCEPT ![client[t[2]]] = None]
         ELSE UNCHANGED start_lock
  BY StartTask DEF Unlocks

\* ReadyInv is kept: the lock is let go after the handshake, or without a process.
LEMMA ReadyInvStep ==
  ASSUME Inv1, LockInv, ReadyInv, [Next]_vars
  PROVE  ReadyInv'
<1>1. ASSUME NEW r \in Calls, Replaced(r) PROVE ReadyInv'
  BY <1>1, Functions1, TaskNames, Outcomes DEF Replaced, ReadyInv
<1>2. ASSUME NEW r \in Calls, Enter(r) PROVE ReadyInv'
  BY <1>2, Functions1, TaskNames, Outcomes DEF Enter, rest, ReadyInv
<1>3. ASSUME NEW r \in Calls, Started(r) PROVE ReadyInv'
  BY <1>3, Functions1, TaskNames, Outcomes DEF Started, rest, ReadyInv
<1>4. ASSUME NEW r \in Calls, StartCheck(r) PROVE ReadyInv'
  <2>1. UNCHANGED ready /\ pc[Start(r)] = "locks" /\ start_lock[client[r]] = None
          /\ client[r] \in Instances
    BY <1>4, Processes DEF StartCheck, rest
  <2>2. \A s \in Calls : s # r => pc'[Start(s)] = pc[Start(s)] /\ gen'[Start(s)] = gen[Start(s)]
    BY <1>4, Functions1, TaskNames DEF StartCheck
  <2>3. \A i \in Instances : \/ start_lock'[i] = start_lock[i] /\ process'[i] = process[i]
                            \/ start_lock'[i] = r
    BY <1>4, <2>1, Functions1 DEF StartCheck
  <2>4. pc'[Start(r)] = "ok" => gen'[Start(r)] = process[client[r]] /\ process[client[r]] # 0
    BY <1>4, Functions1, TaskNames DEF StartCheck
  <2> QED BY <2>1, <2>2, <2>3, <2>4, KeyAssumption, ReadyKept DEF ReadyInv
<1>5. ASSUME NEW r \in Calls, Spawn(r) PROVE ReadyInv'
  <2>1. UNCHANGED <<ready, start_lock, gen>> /\ pc[Start(r)] = "spawns" /\ client[r] \in Instances
        /\ process' = [process EXCEPT ![client[r]] = gens + 1]
    BY <1>5, Processes DEF Spawn, callVars
  <2>2. \A s \in Calls : pc'[Start(s)] = "ok" => pc[Start(s)] = "ok"
    BY <1>5, Functions1, TaskNames DEF Spawn
  <2>3. \A i \in Instances : i # client[r] => process'[i] = process[i]
    BY <2>1, Functions1
  <2>4. start_lock[client[r]] # None
    BY <2>1, KeyAssumption DEF LockInv, Locked, StartPlaces
  <2> QED BY <2>1, <2>2, <2>3, <2>4, ReadyKept
<1>6. ASSUME NEW r \in Calls, SpawnFails(r) PROVE ReadyInv'
  <2>1. UNCHANGED <<ready, process, gen>> /\ pc[Start(r)] = "spawns" /\ client[r] \in Instances
    BY <1>6, Processes DEF SpawnFails, Move, rest
  <2>2. \A s \in Calls : pc'[Start(s)] = "ok" => pc[Start(s)] = "ok"
    BY <1>6, Functions1, TaskNames DEF SpawnFails, Move
  <2>3. \A i \in Instances : i # client[r] => start_lock'[i] = start_lock[i]
    BY <1>6, Functions1 DEF SpawnFails
  <2>4. process[client[r]] = 0
    BY <2>1 DEF LockInv, Empties
  <2> QED BY <2>1, <2>2, <2>3, <2>4, ReadyKept
<1>7. ASSUME NEW r \in Calls, Initialized(r) PROVE ReadyInv'
  <2>1. UNCHANGED process /\ pc[Start(r)] = "answered" /\ client[r] \in Instances
    BY <1>7, Processes DEF Initialized
  <2>2. \A s \in Calls : s # r => pc'[Start(s)] = pc[Start(s)] /\ gen'[Start(s)] = gen[Start(s)]
    BY <1>7, Functions1, TaskNames DEF Initialized
  <2>3. CASE process[client[r]] # 0 /\ process[client[r]] \in up
    <3>1. ready' = ready \cup {process[client[r]]}
            /\ start_lock' = [start_lock EXCEPT ![client[r]] = None]
          /\ gen' = [gen EXCEPT ![Start(r)] = process[client[r]]]
      BY <1>7, <2>3 DEF Initialized
    <3>2. gen'[Start(r)] = process[client[r]] /\ \A i \in Instances : i # client[r]
            => start_lock'[i] = start_lock[i]
      BY <3>1, Functions1, TaskNames
    <3> QED BY <2>1, <2>2, <3>1, <3>2, ReadyKept
  <2>4. CASE ~ (process[client[r]] # 0 /\ process[client[r]] \in up)
    <3>1. UNCHANGED <<ready, start_lock>> /\ pc'[Start(r)] = "takes"
      BY <1>7, <2>4, Functions1, TaskNames DEF Initialized
    <3> QED BY <2>1, <2>2, <3>1, ReadyKept
  <2> QED BY <2>3, <2>4
<1>8. ASSUME NEW r \in Calls, Answered(r) PROVE ReadyInv'
  BY <1>8, Functions1, TaskNames, Outcomes DEF Answered, Move, rest, ReadyInv
<1>9. ASSUME NEW r \in Calls, Recover(r) PROVE ReadyInv'
  BY <1>9, Functions1, TaskNames, Outcomes DEF Recover, Taken, rest, ReadyInv
<1>10. ASSUME NEW r \in Calls, NEW i \in Instances, Get(r, i) PROVE ReadyInv'
  BY <1>10, Functions1, TaskNames, Outcomes DEF Get, ReadyInv
<1>11. ASSUME NEW t \in Tasks, ReadGeneration(t) PROVE ReadyInv'
  BY <1>11, Functions1, TaskNames, Outcomes DEF ReadGeneration, rest, ReadyInv
<1>12. ASSUME NEW t \in Tasks, Send(t) PROVE ReadyInv'
  BY <1>12, Functions1, TaskNames, Outcomes DEF Send, rest, ReadyInv
<1>13. ASSUME NEW t \in Tasks, WriteFails(t) PROVE ReadyInv'
  BY <1>13, Functions1, TaskNames, Outcomes DEF WriteFails, Move, rest, ReadyInv
<1>14. ASSUME NEW t \in Tasks, NoticeWrite(t) PROVE ReadyInv'
  BY <1>14, Functions1, TaskNames, Outcomes DEF NoticeWrite, Move, rest, ReadyInv
<1>15. ASSUME NEW t \in Tasks, Timeout(t) PROVE ReadyInv'
  BY <1>15, Functions1, TaskNames, Outcomes DEF Timeout, rest, ReadyInv
<1>16. ASSUME NEW t \in Tasks, Take(t) PROVE ReadyInv'
  <2>1. UNCHANGED ready /\ pc[t] = "takes" /\ ClientOf(t) \in Instances
    BY <1>16, Owners DEF Take, rest
  <2>2. \A x \in Tasks : x # t => pc'[x] = pc[x] /\ gen'[x] = gen[x]
    BY <1>16, Functions1 DEF Take, Taken
  <2>3. pc'[t] # "ok"
    BY <1>16, Functions1, AfterPlaces DEF Take, Taken
  <2>4. CASE process[ClientOf(t)] = 0
    <3>1. UNCHANGED process /\ Unlocks(t)
      BY <1>16, <2>4 DEF Take
    <3>2. \A i \in Instances : i # ClientOf(t) => start_lock'[i] = start_lock[i]
      BY <3>1, UnlockEffect, Functions1 DEF ClientOf
    <3> QED BY <2>1, <2>2, <2>3, <2>4, <3>1, <3>2, TaskNames, ReadyKept
  <2>5. CASE process[ClientOf(t)] # 0
    <3>1. UNCHANGED start_lock /\ Taken(t, process[ClientOf(t)], "fails")
      BY <1>16, <2>5 DEF Take
    <3>2. \A i \in Instances : process'[i] \in {0, process[i]}
      BY <3>1, TakenProcess
    <3> QED BY <2>1, <2>2, <2>3, <3>1, <3>2, TaskNames, ReadyKept
  <2> QED BY <2>4, <2>5
<1>17. ASSUME NEW t \in Tasks, FailPending(t) PROVE ReadyInv'
  <2>1. UNCHANGED <<ready, process, start_lock, gen>>
    BY <1>17 DEF FailPending, rest, callVars
  <2>2. \A x \in Tasks : pc'[x] = "ok" => pc[x] = "ok"
    BY <1>17, FailPendingEffect, FailEffect
  <2> QED BY <2>1, <2>2, TaskNames, ReadyKept
<1>18. ASSUME NEW t \in Tasks, Terminate(t) PROVE ReadyInv'
  BY <1>18, Functions1, TaskNames, Outcomes DEF Terminate, Move, rest, ReadyInv
<1>19. ASSUME NEW t \in Tasks, Join(t) PROVE ReadyInv'
  <2>1. UNCHANGED <<ready, process, gen>> /\ pc[t] \in {"joins", "awaits"}
          /\ ClientOf(t) \in Instances
    BY <1>19, Owners DEF Join, rest, callVars
  <2>2. \A x \in Tasks : x # t => pc'[x] = pc[x]
    BY <1>19, Functions1 DEF Join
  <2>3. pc'[t] # "ok"
    BY <1>19, Functions1, AfterPlaces DEF Join
  <2>4. UNCHANGED start_lock \/ Unlocks(t)
    BY <1>19 DEF Join
  <2>5. \A i \in Instances : \/ start_lock'[i] = start_lock[i]
                            \/ process[i] = 0
    <3>1. \A i \in Instances : i # ClientOf(t) => start_lock'[i] = start_lock[i]
      BY <2>4, UnlockEffect, Functions1 DEF ClientOf
    <3>2. t[1] = "start" => process[ClientOf(t)] = 0
      BY <2>1, StartTask DEF ClientOf, LockInv, Empties, Closers
    <3>3. t[1] # "start" => UNCHANGED start_lock
      BY <2>4, UnlockEffect
    <3> QED BY <3>1, <3>2, <3>3
  <2> QED BY <2>1, <2>2, <2>3, <2>5, TaskNames, ReadyKept
<1>20. ASSUME NEW t \in Tasks, StopDaemon(t) PROVE ReadyInv'
  BY <1>20, Functions1, TaskNames, Outcomes DEF StopDaemon, Move, rest, ReadyInv
<1>21. ASSUME NEW i \in Instances, Kill(i) PROVE ReadyInv'
  BY <1>21, Functions1, TaskNames, Outcomes DEF Kill, Taken, ReadyInv
<1>22. ASSUME NEW i \in Instances, EvictChecks(i) PROVE ReadyInv'
  BY <1>22, Functions1, TaskNames, Outcomes DEF EvictChecks, Move, ReadyInv
<1>23. ASSUME NEW i \in Instances, RetireLocks(i) PROVE ReadyInv'
  BY <1>23, Functions1, TaskNames, Outcomes DEF RetireLocks, Move, ReadyInv
<1>24. ASSUME NEW g \in 1..gens, FailFirst(g) PROVE ReadyInv'
  <2>1. UNCHANGED <<ready, start_lock, gen>>
    BY <1>24 DEF FailFirst, rest, callVars
  <2>2. \A x \in Tasks : pc'[x] = "ok" => pc[x] = "ok"
    <3>1. UNCHANGED pc \/ pc' = Failing(g)
      BY <1>24 DEF FailFirst
    <3> QED BY <3>1, FailingTypes, Outcomes DEF Inv1, Types
  <2>3. \A i \in Instances : process'[i] \in {0, process[i]}
    BY <1>24, Functions1 DEF FailFirst
  <2> QED BY <2>1, <2>2, <2>3, TaskNames, ReadyKept
<1>25. ASSUME NEW g \in 1..gens, Finalize(g) PROVE ReadyInv'
  <2>1. UNCHANGED <<ready, start_lock, gen>>
    BY <1>25 DEF Finalize, rest, callVars
  <2>2. \A x \in Tasks : pc'[x] = "ok" => pc[x] = "ok"
    <3>1. UNCHANGED pc \/ pc' = Failing(g)
      BY <1>25 DEF Finalize
    <3> QED BY <3>1, FailingTypes, Outcomes DEF Inv1, Types
  <2>3. \A i \in Instances : process'[i] \in {0, process[i]}
    BY <1>25, Functions1 DEF Finalize
  <2> QED BY <2>1, <2>2, <2>3, TaskNames, ReadyKept
<1>26. ASSUME NEW g \in 1..gens, ReadLine(g) PROVE ReadyInv'
  BY <1>26, Functions1, TaskNames, Outcomes DEF ReadLine, rest, ReadyInv
<1>27. ASSUME UNCHANGED <<start_lock, process, ready, pc, gen>> PROVE ReadyInv'
  BY <1>27 DEF ReadyInv
<1>28. ASSUME NEW r \in Calls,
       Completes(r)
      PROVE ReadyInv'
  BY <1>28, <1>27 DEF Completes, rest
<1>29. ASSUME NEW g \in 1..gens,
       Notice(g) \/ ShutsDown(g) \/ Drained(g) \/ Exits(g) \/ Drops(g)
      PROVE ReadyInv'
  BY <1>29, <1>27 DEF Notice, rest, ShutsDown, Drained, Exits, Drops
<1>30. ASSUME NEW g \in 1..gens, NEW t \in Tasks,
       Accept(g, t)
      PROVE ReadyInv'
  BY <1>30, <1>27 DEF Accept, rest
<1> QED BY <1>1, <1>2, <1>3, <1>4, <1>5, <1>6, <1>7, <1>8, <1>9, <1>10, <1>11, <1>12, <1>13,
           <1>14, <1>15, <1>16, <1>17, <1>18, <1>19, <1>20, <1>21, <1>22, <1>23, <1>24,
           <1>25, <1>26, <1>27, <1>28, <1>29, <1>30 DEF Next, vars

\* NoMutualWait is kept: a supervisor fails the requests before it asks for the lock.
LEMMA MutualStep ==
  ASSUME Inv1, UpInv, NoMutualWait, [Next]_vars
  PROVE  NoMutualWait'
<1>1. ASSUME NEW r \in Calls, Replaced(r) PROVE NoMutualWait'
  BY <1>1, Functions1, TaskNames, Outcomes, GensNat, GensGiven DEF Replaced, linkVars,
                                                                   NoMutualWait, SupTypes
<1>2. ASSUME NEW r \in Calls, Enter(r) PROVE NoMutualWait'
  <2>1. gens' = gens
    BY <1>2 DEF Enter, rest, linkVars
  <2>0. pending[Start(r)] = 0
    <3>1. pc[Start(r)] = "idle"
      BY <1>2, EarlyStarts DEF Enter, Early
    <3> QED BY <3>1, LinkFacts, TaskNames DEF Linked
  <2>2. \A h \in 1..gens : sup'[h] \in {"lossLocks", "exitLocks"} => sup'[h] = sup[h]
    BY <1>2, GensGiven, Functions1, <2>0 DEF Enter, SupTypes
  <2>3. \A s \in Calls : \/ pending'[Start(s)] = pending[Start(s)] /\ pc'[Start(s)] = pc[Start(s)]
                        \/ pending'[Start(s)] = 0
    BY <1>2, Functions1, TaskNames, LinkFacts, <2>0 DEF Enter, Linked
  <2> QED BY <2>1, <2>2, <2>3, GensNat DEF NoMutualWait
<1>3. ASSUME NEW r \in Calls, Started(r) PROVE NoMutualWait'
  BY <1>3, Functions1, TaskNames, Outcomes, GensNat, GensGiven DEF Started, rest, linkVars,
                                                                   NoMutualWait, SupTypes
<1>4. ASSUME NEW r \in Calls, StartCheck(r) PROVE NoMutualWait'
  BY <1>4, Functions1, TaskNames, Outcomes, GensNat, GensGiven DEF StartCheck, rest,
                                                                   linkVars, NoMutualWait,
                                                                   SupTypes
<1>5. ASSUME NEW r \in Calls, Spawn(r) PROVE NoMutualWait'
  <2>1. gens' = gens + 1 /\ sup' = [sup EXCEPT ![gens + 1] = "on"] /\ UNCHANGED pending
          /\ gens + 1 \in Gens
        /\ gens \in Nat
    BY <1>5, GensNat DEF Spawn, Opens
  <2>2. \A h \in 1..gens' : sup'[h] \in {"lossLocks", "exitLocks"}
          => h \in 1..gens /\ sup'[h] = sup[h]
    BY <2>1, Functions1, GensNat DEF SupTypes
  <2>3. pending[Start(r)] = 0 /\ \A s \in Calls : s # r => pc'[Start(s)] = pc[Start(s)]
    <3>1. pc[Start(r)] = "spawns" /\ pc' = [pc EXCEPT ![Start(r)] = "reads"]
      BY <1>5 DEF Spawn
    <3>2. pending[Start(r)] = 0
      BY <3>1, LinkFacts, TaskNames DEF Linked
    <3> QED BY <3>1, <3>2, Functions1, TaskNames
  <2> QED BY <2>1, <2>2, <2>3 DEF NoMutualWait
<1>6. ASSUME NEW r \in Calls, SpawnFails(r) PROVE NoMutualWait'
  BY <1>6, Functions1, TaskNames, Outcomes, GensNat, GensGiven DEF SpawnFails, Move, rest,
                                                                   linkVars, NoMutualWait,
                                                                   SupTypes
<1>7. ASSUME NEW r \in Calls, Initialized(r) PROVE NoMutualWait'
  BY <1>7, Functions1, TaskNames, Outcomes, GensNat, GensGiven DEF Initialized, linkVars,
                                                                   NoMutualWait, SupTypes
<1>8. ASSUME NEW r \in Calls, Answered(r) PROVE NoMutualWait'
  BY <1>8, Functions1, TaskNames, Outcomes, GensNat, GensGiven DEF Answered, Move, rest,
                                                                   linkVars, NoMutualWait,
                                                                   SupTypes
<1>9. ASSUME NEW r \in Calls, Recover(r) PROVE NoMutualWait'
  BY <1>9, Functions1, TaskNames, Outcomes, GensNat, GensGiven DEF Recover, Taken, rest,
                                                                   linkVars, NoMutualWait,
                                                                   SupTypes
<1>10. ASSUME NEW r \in Calls, NEW i \in Instances, Get(r, i) PROVE NoMutualWait'
  BY <1>10, Functions1, TaskNames, Outcomes, GensNat, GensGiven DEF Get, linkVars,
                                                                    NoMutualWait, SupTypes
<1>11. ASSUME NEW t \in Tasks, ReadGeneration(t) PROVE NoMutualWait'
  BY <1>11, Functions1, TaskNames, Outcomes, GensNat, GensGiven DEF ReadGeneration, rest,
                                                                    linkVars, NoMutualWait,
                                                                    SupTypes
<1>12. ASSUME NEW t \in Tasks, Send(t) PROVE NoMutualWait'
  <2>1. UNCHANGED <<gens, sup>> /\ \A x \in Tasks : x # t
          => pc'[x] = pc[x] /\ pending'[x] = pending[x]
    BY <1>12, Functions1 DEF Send, rest, linkVars
  <2>2. pending[t] = 0
    BY <1>12, LinkFacts DEF Send, Linked
  <2>3. \/ pending'[t] = 0
        \/ pc'[t] = "writes"
        \/ pending'[t] = gen[t] /\ sup[gen[t]] = "on"
    BY <1>12, <2>2, Functions1 DEF Send, UpInv
  <2>4. \A r \in Calls : \/ Start(r) # t
                        \/ pending'[Start(r)] = 0
                        \/ pc'[Start(r)] = "writes"
                        \/ sup[pending'[Start(r)]] = "on"
    BY <2>3
  <2> QED BY <2>1, <2>4, TaskNames, GensNat DEF NoMutualWait
<1>13. ASSUME NEW t \in Tasks, WriteFails(t) PROVE NoMutualWait'
  BY <1>13, Functions1, TaskNames, Outcomes, GensNat, GensGiven DEF WriteFails, Move, rest,
                                                                    linkVars, NoMutualWait,
                                                                    SupTypes
<1>14. ASSUME NEW t \in Tasks, NoticeWrite(t) PROVE NoMutualWait'
  <2>1. gens' = gens
    BY <1>14 DEF NoticeWrite, rest, linkVars
  <2>0. gen[t] \in Gens
    BY <1>14, Bound DEF Sending, NoticeWrite, Move
  <2>2. \A h \in 1..gens : sup'[h] \in {"lossLocks", "exitLocks"} => sup'[h] = sup[h]
    <3>1. PICK to : Breaks(gen[t], to) /\ to \notin {"lossLocks", "exitLocks"}
      BY <1>14, LossOrExitType DEF NoticeWrite
    <3> QED BY <2>0, <3>1, BreaksSup, GensGiven
  <2>3. \A r \in Calls :
          \/ pending'[Start(r)] = pending[Start(r)] /\ pc'[Start(r)] = pc[Start(r)]
          \/ pending'[Start(r)] = 0
    BY <1>14, Functions1, TaskNames DEF NoticeWrite, Move
  <2> QED BY <2>1, <2>2, <2>3, GensNat DEF NoMutualWait
<1>15. ASSUME NEW t \in Tasks, Timeout(t) PROVE NoMutualWait'
  BY <1>15, Functions1, TaskNames, Outcomes, GensNat, GensGiven DEF Timeout, rest, linkVars,
                                                                    NoMutualWait, SupTypes
<1>16. ASSUME NEW t \in Tasks, Take(t) PROVE NoMutualWait'
  BY <1>16, Functions1, TaskNames, Outcomes, GensNat, GensGiven DEF Take, Taken, rest,
                                                                    linkVars, NoMutualWait,
                                                                    SupTypes
<1>17. ASSUME NEW t \in Tasks, FailPending(t) PROVE NoMutualWait'
  <2>1. UNCHANGED <<gens, sup>>
    BY <1>17 DEF FailPending, rest, linkVars
  <2>3. \A r \in Calls :
          \/ pending'[Start(r)] = pending[Start(r)] /\ pc'[Start(r)] = pc[Start(r)]
          \/ pending'[Start(r)] = 0
    BY <1>17, FailPendingEffect, FailEffect, TaskNames
  <2> QED BY <2>1, <2>3, GensNat DEF NoMutualWait
<1>18. ASSUME NEW t \in Tasks, Terminate(t) PROVE NoMutualWait'
  BY <1>18, Functions1, TaskNames, Outcomes, GensNat, GensGiven DEF Terminate, Move, rest,
                                                                    linkVars, NoMutualWait,
                                                                    SupTypes
<1>19. ASSUME NEW t \in Tasks, Join(t) PROVE NoMutualWait'
  <2>1. gens' = gens
    BY <1>19 DEF Join, rest, linkVars
  <2>0. gen[t] \in Gens
    BY <1>19, Bound DEF Closers, Join
  <2>2. \A h \in 1..gens : sup'[h] \in {"lossLocks", "exitLocks"} => sup'[h] = sup[h]
    <3>1. PICK to : Breaks(gen[t], to) /\ to \notin {"lossLocks", "exitLocks"}
      BY <1>19, LossOrExitType DEF Join
    <3> QED BY <2>0, <3>1, BreaksSup, GensGiven
  <2>3. \A r \in Calls :
          \/ pending'[Start(r)] = pending[Start(r)] /\ pc'[Start(r)] = pc[Start(r)]
          \/ pending[Start(r)] = 0 /\ pending'[Start(r)] = 0
    <3>1. UNCHANGED pending /\ pending[t] = 0
      BY <1>19, LinkFacts DEF Join, Linked
    <3> QED BY <1>19, <3>1, Functions1, TaskNames DEF Join
  <2> QED BY <2>1, <2>2, <2>3, GensNat DEF NoMutualWait
<1>20. ASSUME NEW t \in Tasks, StopDaemon(t) PROVE NoMutualWait'
  BY <1>20, Functions1, TaskNames, Outcomes, GensNat, GensGiven DEF StopDaemon, Move, rest,
                                                                    linkVars, NoMutualWait,
                                                                    SupTypes
<1>21. ASSUME NEW i \in Instances, Kill(i) PROVE NoMutualWait'
  BY <1>21, Functions1, TaskNames, Outcomes, GensNat, GensGiven DEF Kill, Taken, linkVars,
                                                                    NoMutualWait, SupTypes
<1>22. ASSUME NEW i \in Instances, EvictChecks(i) PROVE NoMutualWait'
  BY <1>22, Functions1, TaskNames, Outcomes, GensNat, GensGiven DEF EvictChecks, Move,
                                                                    linkVars, NoMutualWait,
                                                                    SupTypes
<1>23. ASSUME NEW i \in Instances, RetireLocks(i) PROVE NoMutualWait'
  BY <1>23, Functions1, TaskNames, Outcomes, GensNat, GensGiven DEF RetireLocks, Move,
                                                                    linkVars, NoMutualWait,
                                                                    SupTypes
<1>24. ASSUME NEW g \in 1..gens, Notice(g) PROVE NoMutualWait'
  <2>1. gens' = gens
    BY <1>24 DEF Notice, rest, linkVars
  <2>0. g \in Gens
    BY GensGiven
  <2>2. \A h \in 1..gens : sup'[h] \in {"lossLocks", "exitLocks"} => sup'[h] = sup[h]
    <3>1. PICK to : Breaks(g, to) /\ to \notin {"lossLocks", "exitLocks"}
      BY <1>24, LossOrExitType DEF Notice
    <3> QED BY <2>0, <3>1, BreaksSup, GensGiven
  <2>3. \A r \in Calls :
          \/ pending'[Start(r)] = pending[Start(r)] /\ pc'[Start(r)] = pc[Start(r)]
          \/ pending'[Start(r)] = 0
    BY <1>24 DEF Notice
  <2> QED BY <2>1, <2>2, <2>3 DEF NoMutualWait
<1>25. ASSUME NEW g \in 1..gens, ShutsDown(g) PROVE NoMutualWait'
  <2>1. gens' = gens
    BY <1>25 DEF ShutsDown, rest, linkVars
  <2>0. g \in Gens
    BY GensGiven
  <2>2. \A h \in 1..gens : sup'[h] \in {"lossLocks", "exitLocks"} => sup'[h] = sup[h]
    <3>1. PICK to : Breaks(g, to) /\ to \notin {"lossLocks", "exitLocks"}
      BY <1>25, LossOrExitType DEF ShutsDown
    <3> QED BY <2>0, <3>1, BreaksSup, GensGiven
  <2>3. \A r \in Calls :
          \/ pending'[Start(r)] = pending[Start(r)] /\ pc'[Start(r)] = pc[Start(r)]
          \/ pending'[Start(r)] = 0
    BY <1>25 DEF ShutsDown
  <2> QED BY <2>1, <2>2, <2>3 DEF NoMutualWait
<1>26. ASSUME NEW g \in 1..gens, FailFirst(g) PROVE NoMutualWait'
  <2>1. gens' = gens /\ \A h \in 1..gens : h # g => sup'[h] = sup[h]
    BY <1>26, Functions1, GensGiven DEF FailFirst, rest, linkVars, SupTypes
  <2>2. \A r \in Calls : /\ pending'[Start(r)] # g
                        /\ \/ pending'[Start(r)] = pending[Start(r)] /\ pc'[Start(r)] = pc[Start(r)]
                           \/ pending'[Start(r)] = 0
    <3>1. pc' = Failing(g) /\ pending' = Without(g)
      BY <1>26 DEF FailFirst
    <3> QED BY <3>1, FailEffect, TaskNames
  <2> QED BY <2>1, <2>2, GensNat DEF NoMutualWait
<1>27. ASSUME NEW g \in 1..gens, Finalize(g) PROVE NoMutualWait'
  <2>1. gens' = gens /\ sup' = [sup EXCEPT ![g] = IF mode[g] = "stdio" THEN "drain" ELSE "done"]
    BY <1>27 DEF Finalize, rest, linkVars
  <2>2. \A h \in 1..gens : sup'[h] \in {"lossLocks", "exitLocks"} => sup'[h] = sup[h]
    BY <2>1, Functions1, GensGiven DEF SupTypes
  <2>3. \A r \in Calls :
          \/ pending'[Start(r)] = pending[Start(r)] /\ pc'[Start(r)] = pc[Start(r)]
          \/ pending'[Start(r)] = 0
    <3>1. UNCHANGED <<pc, pending>> \/ (pc' = Failing(g) /\ pending' = Without(g))
      BY <1>27 DEF Finalize
    <3> QED BY <3>1, FailEffect, TaskNames
  <2> QED BY <2>1, <2>2, <2>3, GensNat DEF NoMutualWait
<1>28. ASSUME NEW g \in 1..gens, Drained(g) PROVE NoMutualWait'
  BY <1>28, Functions1, TaskNames, Outcomes, GensNat, GensGiven DEF Drained, rest, linkVars,
                                                                    NoMutualWait, SupTypes
<1>29. ASSUME NEW g \in 1..gens, ReadLine(g) PROVE NoMutualWait'
  <2>1. UNCHANGED <<gens, sup>>
    BY <1>29 DEF ReadLine, rest, linkVars
  <2>3. \A r \in Calls :
          \/ pending'[Start(r)] = pending[Start(r)] /\ pc'[Start(r)] = pc[Start(r)]
          \/ pending'[Start(r)] = 0
    BY <1>29, ReadEffect, TaskNames
  <2> QED BY <2>1, <2>3, GensNat DEF NoMutualWait
<1>30. ASSUME UNCHANGED <<sup, pending, pc, gens>> PROVE NoMutualWait'
  BY <1>30 DEF NoMutualWait, SupTypes
<1>31. ASSUME NEW r \in Calls,
       Completes(r)
      PROVE NoMutualWait'
  BY <1>31, <1>30 DEF Completes, rest, linkVars
<1>32. ASSUME NEW g \in 1..gens,
       Exits(g) \/ Drops(g)
      PROVE NoMutualWait'
  BY <1>32, <1>30 DEF Exits, linkVars, Drops
<1>33. ASSUME NEW g \in 1..gens, NEW t \in Tasks,
       Accept(g, t)
      PROVE NoMutualWait'
  BY <1>33, <1>30 DEF Accept, rest, linkVars
<1> QED BY <1>1, <1>2, <1>3, <1>4, <1>5, <1>6, <1>7, <1>8, <1>9, <1>10, <1>11, <1>12, <1>13,
           <1>14, <1>15, <1>16, <1>17, <1>18, <1>19, <1>20, <1>21, <1>22, <1>23, <1>24,
           <1>25, <1>26, <1>27, <1>28, <1>29, <1>30, <1>31, <1>32, <1>33 DEF Next, vars

-----------------------------------------------------------------------------
(* Requests that wait.                                                      *)

\* Who is to fail a request that waits.
Supervised == {"on", "loss", "exit"}
Past == {"kills", "joins", "clears", "awaits"}
WaitInv ==
  /\ \A t \in Tasks : pc[t] = "waits" =>
       \/ sup[pending[t]] \in Supervised
       \/ \E x \in Tasks : gen[x] = pending[t] /\ pc[x] = "fails"
       \/ t \in late
  /\ \A t, x \in Tasks : pc[t] = "waits" /\ gen[x] = pending[t] /\ pc[x] \in Past => t \in late
  /\ \A x \in Tasks : pc[x] \in {"clears", "awaits"} => gen[x] \notin up

\* Who waits does so on a generation given out, the one it has.
LEMMA WaitsOn ==
  ASSUME Inv1, NEW t \in Tasks, pc[t] = "waits"
  PROVE  pending[t] \in 1..gens /\ pending[t] \in Gens /\ pending[t] = gen[t]
  BY Bound, LinkFacts DEF Linked, Sending

\* Who waits goes on waiting as before, who fails requests does so, and nobody else comes to.
LEMMA WaitKept ==
  ASSUME Inv1, WaitInv, late \subseteq late', up' \subseteq up,
         \A t \in Tasks : pc[t] = "waits" /\ sup[pending[t]] \in Supervised =>
            sup'[pending[t]] \in Supervised \/ t \in late \/ pc'[t] # "waits",
         \A x \in Tasks :
           \/ pc'[x] = pc[x] /\ gen'[x] = gen[x] /\ pending'[x] = pending[x]
           \/ pc[x] # "fails" /\ pc'[x] \notin Past \cup {"waits"}
           \/ pc[x] = "kills" /\ pc'[x] = "joins" /\ gen'[x] = gen[x]
           \/ pc[x] = "clears" /\ pc'[x] = "awaits" /\ gen'[x] = gen[x]
  PROVE  WaitInv'
<1>1. \A t \in Tasks : pc'[t] = "waits" => pc[t] = "waits" /\ pending'[t] = pending[t]
  OBVIOUS
<1>2. \A x \in Tasks : pc[x] = "fails" => pc'[x] = "fails" /\ gen'[x] = gen[x]
  OBVIOUS
<1>3. \A x \in Tasks : pc'[x] \in Past => pc[x] \in Past /\ gen'[x] = gen[x]
  BY DEF Past
<1>4. \A x \in Tasks : pc'[x] \in {"clears", "awaits"}
        => pc[x] \in {"clears", "awaits"} /\ gen'[x] = gen[x]
  BY DEF Past
<1>5. ASSUME NEW t \in Tasks, pc'[t] = "waits"
      PROVE  \/ sup'[pending'[t]] \in Supervised
             \/ \E x \in Tasks : gen'[x] = pending'[t] /\ pc'[x] = "fails"
             \/ t \in late'
  <2>1. pc[t] = "waits" /\ pending'[t] = pending[t]
    BY <1>1, <1>5
  <2>2. \/ sup[pending[t]] \in Supervised
        \/ \E x \in Tasks : gen[x] = pending[t] /\ pc[x] = "fails"
        \/ t \in late
    BY <2>1 DEF WaitInv
  <2> QED BY <1>2, <1>5, <2>1, <2>2
<1>6. \A t, x \in Tasks : pc'[t] = "waits" /\ gen'[x] = pending'[t] /\ pc'[x] \in Past
        => t \in late'
  BY <1>1, <1>3 DEF WaitInv
<1>7. \A x \in Tasks : pc'[x] \in {"clears", "awaits"} => gen'[x] \notin up'
  BY <1>4 DEF WaitInv
<1> QED BY <1>5, <1>6, <1>7 DEF WaitInv

\* WaitInv is kept.
LEMMA WaitInvStep ==
  ASSUME Inv1, UpInv, RetireInv, WaitInv, [Next]_vars
  PROVE  WaitInv'
<1>1. ASSUME NEW r \in Calls, Replaced(r) PROVE WaitInv'
  <2>1. late \subseteq late' /\ up' \subseteq up
    BY <1>1, EndsUp DEF Replaced, worldVars, history
  <2>2. \A t1 \in Tasks : pc[t1] = "waits" /\ sup[pending[t1]] \in Supervised =>
            sup'[pending[t1]] \in Supervised \/ t1 \in late \/ pc'[t1] # "waits"
    BY <1>1 DEF Replaced
  <2>3. \A x \in Tasks :
          \/ pc'[x] = pc[x] /\ gen'[x] = gen[x] /\ pending'[x] = pending[x]
          \/ pc[x] # "fails" /\ pc'[x] \notin Past \cup {"waits"}
          \/ pc[x] = "kills" /\ pc'[x] = "joins" /\ gen'[x] = gen[x]
          \/ pc[x] = "clears" /\ pc'[x] = "awaits" /\ gen'[x] = gen[x]
    BY <1>1, Functions1, TaskNames, Outcomes DEF Replaced, rest, callVars, Past
  <2> QED BY <2>1, <2>2, <2>3, WaitKept
<1>2. ASSUME NEW r \in Calls, Enter(r) PROVE WaitInv'
  <2>0. pc[Call(r)] = "got" /\ pc[Start(r)] = "idle"
    BY <1>2, EarlyStarts DEF Enter, Early
  <2>1. late \subseteq late' /\ up' \subseteq up
    BY <1>2, EndsUp DEF Enter, worldVars, history
  <2>2. \A t1 \in Tasks : pc[t1] = "waits" /\ sup[pending[t1]] \in Supervised =>
            sup'[pending[t1]] \in Supervised \/ t1 \in late \/ pc'[t1] # "waits"
    BY <1>2 DEF Enter
  <2>3. \A x \in Tasks :
          \/ pc'[x] = pc[x] /\ gen'[x] = gen[x] /\ pending'[x] = pending[x]
          \/ pc[x] # "fails" /\ pc'[x] \notin Past \cup {"waits"}
          \/ pc[x] = "kills" /\ pc'[x] = "joins" /\ gen'[x] = gen[x]
          \/ pc[x] = "clears" /\ pc'[x] = "awaits" /\ gen'[x] = gen[x]
    BY <1>2, <2>0, Functions1, TaskNames, Outcomes DEF Enter, rest, callVars, Past
  <2> QED BY <2>1, <2>2, <2>3, WaitKept
<1>3. ASSUME NEW r \in Calls, Started(r) PROVE WaitInv'
  <2>1. late \subseteq late' /\ up' \subseteq up
    BY <1>3, EndsUp DEF Started, worldVars, history
  <2>2. \A t1 \in Tasks : pc[t1] = "waits" /\ sup[pending[t1]] \in Supervised =>
            sup'[pending[t1]] \in Supervised \/ t1 \in late \/ pc'[t1] # "waits"
    BY <1>3 DEF Started
  <2>3. \A x \in Tasks :
          \/ pc'[x] = pc[x] /\ gen'[x] = gen[x] /\ pending'[x] = pending[x]
          \/ pc[x] # "fails" /\ pc'[x] \notin Past \cup {"waits"}
          \/ pc[x] = "kills" /\ pc'[x] = "joins" /\ gen'[x] = gen[x]
          \/ pc[x] = "clears" /\ pc'[x] = "awaits" /\ gen'[x] = gen[x]
    BY <1>3, Functions1, TaskNames, Outcomes DEF Started, rest, callVars, Past
  <2> QED BY <2>1, <2>2, <2>3, WaitKept
<1>4. ASSUME NEW r \in Calls, StartCheck(r) PROVE WaitInv'
  <2>1. late \subseteq late' /\ UNCHANGED <<up, sup, pending>> /\ pc[Start(r)] = "locks"
    BY <1>4 DEF StartCheck, worldVars
  <2>2. \A x \in Tasks : x # Start(r) => pc'[x] = pc[x] /\ gen'[x] = gen[x]
    BY <1>4, Functions1 DEF StartCheck
  <2>3. \/ pc'[Start(r)] \in {"ok", "err", "spawns"}
        \/ /\ pc'[Start(r)] = "clears" /\ gen'[Start(r)] \notin up
           /\ \A x \in Tasks : pending[x] = gen'[Start(r)] => x \in late'
    <3>1. \/ pc' = [pc EXCEPT ![Start(r)] = "err"]
          \/ pc' = [pc EXCEPT ![Start(r)] = "ok"]
          \/ pc' = [pc EXCEPT ![Start(r)] = "spawns"]
          \/ /\ ~Usable(process[client[r]]) /\ gen' = [gen EXCEPT ![Start(r)] = process[client[r]]]
             /\ pc' = [pc EXCEPT ![Start(r)] = "clears"]
             /\ late' = late \cup {x \in Tasks : pending[x] = process[client[r]]}
      BY <1>4 DEF StartCheck
    <3>2. ~Usable(process[client[r]]) => process[client[r]] \notin up
      BY DEF Usable, UpInv
    <3> QED BY <3>1, <3>2, Functions1, TaskNames
  <2>4. CASE pc'[Start(r)] \in {"ok", "err", "spawns"}
    <3>1. \A x \in Tasks :
            \/ pc'[x] = pc[x] /\ gen'[x] = gen[x] /\ pending'[x] = pending[x]
            \/ pc[x] # "fails" /\ pc'[x] \notin Past \cup {"waits"}
      BY <2>1, <2>2, <2>4 DEF Past
    <3> QED BY <2>1, <3>1, WaitKept
  <2>5. CASE /\ pc'[Start(r)] = "clears" /\ gen'[Start(r)] \notin up
             /\ \A x \in Tasks : pending[x] = gen'[Start(r)] => x \in late'
    <3>1. \A t \in Tasks : pc'[t] = "waits" => pc[t] = "waits"
      BY <2>2, <2>5
    <3>2. \A x \in Tasks : pc[x] = "fails" => pc'[x] = "fails" /\ gen'[x] = gen[x]
      BY <2>1, <2>2
    <3>3. \A t \in Tasks : pc'[t] = "waits" =>
            \/ sup'[pending'[t]] \in Supervised
            \/ \E x \in Tasks : gen'[x] = pending'[t] /\ pc'[x] = "fails"
            \/ t \in late'
      BY <2>1, <3>1, <3>2 DEF WaitInv
    <3>4. \A t, x \in Tasks : pc'[t] = "waits" /\ gen'[x] = pending'[t] /\ pc'[x] \in Past
            => t \in late'
      BY <2>1, <2>2, <2>5, <3>1 DEF WaitInv
    <3>5. \A x \in Tasks : pc'[x] \in {"clears", "awaits"} => gen'[x] \notin up'
      BY <2>1, <2>2, <2>5 DEF WaitInv
    <3> QED BY <3>3, <3>4, <3>5 DEF WaitInv
  <2> QED BY <2>3, <2>4, <2>5
<1>5. ASSUME NEW r \in Calls, Spawn(r) PROVE WaitInv'
  <2>1. UNCHANGED <<late, gen, pending>> /\ up' = up \cup {gens + 1}
          /\ sup' = [sup EXCEPT ![gens + 1] = "on"]
    BY <1>5 DEF Spawn, Opens, callVars, history
  <2>2. pc' = [pc EXCEPT ![Start(r)] = "reads"] /\ pc[Start(r)] = "spawns"
          /\ gens + 1 \in Gens /\ gens \in Nat
    BY <1>5, GensNat DEF Spawn
  <2>3. \A h \in Gens : sup[h] \in Supervised => sup'[h] \in Supervised
    BY <2>1, <2>2, Functions1 DEF Supervised, SupTypes
  <2>4. \A x \in Tasks : pc'[x] \in Past \cup {"waits", "fails"} => pc'[x] = pc[x]
    BY <2>2, Functions1 DEF Past
  <2>5. \A x \in Tasks : pc[x] = "fails" => pc'[x] = "fails"
    BY <2>2, Functions1
  <2>6. \A x \in Tasks : gen[x] # gens + 1
    BY <2>2, LinkFacts DEF Linked
  <2>7. \A t \in Tasks : pc'[t] = "waits" =>
          \/ sup'[pending'[t]] \in Supervised
          \/ \E x \in Tasks : gen'[x] = pending'[t] /\ pc'[x] = "fails"
          \/ t \in late'
    BY <2>1, <2>3, <2>4, <2>5, WaitsOn DEF WaitInv
  <2>8. \A t, x \in Tasks : pc'[t] = "waits" /\ gen'[x] = pending'[t] /\ pc'[x] \in Past
          => t \in late'
    BY <2>1, <2>4 DEF WaitInv
  <2>9. \A x \in Tasks : pc'[x] \in {"clears", "awaits"} => gen'[x] \notin up'
    BY <2>1, <2>4, <2>6 DEF WaitInv, Past
  <2> QED BY <2>7, <2>8, <2>9 DEF WaitInv
<1>6. ASSUME NEW r \in Calls, SpawnFails(r) PROVE WaitInv'
  <2>1. late \subseteq late' /\ up' \subseteq up
    BY <1>6, EndsUp DEF SpawnFails, worldVars, history
  <2>2. \A t1 \in Tasks : pc[t1] = "waits" /\ sup[pending[t1]] \in Supervised =>
            sup'[pending[t1]] \in Supervised \/ t1 \in late \/ pc'[t1] # "waits"
    BY <1>6 DEF SpawnFails
  <2>3. \A x \in Tasks :
          \/ pc'[x] = pc[x] /\ gen'[x] = gen[x] /\ pending'[x] = pending[x]
          \/ pc[x] # "fails" /\ pc'[x] \notin Past \cup {"waits"}
          \/ pc[x] = "kills" /\ pc'[x] = "joins" /\ gen'[x] = gen[x]
          \/ pc[x] = "clears" /\ pc'[x] = "awaits" /\ gen'[x] = gen[x]
    BY <1>6, Functions1, TaskNames, Outcomes DEF SpawnFails, rest, callVars, Move, Past
  <2> QED BY <2>1, <2>2, <2>3, WaitKept
<1>7. ASSUME NEW r \in Calls, Initialized(r) PROVE WaitInv'
  <2>1. late \subseteq late' /\ up' \subseteq up
    BY <1>7, EndsUp DEF Initialized, worldVars, history
  <2>2. \A t1 \in Tasks : pc[t1] = "waits" /\ sup[pending[t1]] \in Supervised =>
            sup'[pending[t1]] \in Supervised \/ t1 \in late \/ pc'[t1] # "waits"
    BY <1>7 DEF Initialized
  <2>3. \A x \in Tasks :
          \/ pc'[x] = pc[x] /\ gen'[x] = gen[x] /\ pending'[x] = pending[x]
          \/ pc[x] # "fails" /\ pc'[x] \notin Past \cup {"waits"}
          \/ pc[x] = "kills" /\ pc'[x] = "joins" /\ gen'[x] = gen[x]
          \/ pc[x] = "clears" /\ pc'[x] = "awaits" /\ gen'[x] = gen[x]
    BY <1>7, Functions1, TaskNames, Outcomes DEF Initialized, rest, callVars, Past
  <2> QED BY <2>1, <2>2, <2>3, WaitKept
<1>8. ASSUME NEW r \in Calls, Answered(r) PROVE WaitInv'
  <2>1. late \subseteq late' /\ up' \subseteq up
    BY <1>8, EndsUp DEF Answered, worldVars, history
  <2>2. \A t1 \in Tasks : pc[t1] = "waits" /\ sup[pending[t1]] \in Supervised =>
            sup'[pending[t1]] \in Supervised \/ t1 \in late \/ pc'[t1] # "waits"
    BY <1>8 DEF Answered
  <2>3. \A x \in Tasks :
          \/ pc'[x] = pc[x] /\ gen'[x] = gen[x] /\ pending'[x] = pending[x]
          \/ pc[x] # "fails" /\ pc'[x] \notin Past \cup {"waits"}
          \/ pc[x] = "kills" /\ pc'[x] = "joins" /\ gen'[x] = gen[x]
          \/ pc[x] = "clears" /\ pc'[x] = "awaits" /\ gen'[x] = gen[x]
    BY <1>8, Functions1, TaskNames, Outcomes DEF Answered, rest, callVars, Move, Past
  <2> QED BY <2>1, <2>2, <2>3, WaitKept
<1>9. ASSUME NEW r \in Calls, Recover(r) PROVE WaitInv'
  <2>1. late \subseteq late' /\ up' \subseteq up
    BY <1>9, EndsUp DEF Recover, worldVars, history
  <2>2. \A t1 \in Tasks : pc[t1] = "waits" /\ sup[pending[t1]] \in Supervised =>
            sup'[pending[t1]] \in Supervised \/ t1 \in late \/ pc'[t1] # "waits"
    BY <1>9 DEF Recover
  <2>3. \A x \in Tasks :
          \/ pc'[x] = pc[x] /\ gen'[x] = gen[x] /\ pending'[x] = pending[x]
          \/ pc[x] # "fails" /\ pc'[x] \notin Past \cup {"waits"}
          \/ pc[x] = "kills" /\ pc'[x] = "joins" /\ gen'[x] = gen[x]
          \/ pc[x] = "clears" /\ pc'[x] = "awaits" /\ gen'[x] = gen[x]
    BY <1>9, Functions1, TaskNames, Outcomes DEF Recover, rest, callVars, Taken, Past
  <2> QED BY <2>1, <2>2, <2>3, WaitKept
<1>10. ASSUME NEW r \in Calls, Completes(r) PROVE WaitInv'
  <2>1. late \subseteq late' /\ up' \subseteq up
    BY <1>10, EndsUp DEF Completes, worldVars, history
  <2>2. \A t1 \in Tasks : pc[t1] = "waits" /\ sup[pending[t1]] \in Supervised =>
            sup'[pending[t1]] \in Supervised \/ t1 \in late \/ pc'[t1] # "waits"
    BY <1>10 DEF Completes
  <2>3. \A x \in Tasks :
          \/ pc'[x] = pc[x] /\ gen'[x] = gen[x] /\ pending'[x] = pending[x]
          \/ pc[x] # "fails" /\ pc'[x] \notin Past \cup {"waits"}
          \/ pc[x] = "kills" /\ pc'[x] = "joins" /\ gen'[x] = gen[x]
          \/ pc[x] = "clears" /\ pc'[x] = "awaits" /\ gen'[x] = gen[x]
    BY <1>10, Functions1, TaskNames, Outcomes DEF Completes, rest, callVars, Past
  <2> QED BY <2>1, <2>2, <2>3, WaitKept
<1>11. ASSUME NEW r \in Calls, NEW i \in Instances, Get(r, i) PROVE WaitInv'
  <2>1. UNCHANGED <<late, up, sup, gen, pending>>
    BY <1>11 DEF Get, worldVars, history
  <2>2. \A x \in Tasks : pc'[x] = pc[x] \/ (pc[x] = "idle" /\ pc'[x] \notin Past \cup {"waits"})
    <3>1. \/ pc' = [pc EXCEPT ![Call(r)] = "got"]
          \/ \E old \in Instances :
               /\ registry[Key[i]] = old
                  /\ pc' = [pc EXCEPT ![Call(r)] = "replaces", ![<<"retire", old>>] = "locks"]
      BY <1>11, RegTypes DEF Get
    <3>2. pc[Call(r)] = "idle"
      BY <1>11 DEF Get
    <3>3. \A old \in Instances : registry[Key[i]] = old => pc[<<"retire", old>>] = "idle"
      BY RegTypes, KeyAssumption DEF RetireInv
    <3> QED BY <3>1, <3>2, <3>3, Functions1 DEF Past
  <2> QED BY <2>1, <2>2, WaitKept
<1>12. ASSUME NEW t \in Tasks, ReadGeneration(t) PROVE WaitInv'
  <2>1. late \subseteq late' /\ up' \subseteq up
    BY <1>12, EndsUp DEF ReadGeneration, worldVars, history
  <2>2. \A t1 \in Tasks : pc[t1] = "waits" /\ sup[pending[t1]] \in Supervised =>
            sup'[pending[t1]] \in Supervised \/ t1 \in late \/ pc'[t1] # "waits"
    BY <1>12 DEF ReadGeneration
  <2>3. pc[t] # "fails" /\ \A x \in Tasks : x # t
          => pc'[x] = pc[x] /\ gen'[x] = gen[x] /\ pending'[x] = pending[x]
    BY <1>12, Functions1 DEF ReadGeneration, rest, callVars
  <2>4. pc'[t] \notin Past \cup {"waits"}
    BY <1>12, Functions1, Outcomes DEF ReadGeneration, Past
  <2> QED BY <2>1, <2>2, <2>3, <2>4, WaitKept
<1>13. ASSUME NEW t \in Tasks, Send(t) PROVE WaitInv'
  <2>1. late \subseteq late' /\ UNCHANGED <<up, sup, gen>> /\ pc[t] = "sends"
    BY <1>13 DEF Send, rest, callVars
  <2>2. \A x \in Tasks : x # t => pc'[x] = pc[x] /\ pending'[x] = pending[x]
    BY <1>13, Functions1 DEF Send
  <2>3. CASE pc'[t] # "waits"
    <3>1. pc'[t] \notin Past \cup {"waits"}
      BY <1>13, <2>3, Functions1, Outcomes DEF Send, Past
    <3> QED BY <2>1, <2>2, <3>1, WaitKept
  <2>4. CASE pc'[t] = "waits"
    <3>1. gen[t] \in up /\ pending'[t] = gen[t]
      BY <1>13, <2>4, Functions1, Outcomes DEF Send
    <3>2. sup[gen[t]] = "on"
      BY <3>1 DEF UpInv
    <3>3. \A x \in Tasks : pc'[x] \in Past /\ gen'[x] = gen[t] => t \in late'
      <4>1. \A x \in Tasks : pc'[x] \in Past => x # t /\ pc[x] \in Past
        BY <2>2, <2>4 DEF Past
      <4>2. \A x \in Tasks : pc[x] \in {"clears", "awaits"} => gen[x] # gen[t]
        BY <3>1 DEF WaitInv
      <4>3. \A x \in Tasks : gen[x] = gen[t] /\ pc[x] \in {"kills", "joins"} => t \in late'
        BY <1>13 DEF Send
      <4> QED BY <2>1, <4>1, <4>2, <4>3 DEF Past
    <3>4. \A t1 \in Tasks : pc'[t1] = "waits" =>
            \/ sup'[pending'[t1]] \in Supervised
            \/ \E x \in Tasks : gen'[x] = pending'[t1] /\ pc'[x] = "fails"
            \/ t1 \in late'
      <4>1. \A x \in Tasks : pc[x] = "fails" => pc'[x] = "fails" /\ gen'[x] = gen[x]
        BY <2>1, <2>2
      <4>2. sup'[pending'[t]] \in Supervised
        BY <2>1, <3>1, <3>2 DEF Supervised
      <4> QED BY <2>1, <2>2, <4>1, <4>2 DEF WaitInv
    <3>5. \A t1, x \in Tasks : pc'[t1] = "waits" /\ gen'[x] = pending'[t1] /\ pc'[x] \in Past
            => t1 \in late'
      <4>1. \A x \in Tasks : pc'[x] \in Past => x # t /\ pc[x] \in Past
        BY <2>2, <2>4 DEF Past
      <4> QED BY <2>1, <2>2, <3>1, <3>3, <4>1 DEF WaitInv
    <3>6. \A x \in Tasks : pc'[x] \in {"clears", "awaits"} => gen'[x] \notin up'
      BY <2>1, <2>2, <2>4 DEF WaitInv
    <3> QED BY <3>4, <3>5, <3>6 DEF WaitInv
  <2> QED BY <2>3, <2>4
<1>14. ASSUME NEW t \in Tasks, WriteFails(t) PROVE WaitInv'
  <2>1. late \subseteq late' /\ up' \subseteq up
    BY <1>14, EndsUp DEF WriteFails, worldVars, history
  <2>2. \A t1 \in Tasks : pc[t1] = "waits" /\ sup[pending[t1]] \in Supervised =>
            sup'[pending[t1]] \in Supervised \/ t1 \in late \/ pc'[t1] # "waits"
    BY <1>14 DEF WriteFails
  <2>3. pc[t] # "fails" /\ \A x \in Tasks : x # t
          => pc'[x] = pc[x] /\ gen'[x] = gen[x] /\ pending'[x] = pending[x]
    BY <1>14, Functions1 DEF WriteFails, rest, callVars, Move
  <2>4. pc'[t] \notin Past \cup {"waits"}
    BY <1>14, Functions1, Outcomes DEF WriteFails, Past, Move
  <2> QED BY <2>1, <2>2, <2>3, <2>4, WaitKept
<1>15. ASSUME NEW t \in Tasks, NoticeWrite(t) PROVE WaitInv'
  <2>1. late \subseteq late' /\ up' \subseteq up
    BY <1>15, EndsUp DEF NoticeWrite, worldVars, history
  <2>0. \A h \in Gens : sup[h] \in Supervised => sup'[h] \in Supervised
    <3>1. PICK to : Breaks(gen[t], to) /\ to \in {"loss", "exit"}
      BY <1>15, LossOrExitType DEF NoticeWrite
    <3>2. gen[t] \in Gens
      BY <1>15, GensGiven, Bound DEF Sending, NoticeWrite, Move
    <3> QED BY <3>1, <3>2, BreaksSup DEF Supervised
  <2>2. \A t1 \in Tasks : pc[t1] = "waits" /\ sup[pending[t1]] \in Supervised =>
            sup'[pending[t1]] \in Supervised \/ t1 \in late \/ pc'[t1] # "waits"
    BY <2>0, WaitsOn
  <2>3. pc[t] # "fails" /\ \A x \in Tasks : x # t
          => pc'[x] = pc[x] /\ gen'[x] = gen[x] /\ pending'[x] = pending[x]
    BY <1>15, Functions1 DEF NoticeWrite, rest, callVars, Move
  <2>4. pc'[t] \notin Past \cup {"waits"}
    BY <1>15, Functions1, Outcomes DEF NoticeWrite, Past, Move
  <2> QED BY <2>1, <2>2, <2>3, <2>4, WaitKept
<1>16. ASSUME NEW t \in Tasks, Timeout(t) PROVE WaitInv'
  <2>1. late \subseteq late' /\ up' \subseteq up
    BY <1>16, EndsUp DEF Timeout, worldVars, history
  <2>2. \A t1 \in Tasks : pc[t1] = "waits" /\ sup[pending[t1]] \in Supervised =>
            sup'[pending[t1]] \in Supervised \/ t1 \in late \/ pc'[t1] # "waits"
    BY <1>16 DEF Timeout
  <2>3. pc[t] # "fails" /\ \A x \in Tasks : x # t
          => pc'[x] = pc[x] /\ gen'[x] = gen[x] /\ pending'[x] = pending[x]
    BY <1>16, Functions1 DEF Timeout, rest, callVars
  <2>4. pc'[t] \notin Past \cup {"waits"}
    BY <1>16, Functions1, Outcomes DEF Timeout, Past
  <2> QED BY <2>1, <2>2, <2>3, <2>4, WaitKept
<1>17. ASSUME NEW t \in Tasks, Take(t) PROVE WaitInv'
  <2>1. late \subseteq late' /\ up' \subseteq up
    BY <1>17, EndsUp DEF Take, worldVars, history
  <2>2. \A t1 \in Tasks : pc[t1] = "waits" /\ sup[pending[t1]] \in Supervised =>
            sup'[pending[t1]] \in Supervised \/ t1 \in late \/ pc'[t1] # "waits"
    BY <1>17 DEF Take
  <2>3. pc[t] # "fails" /\ \A x \in Tasks : x # t
          => pc'[x] = pc[x] /\ gen'[x] = gen[x] /\ pending'[x] = pending[x]
    BY <1>17, Functions1 DEF Take, rest, callVars, Taken
  <2>4. pc'[t] \notin Past \cup {"waits"}
    BY <1>17, Functions1, Outcomes DEF Take, Past, Taken
  <2> QED BY <2>1, <2>2, <2>3, <2>4, WaitKept
<1>18. ASSUME NEW t \in Tasks, FailPending(t) PROVE WaitInv'
  <2>1. UNCHANGED <<late, up, sup, gen>>
    BY <1>18 DEF FailPending, worldVars, history, rest, callVars
  <2>2. /\ pc[t] = "fails" /\ pc'[t] = "kills"
        /\ \A x \in Tasks : x # t =>
              \/ pc'[x] = pc[x] /\ pending'[x] = pending[x] /\ pending[x] # gen[t]
              \/ pending[x] = gen[t] /\ pc'[x] = pc[x] /\ pc[x] # "waits"
              \/ pc[x] = "waits" /\ pc'[x] \in {"takes", "over"}
    <3>1. \A x \in Tasks : x # t => pc'[x] = Failing(gen[t])[x] /\ pending'[x] = Without(gen[t])[x]
      BY <1>18, FailPendingEffect
    <3> QED BY <1>18, <3>1, FailPendingEffect, FailEffect
  <2>3. \A x \in Tasks : pc'[x] = "waits"
          => x # t /\ pc[x] = "waits" /\ pending'[x] = pending[x] /\ pending[x] # gen[t]
    BY <2>2
  <2>4. \A x \in Tasks : x # t /\ pc[x] = "fails" => pc'[x] = "fails"
    BY <2>2
  <2>5. \A x \in Tasks : x # t /\ pc'[x] \in Past => pc[x] = pc'[x]
    BY <2>2 DEF Past
  <2>6. \A t1 \in Tasks : pc'[t1] = "waits" =>
          \/ sup'[pending'[t1]] \in Supervised
          \/ \E x \in Tasks : gen'[x] = pending'[t1] /\ pc'[x] = "fails"
          \/ t1 \in late'
    <3>1. ASSUME NEW t1 \in Tasks, pc'[t1] = "waits", NEW x \in Tasks, gen[x] = pending[t1],
            pc[x] = "fails"
          PROVE  gen'[x] = pending'[t1] /\ pc'[x] = "fails"
      BY <2>1, <2>3, <2>4, <3>1
    <3> QED BY <2>1, <2>3, <3>1 DEF WaitInv
  <2>7. \A t1, x \in Tasks : pc'[t1] = "waits" /\ gen'[x] = pending'[t1] /\ pc'[x] \in Past
          => t1 \in late'
    BY <2>1, <2>3, <2>5 DEF WaitInv
  <2>8. \A x \in Tasks : pc'[x] \in {"clears", "awaits"} => gen'[x] \notin up'
    BY <2>1, <2>2, <2>5 DEF WaitInv, Past
  <2> QED BY <2>6, <2>7, <2>8 DEF WaitInv
<1>19. ASSUME NEW t \in Tasks, Terminate(t) PROVE WaitInv'
  <2>1. late \subseteq late' /\ up' \subseteq up
    BY <1>19, EndsUp DEF Terminate, worldVars, history
  <2>2. \A t1 \in Tasks : pc[t1] = "waits" /\ sup[pending[t1]] \in Supervised =>
            sup'[pending[t1]] \in Supervised \/ t1 \in late \/ pc'[t1] # "waits"
    BY <1>19 DEF Terminate
  <2>3. \A x \in Tasks :
          \/ pc'[x] = pc[x] /\ gen'[x] = gen[x] /\ pending'[x] = pending[x]
          \/ pc[x] # "fails" /\ pc'[x] \notin Past \cup {"waits"}
          \/ pc[x] = "kills" /\ pc'[x] = "joins" /\ gen'[x] = gen[x]
          \/ pc[x] = "clears" /\ pc'[x] = "awaits" /\ gen'[x] = gen[x]
    BY <1>19, Functions1, TaskNames, Outcomes DEF Terminate, rest, callVars, Move, Past
  <2> QED BY <2>1, <2>2, <2>3, WaitKept
<1>20. ASSUME NEW t \in Tasks, Join(t) PROVE WaitInv'
  <2>1. UNCHANGED <<late, gen, pending>> /\ up' \subseteq up /\ gen[t] \in Gens
          /\ pc[t] \in {"joins", "awaits"}
    BY <1>20, Bound DEF Join, rest, callVars, Closers
  <2>2. \A h \in Gens : h # gen[t] => sup'[h] = sup[h]
    BY <1>20, <2>1, BreaksSup DEF Join
  <2>3. \A t1 \in Tasks : pc[t1] = "waits" /\ pending[t1] = gen[t] => t1 \in late
    BY <2>1 DEF WaitInv, Past
  <2>4. \A t1 \in Tasks : pc[t1] = "waits" /\ sup[pending[t1]] \in Supervised =>
            sup'[pending[t1]] \in Supervised \/ t1 \in late
    BY <2>2, <2>3, WaitsOn
  <2>5. pc'[t] \notin Past \cup {"waits"} /\ \A x \in Tasks : x # t => pc'[x] = pc[x]
    BY <1>20, Functions1, Outcomes DEF Join, Past
  <2> QED BY <2>1, <2>4, <2>5, WaitKept
<1>21. ASSUME NEW t \in Tasks, StopDaemon(t) PROVE WaitInv'
  <2>1. late \subseteq late' /\ up' \subseteq up
    BY <1>21, EndsUp DEF StopDaemon, worldVars, history
  <2>2. \A t1 \in Tasks : pc[t1] = "waits" /\ sup[pending[t1]] \in Supervised =>
            sup'[pending[t1]] \in Supervised \/ t1 \in late \/ pc'[t1] # "waits"
    BY <1>21 DEF StopDaemon
  <2>3. \A x \in Tasks :
          \/ pc'[x] = pc[x] /\ gen'[x] = gen[x] /\ pending'[x] = pending[x]
          \/ pc[x] # "fails" /\ pc'[x] \notin Past \cup {"waits"}
          \/ pc[x] = "kills" /\ pc'[x] = "joins" /\ gen'[x] = gen[x]
          \/ pc[x] = "clears" /\ pc'[x] = "awaits" /\ gen'[x] = gen[x]
    BY <1>21, Functions1, TaskNames, Outcomes DEF StopDaemon, rest, callVars, Move, Past
  <2> QED BY <2>1, <2>2, <2>3, WaitKept
<1>22. ASSUME NEW i \in Instances, Kill(i) PROVE WaitInv'
  <2>1. UNCHANGED <<late, up, sup>>
    BY <1>22 DEF Kill, worldVars, history
  <2>2. <<"kill", i>> \in Tasks /\ pc[<<"kill", i>>] = "idle"
    BY <1>22, TaskNames DEF Kill, Move
  <2>3. pc'[<<"kill", i>>] \in {"takes", "fails"} /\ \A x \in Tasks : x # <<"kill", i>> =>
          pc'[x] = pc[x] /\ gen'[x] = gen[x] /\ pending'[x] = pending[x]
    BY <1>22, <2>2, Functions1 DEF Kill, rest, callVars, Taken
  <2>4. \A x \in Tasks : x = <<"kill", i>> => pc[x] # "fails" /\ pc'[x] \notin Past \cup {"waits"}
    BY <2>2, <2>3 DEF Past
  <2> QED BY <2>1, <2>3, <2>4, WaitKept
<1>23. ASSUME NEW i \in Instances, EvictChecks(i) PROVE WaitInv'
  <2>1. UNCHANGED <<late, up, sup>>
    BY <1>23 DEF EvictChecks, worldVars, history
  <2>2. <<"evict", i>> \in Tasks /\ pc[<<"evict", i>>] = "idle"
    BY <1>23, TaskNames DEF EvictChecks, Move
  <2>3. pc'[<<"evict", i>>] \in {"takes", "fails"} /\ \A x \in Tasks : x # <<"evict", i>> =>
          pc'[x] = pc[x] /\ gen'[x] = gen[x] /\ pending'[x] = pending[x]
    BY <1>23, <2>2, Functions1 DEF EvictChecks, rest, callVars, Move
  <2>4. \A x \in Tasks : x = <<"evict", i>> => pc[x] # "fails" /\ pc'[x] \notin Past \cup {"waits"}
    BY <2>2, <2>3 DEF Past
  <2> QED BY <2>1, <2>3, <2>4, WaitKept
<1>24. ASSUME NEW i \in Instances, RetireLocks(i) PROVE WaitInv'
  <2>1. UNCHANGED <<late, up, sup>>
    BY <1>24 DEF RetireLocks, worldVars, history
  <2>2. <<"retire", i>> \in Tasks /\ pc[<<"retire", i>>] = "locks"
    BY <1>24, TaskNames DEF RetireLocks, Move
  <2>3. pc'[<<"retire", i>>] \in {"takes", "fails"} /\ \A x \in Tasks : x # <<"retire", i>> =>
          pc'[x] = pc[x] /\ gen'[x] = gen[x] /\ pending'[x] = pending[x]
    BY <1>24, <2>2, Functions1 DEF RetireLocks, rest, callVars, Move
  <2>4. \A x \in Tasks : x = <<"retire", i>> => pc[x] # "fails" /\ pc'[x] \notin Past \cup {"waits"}
    BY <2>2, <2>3 DEF Past
  <2> QED BY <2>1, <2>3, <2>4, WaitKept
<1>25. ASSUME NEW g \in 1..gens, Notice(g) PROVE WaitInv'
  <2>1. late \subseteq late' /\ up' \subseteq up
    BY <1>25, EndsUp DEF Notice, worldVars, history
  <2>0. \A h \in Gens : sup[h] \in Supervised => sup'[h] \in Supervised
    <3>1. PICK to : Breaks(g, to) /\ to \in {"loss", "exit"}
      BY <1>25, LossOrExitType DEF Notice
    <3>2. g \in Gens
      BY <1>25, GensGiven, Bound DEF Sending, Notice, Move
    <3> QED BY <3>1, <3>2, BreaksSup DEF Supervised
  <2>2. \A t1 \in Tasks : pc[t1] = "waits" /\ sup[pending[t1]] \in Supervised =>
            sup'[pending[t1]] \in Supervised \/ t1 \in late \/ pc'[t1] # "waits"
    BY <2>0, WaitsOn
  <2>3. \A x \in Tasks :
          \/ pc'[x] = pc[x] /\ gen'[x] = gen[x] /\ pending'[x] = pending[x]
          \/ pc[x] # "fails" /\ pc'[x] \notin Past \cup {"waits"}
          \/ pc[x] = "kills" /\ pc'[x] = "joins" /\ gen'[x] = gen[x]
          \/ pc[x] = "clears" /\ pc'[x] = "awaits" /\ gen'[x] = gen[x]
    BY <1>25, Functions1, TaskNames, Outcomes DEF Notice, rest, callVars, Past
  <2> QED BY <2>1, <2>2, <2>3, WaitKept
<1>26. ASSUME NEW g \in 1..gens, ShutsDown(g) PROVE WaitInv'
  <2>1. UNCHANGED <<late, pc, gen, pending>> /\ up' \subseteq up /\ g \in Gens
    BY <1>26, GensGiven DEF ShutsDown, rest, callVars
  <2>2. \A h \in Gens : h # g => sup'[h] = sup[h]
    BY <1>26, <2>1, BreaksSup DEF ShutsDown
  <2>3. \A t \in Tasks : pc[t] = "waits" /\ pending[t] = g => t \in late
    BY <1>26 DEF ShutsDown, Shutdown, WaitInv, Past
  <2>4. \A t \in Tasks : pc[t] = "waits" /\ sup[pending[t]] \in Supervised =>
            sup'[pending[t]] \in Supervised \/ t \in late
    BY <2>2, <2>3, WaitsOn
  <2> QED BY <2>1, <2>4, WaitKept
<1>27. ASSUME NEW g \in 1..gens, FailFirst(g) PROVE WaitInv'
  <2>1. UNCHANGED <<late, up, gen>> /\ g \in Gens
    BY <1>27, GensGiven DEF FailFirst, worldVars, history, rest, callVars
  <2>2. \/ UNCHANGED <<pc, pending>>
        \/ pc' = Failing(g) /\ pending' = Without(g)
    BY <1>27 DEF FailFirst
  <2>3. \A x \in Tasks :
          \/ pc'[x] = pc[x] /\ gen'[x] = gen[x] /\ pending'[x] = pending[x]
          \/ pc[x] # "fails" /\ pc'[x] \notin Past \cup {"waits"}
          \/ pc'[x] = pc[x] /\ pc[x] = "writes"
    BY <2>1, <2>2, FailEffect, LinkFacts DEF Past, Linked
  <2>4. \A x \in Tasks :
          \/ pc'[x] = pc[x] /\ gen'[x] = gen[x] /\ pending'[x] = pending[x]
          \/ pc[x] # "fails" /\ pc'[x] \notin Past \cup {"waits"}
    BY <2>3 DEF Past
  <2>5. \A h \in Gens : h # g => sup'[h] = sup[h]
    BY <1>27, <2>1, Functions1 DEF FailFirst, SupTypes
  <2>6. \A t \in Tasks : pending[t] = g /\ pc[t] = "waits" /\ sup[g] \in Supervised
          => pc'[t] # "waits"
    <3>1. sup[g] \in Supervised => pc' = Failing(g) /\ pending' = Without(g)
      BY <1>27 DEF FailFirst, Supervised
    <3> QED BY <3>1, FailEffect
  <2>7. \A t \in Tasks : pc[t] = "waits" /\ sup[pending[t]] \in Supervised =>
            sup'[pending[t]] \in Supervised \/ t \in late \/ pc'[t] # "waits"
    BY <2>5, <2>6, WaitsOn
  <2> QED BY <2>1, <2>4, <2>7, WaitKept
<1>28. ASSUME NEW g \in 1..gens, Finalize(g) PROVE WaitInv'
  <2>1. UNCHANGED <<late, up, gen>> /\ g \in Gens
    BY <1>28, GensGiven DEF Finalize, worldVars, history, rest, callVars
  <2>2. \/ UNCHANGED <<pc, pending>>
        \/ pc' = Failing(g) /\ pending' = Without(g)
    BY <1>28 DEF Finalize
  <2>3. \A x \in Tasks :
          \/ pc'[x] = pc[x] /\ gen'[x] = gen[x] /\ pending'[x] = pending[x]
          \/ pc[x] # "fails" /\ pc'[x] \notin Past \cup {"waits"}
          \/ pc'[x] = pc[x] /\ pc[x] = "writes"
    BY <2>1, <2>2, FailEffect, LinkFacts DEF Past, Linked
  <2>4. \A x \in Tasks :
          \/ pc'[x] = pc[x] /\ gen'[x] = gen[x] /\ pending'[x] = pending[x]
          \/ pc[x] # "fails" /\ pc'[x] \notin Past \cup {"waits"}
    BY <2>3 DEF Past
  <2>5. \A h \in Gens : h # g => sup'[h] = sup[h]
    BY <1>28, <2>1, Functions1 DEF Finalize, SupTypes
  <2>6. \A t \in Tasks : pending[t] = g /\ pc[t] = "waits" /\ sup[g] \in Supervised
          => pc'[t] # "waits"
    <3>1. sup[g] \in Supervised => pc' = Failing(g) /\ pending' = Without(g)
      BY <1>28 DEF Finalize, Supervised
    <3> QED BY <3>1, FailEffect
  <2>7. \A t \in Tasks : pc[t] = "waits" /\ sup[pending[t]] \in Supervised =>
            sup'[pending[t]] \in Supervised \/ t \in late \/ pc'[t] # "waits"
    BY <2>5, <2>6, WaitsOn
  <2> QED BY <2>1, <2>4, <2>7, WaitKept
<1>29. ASSUME NEW g \in 1..gens, Drained(g) PROVE WaitInv'
  <2>1. late \subseteq late' /\ up' \subseteq up
    BY <1>29, EndsUp DEF Drained, worldVars, history
  <2>0. \A h \in Gens : sup[h] \in Supervised => sup'[h] = sup[h]
    BY <1>29, GensGiven, Functions1 DEF Drained, Supervised, SupTypes
  <2>2. \A t1 \in Tasks : pc[t1] = "waits" /\ sup[pending[t1]] \in Supervised =>
            sup'[pending[t1]] \in Supervised \/ t1 \in late \/ pc'[t1] # "waits"
    BY <2>0, WaitsOn
  <2>3. \A x \in Tasks :
          \/ pc'[x] = pc[x] /\ gen'[x] = gen[x] /\ pending'[x] = pending[x]
          \/ pc[x] # "fails" /\ pc'[x] \notin Past \cup {"waits"}
          \/ pc[x] = "kills" /\ pc'[x] = "joins" /\ gen'[x] = gen[x]
          \/ pc[x] = "clears" /\ pc'[x] = "awaits" /\ gen'[x] = gen[x]
    BY <1>29, Functions1, TaskNames, Outcomes DEF Drained, rest, callVars, Past
  <2> QED BY <2>1, <2>2, <2>3, WaitKept
<1>30. ASSUME NEW g \in 1..gens, ReadLine(g) PROVE WaitInv'
  <2>1. UNCHANGED <<late, up, sup, gen>>
    BY <1>30 DEF ReadLine, worldVars, rest, callVars
  <2>3. \A x \in Tasks :
          \/ pc'[x] = pc[x] /\ gen'[x] = gen[x] /\ pending'[x] = pending[x]
          \/ pc[x] # "fails" /\ pc'[x] \notin Past \cup {"waits"}
    BY <1>30, <2>1, ReadEffect DEF Past
  <2> QED BY <2>1, <2>3, WaitKept
<1>31. ASSUME NEW g \in 1..gens, Exits(g) PROVE WaitInv'
  <2>1. late \subseteq late' /\ up' \subseteq up
    BY <1>31, EndsUp DEF Exits, worldVars, history
  <2>2. \A t1 \in Tasks : pc[t1] = "waits" /\ sup[pending[t1]] \in Supervised =>
            sup'[pending[t1]] \in Supervised \/ t1 \in late \/ pc'[t1] # "waits"
    BY <1>31 DEF Exits
  <2>3. \A x \in Tasks :
          \/ pc'[x] = pc[x] /\ gen'[x] = gen[x] /\ pending'[x] = pending[x]
          \/ pc[x] # "fails" /\ pc'[x] \notin Past \cup {"waits"}
          \/ pc[x] = "kills" /\ pc'[x] = "joins" /\ gen'[x] = gen[x]
          \/ pc[x] = "clears" /\ pc'[x] = "awaits" /\ gen'[x] = gen[x]
    BY <1>31, Functions1, TaskNames, Outcomes DEF Exits, rest, callVars, Past
  <2> QED BY <2>1, <2>2, <2>3, WaitKept
<1>32. ASSUME NEW g \in 1..gens, Drops(g) PROVE WaitInv'
  <2>1. late \subseteq late' /\ up' \subseteq up
    BY <1>32, EndsUp DEF Drops, worldVars, history
  <2>2. \A t1 \in Tasks : pc[t1] = "waits" /\ sup[pending[t1]] \in Supervised =>
            sup'[pending[t1]] \in Supervised \/ t1 \in late \/ pc'[t1] # "waits"
    BY <1>32 DEF Drops
  <2>3. \A x \in Tasks :
          \/ pc'[x] = pc[x] /\ gen'[x] = gen[x] /\ pending'[x] = pending[x]
          \/ pc[x] # "fails" /\ pc'[x] \notin Past \cup {"waits"}
          \/ pc[x] = "kills" /\ pc'[x] = "joins" /\ gen'[x] = gen[x]
          \/ pc[x] = "clears" /\ pc'[x] = "awaits" /\ gen'[x] = gen[x]
    BY <1>32, Functions1, TaskNames, Outcomes DEF Drops, rest, callVars, Past
  <2> QED BY <2>1, <2>2, <2>3, WaitKept
<1>33. ASSUME NEW g \in 1..gens, NEW t \in Tasks, Accept(g, t) PROVE WaitInv'
  <2>1. late \subseteq late' /\ up' \subseteq up
    BY <1>33, EndsUp DEF Accept, worldVars, history
  <2>2. \A t1 \in Tasks : pc[t1] = "waits" /\ sup[pending[t1]] \in Supervised =>
            sup'[pending[t1]] \in Supervised \/ t1 \in late \/ pc'[t1] # "waits"
    BY <1>33 DEF Accept
  <2>3. \A x \in Tasks :
          \/ pc'[x] = pc[x] /\ gen'[x] = gen[x] /\ pending'[x] = pending[x]
          \/ pc[x] # "fails" /\ pc'[x] \notin Past \cup {"waits"}
          \/ pc[x] = "kills" /\ pc'[x] = "joins" /\ gen'[x] = gen[x]
          \/ pc[x] = "clears" /\ pc'[x] = "awaits" /\ gen'[x] = gen[x]
    BY <1>33, Functions1, TaskNames, Outcomes DEF Accept, rest, callVars, Past
  <2> QED BY <2>1, <2>2, <2>3, WaitKept
<1>34. ASSUME UNCHANGED <<late, up, sup, pc, gen, pending>> PROVE WaitInv'
  BY <1>34 DEF WaitInv
<1> QED BY <1>1, <1>2, <1>3, <1>4, <1>5, <1>6, <1>7, <1>8, <1>9, <1>10, <1>11, <1>12, <1>13,
           <1>14, <1>15, <1>16, <1>17, <1>18, <1>19, <1>20, <1>21, <1>22, <1>23, <1>24,
           <1>25, <1>26, <1>27, <1>28, <1>29, <1>30, <1>31, <1>32, <1>33, <1>34 DEF Next, vars

-----------------------------------------------------------------------------
(* What a step can say.                                                     *)

Unsent == {"idle", "replaces", "got", "starts", "reads", "sends"}
\* Nothing is said to or by a process: what is on the way gets less, and so do the turns that run.
Quiet ==
  /\ \A g \in Gens : inbox'[g] \subseteq inbox[g] /\ lines'[g] \in {lines[g], <<>>}
  /\ running' \subseteq running /\ told' = told
\* A call that has been sent keeps what it asked and whom.
Sent(r) ==
  /\ pc'[Call(r)] \in Unsent => pc[Call(r)] \in Unsent
  /\ pc[Call(r)] \notin Unsent =>
       gen'[Call(r)] = gen[Call(r)] /\ client'[r] = client[r] /\ kind'[r] = kind[r]
\* A client has the process it had, or none, or the newest.
NewProcess(i) == process'[i] \in {process[i], 0} \/ (gens' = gens + 1 /\ process'[i] = gens + 1)

\* The types of what is on the way.
LEMMA FlowFunctions ==
  ASSUME Inv1
  PROVE  inbox \in [Gens -> SUBSET Tasks] /\ lines \in [Gens -> Seq(Lines)]
           /\ running \subseteq Calls
  BY DEF Inv1, Types, FlowTypes

\* Processes that end say nothing.
LEMMA EndsQuiet ==
  ASSUME Inv1, NEW G, Ends(G)
  PROVE  running' \subseteq running /\ \A g \in Gens : inbox'[g] \subseteq inbox[g]
  BY FlowFunctions DEF Ends

\* The steps at which something is said.
Busy == \/ \E t \in Tasks : Send(t)
        \/ \E g \in 1..gens : ReadLine(g) \/ \E t \in Tasks : Accept(g, t)
        \/ \E r \in Calls : Completes(r)

\* Every step is quiet, but sending, accepting, completing and reading.
LEMMA QuietStep ==
  ASSUME Inv1, [Next]_vars
  PROVE  Quiet \/ Busy
<1>1. ASSUME NEW r \in Calls, Completes(r) PROVE Quiet \/ Busy
  BY <1>1 DEF Busy
<1>2. ASSUME NEW t \in Tasks, Send(t) PROVE Quiet \/ Busy
  BY <1>2 DEF Busy
<1>3. ASSUME NEW t \in Tasks, NoticeWrite(t) PROVE Quiet \/ Busy
  <2>1. gen[t] \in Gens
    BY <1>3, Bound DEF NoticeWrite, Move, Sending
  <2>2. UNCHANGED <<inbox, running, told>> /\ \E to : Breaks(gen[t], to)
    BY <1>3 DEF NoticeWrite, worldVars
  <2> QED BY <2>1, <2>2, BreaksLines DEF Quiet
<1>4. ASSUME NEW t \in Tasks, Terminate(t) PROVE Quiet \/ Busy
  <2>1. UNCHANGED <<lines, told>> /\ (UNCHANGED <<inbox, running>> \/ \E G : Ends(G))
    BY <1>4 DEF Terminate, worldVars, history
  <2> QED BY <2>1, EndsQuiet DEF Quiet
<1>5. ASSUME NEW t \in Tasks, Join(t) PROVE Quiet \/ Busy
  <2>1. gen[t] \in Gens
    BY <1>5, Bound DEF Join, Closers
  <2>2. UNCHANGED <<inbox, running, told>> /\ \E to : Breaks(gen[t], to)
    BY <1>5 DEF Join, worldVars
  <2> QED BY <2>1, <2>2, BreaksLines DEF Quiet
<1>6. ASSUME NEW t \in Tasks, StopDaemon(t) PROVE Quiet \/ Busy
  <2>1. UNCHANGED <<lines, told>> /\ (UNCHANGED <<inbox, running>> \/ \E G : Ends(G))
    BY <1>6 DEF StopDaemon, worldVars, history
  <2> QED BY <2>1, EndsQuiet DEF Quiet
<1>7. ASSUME NEW g \in 1..gens, Notice(g) PROVE Quiet \/ Busy
  <2>1. g \in Gens
    BY <1>7, GensGiven
  <2>2. UNCHANGED <<inbox, running, told>> /\ \E to : Breaks(g, to)
    BY <1>7 DEF Notice, worldVars
  <2> QED BY <2>1, <2>2, BreaksLines DEF Quiet
<1>8. ASSUME NEW g \in 1..gens, ShutsDown(g) PROVE Quiet \/ Busy
  <2>1. g \in Gens
    BY <1>8, GensGiven
  <2>2. UNCHANGED <<inbox, running, told>> /\ \E to : Breaks(g, to)
    BY <1>8 DEF ShutsDown, worldVars
  <2> QED BY <2>1, <2>2, BreaksLines DEF Quiet
<1>9. ASSUME NEW g \in 1..gens, Drained(g) PROVE Quiet \/ Busy
  BY <1>9, FlowFunctions, GensGiven DEF Drained, worldVars, history, Quiet
<1>10. ASSUME NEW g \in 1..gens, ReadLine(g) PROVE Quiet \/ Busy
  BY <1>10 DEF Busy
<1>11. ASSUME NEW g \in 1..gens, Exits(g) PROVE Quiet \/ Busy
  <2>1. UNCHANGED <<lines, told>> /\ (UNCHANGED <<inbox, running>> \/ \E G : Ends(G))
    BY <1>11 DEF Exits, worldVars, history
  <2> QED BY <2>1, EndsQuiet DEF Quiet
<1>12. ASSUME NEW g \in 1..gens, NEW t \in Tasks, Accept(g, t) PROVE Quiet \/ Busy
  BY <1>12 DEF Busy
<1>13. ASSUME UNCHANGED <<inbox, lines, running, told>> PROVE Quiet \/ Busy
  BY <1>13 DEF Quiet
<1>14. ASSUME NEW r \in Calls,
       Replaced(r) \/ Enter(r) \/ Started(r) \/ StartCheck(r) \/ Spawn(r) \/ SpawnFails(r) \/
       Initialized(r) \/ Answered(r) \/ Recover(r)
      PROVE Quiet \/ Busy
  BY <1>14, <1>13 DEF Replaced, worldVars, history, Enter, Started, StartCheck, Spawn,
                      Offers, SpawnFails, Initialized, Answered, Recover
<1>15. ASSUME NEW r \in Calls, NEW i \in Instances,
       Get(r, i)
      PROVE Quiet \/ Busy
  BY <1>15, <1>13 DEF Get, worldVars, history
<1>16. ASSUME NEW t \in Tasks,
       ReadGeneration(t) \/ WriteFails(t) \/ Timeout(t) \/ Take(t) \/ FailPending(t)
      PROVE Quiet \/ Busy
  BY <1>16, <1>13 DEF ReadGeneration, worldVars, history, WriteFails, Timeout, Take,
                      FailPending
<1>17. ASSUME NEW i \in Instances,
       Kill(i) \/ EvictChecks(i) \/ RetireLocks(i)
      PROVE Quiet \/ Busy
  BY <1>17, <1>13 DEF Kill, worldVars, EvictChecks, RetireLocks
<1>18. ASSUME NEW g \in 1..gens,
       FailFirst(g) \/ Finalize(g) \/ Drops(g)
      PROVE Quiet \/ Busy
  BY <1>18, <1>13 DEF FailFirst, worldVars, history, Finalize, Drops
<1> QED BY <1>1, <1>2, <1>3, <1>4, <1>5, <1>6, <1>7, <1>8, <1>9, <1>10, <1>11, <1>12, <1>13,
           <1>14, <1>15, <1>16, <1>17, <1>18 DEF Next, vars

\* A call that has been sent keeps its generation, client and kind.
LEMMA SentStep ==
  ASSUME Inv1, [Next]_vars
  PROVE  \A s \in Calls : Sent(s)
<1>1. ASSUME NEW r \in Calls, Replaced(r) PROVE \A s \in Calls : Sent(s)
  BY <1>1, Functions1, TaskNames, Outcomes DEF Replaced, Sent, Unsent
<1>2. ASSUME NEW r \in Calls, Enter(r) PROVE \A s \in Calls : Sent(s)
  BY <1>2, Functions1, TaskNames, Outcomes DEF Enter, rest, callVars, Sent, Unsent
<1>3. ASSUME NEW r \in Calls, Started(r) PROVE \A s \in Calls : Sent(s)
  BY <1>3, Functions1, TaskNames, Outcomes DEF Started, rest, callVars, Sent, Unsent
<1>4. ASSUME NEW r \in Calls, StartCheck(r) PROVE \A s \in Calls : Sent(s)
  BY <1>4, Functions1, TaskNames, Outcomes DEF StartCheck, rest, callVars, Sent, Unsent
<1>5. ASSUME NEW r \in Calls, Spawn(r) PROVE \A s \in Calls : Sent(s)
  BY <1>5, Functions1, TaskNames, Outcomes DEF Spawn, Offers, callVars, Sent, Unsent
<1>6. ASSUME NEW r \in Calls, SpawnFails(r) PROVE \A s \in Calls : Sent(s)
  BY <1>6, Functions1, TaskNames, Outcomes DEF SpawnFails, Move, rest, callVars, Sent, Unsent
<1>7. ASSUME NEW r \in Calls, Initialized(r) PROVE \A s \in Calls : Sent(s)
  BY <1>7, Functions1, TaskNames, Outcomes DEF Initialized, callVars, Sent, Unsent
<1>8. ASSUME NEW r \in Calls, Answered(r) PROVE \A s \in Calls : Sent(s)
  BY <1>8, Functions1, TaskNames, Outcomes DEF Answered, Move, rest, callVars, Sent, Unsent
<1>9. ASSUME NEW r \in Calls, Recover(r) PROVE \A s \in Calls : Sent(s)
  BY <1>9, Functions1, TaskNames, Outcomes DEF Recover, Taken, rest, callVars, Sent, Unsent
<1>10. ASSUME NEW r \in Calls, NEW i \in Instances, Get(r, i) PROVE \A s \in Calls : Sent(s)
  BY <1>10, Functions1, TaskNames, Outcomes DEF Get, Sent, Unsent
<1>11. ASSUME NEW t \in Tasks, ReadGeneration(t) PROVE \A s \in Calls : Sent(s)
  BY <1>11, Functions1, TaskNames, Outcomes DEF ReadGeneration, rest, callVars, Sent, Unsent
<1>12. ASSUME NEW t \in Tasks, Send(t) PROVE \A s \in Calls : Sent(s)
  BY <1>12, Functions1, TaskNames, Outcomes DEF Send, rest, callVars, Sent, Unsent
<1>13. ASSUME NEW t \in Tasks, WriteFails(t) PROVE \A s \in Calls : Sent(s)
  BY <1>13, Functions1, TaskNames, Outcomes DEF WriteFails, Move, rest, callVars, Sent,
                                                Unsent
<1>14. ASSUME NEW t \in Tasks, NoticeWrite(t) PROVE \A s \in Calls : Sent(s)
  BY <1>14, Functions1, TaskNames, Outcomes DEF NoticeWrite, Move, rest, callVars, Sent,
                                                Unsent
<1>15. ASSUME NEW t \in Tasks, Timeout(t) PROVE \A s \in Calls : Sent(s)
  BY <1>15, Functions1, TaskNames, Outcomes DEF Timeout, rest, callVars, Sent, Unsent
<1>16. ASSUME NEW t \in Tasks, Take(t) PROVE \A s \in Calls : Sent(s)
  <2>1. UNCHANGED <<client, kind>> /\ \A x \in Tasks : x # t => pc'[x] = pc[x] /\ gen'[x] = gen[x]
    BY <1>16, Functions1 DEF Take, rest, callVars, Taken
  <2>2. t[1] = "call" => pc'[t] \notin Unsent /\ gen'[t] = gen[t]
    BY <1>16, Functions1, Kinded, AfterPlaces DEF Take, Unsent, rest, callVars
  <2>3. \A s \in Calls : Call(s) = t => t[1] = "call"
    BY TaskNames
  <2> QED BY <2>1, <2>2, <2>3, TaskNames DEF Sent
<1>17. ASSUME NEW t \in Tasks, FailPending(t) PROVE \A s \in Calls : Sent(s)
  <2>1. UNCHANGED <<gen, client, kind>>
    BY <1>17 DEF FailPending, rest, callVars
  <2>2. \A x \in Tasks : pc'[x] = pc[x] \/ pc'[x] \notin Unsent
    BY <1>17, FailPendingEffect, FailEffect DEF Unsent
  <2> QED BY <2>1, <2>2, TaskNames DEF Sent
<1>18. ASSUME NEW t \in Tasks, Terminate(t) PROVE \A s \in Calls : Sent(s)
  BY <1>18, Functions1, TaskNames, Outcomes DEF Terminate, Move, rest, callVars, Sent, Unsent
<1>19. ASSUME NEW t \in Tasks, Join(t) PROVE \A s \in Calls : Sent(s)
  <2>1. UNCHANGED <<client, kind>> /\ \A x \in Tasks : x # t => pc'[x] = pc[x] /\ gen'[x] = gen[x]
    BY <1>19, Functions1 DEF Join, rest, callVars
  <2>2. t[1] = "call" => pc'[t] \notin Unsent /\ gen'[t] = gen[t]
    BY <1>19, Functions1, Kinded, AfterPlaces DEF Join, Unsent, rest, callVars
  <2>3. \A s \in Calls : Call(s) = t => t[1] = "call"
    BY TaskNames
  <2> QED BY <2>1, <2>2, <2>3, TaskNames DEF Sent
<1>20. ASSUME NEW t \in Tasks, StopDaemon(t) PROVE \A s \in Calls : Sent(s)
  BY <1>20, Functions1, TaskNames, Outcomes DEF StopDaemon, Move, rest, callVars, Sent,
                                                Unsent
<1>21. ASSUME NEW i \in Instances, Kill(i) PROVE \A s \in Calls : Sent(s)
  BY <1>21, Functions1, TaskNames, Outcomes DEF Kill, Taken, callVars, Sent, Unsent
<1>22. ASSUME NEW i \in Instances, EvictChecks(i) PROVE \A s \in Calls : Sent(s)
  BY <1>22, Functions1, TaskNames, Outcomes DEF EvictChecks, Move, callVars, Sent, Unsent
<1>23. ASSUME NEW i \in Instances, RetireLocks(i) PROVE \A s \in Calls : Sent(s)
  BY <1>23, Functions1, TaskNames, Outcomes DEF RetireLocks, Move, callVars, Sent, Unsent
<1>24. ASSUME NEW g \in 1..gens, FailFirst(g) PROVE \A s \in Calls : Sent(s)
  <2>1. UNCHANGED <<gen, client, kind>> /\ (UNCHANGED pc \/ pc' = Failing(g))
    BY <1>24 DEF FailFirst, rest, callVars
  <2> QED BY <2>1, FailingTypes, Outcomes, TaskNames DEF Sent, Unsent, Inv1, Types
<1>25. ASSUME NEW g \in 1..gens, Finalize(g) PROVE \A s \in Calls : Sent(s)
  <2>1. UNCHANGED <<gen, client, kind>> /\ (UNCHANGED pc \/ pc' = Failing(g))
    BY <1>25 DEF Finalize, rest, callVars
  <2> QED BY <2>1, FailingTypes, Outcomes, TaskNames DEF Sent, Unsent, Inv1, Types
<1>26. ASSUME NEW g \in 1..gens, ReadLine(g) PROVE \A s \in Calls : Sent(s)
  <2>1. UNCHANGED <<gen, client, kind>>
    BY <1>26 DEF ReadLine, rest, callVars
  <2>2. \A x \in Tasks : pc'[x] = pc[x] \/ pc'[x] \notin Unsent
    BY <1>26, ReadEffect DEF Unsent
  <2> QED BY <2>1, <2>2, TaskNames DEF Sent
<1>27. ASSUME UNCHANGED <<pc, gen, client, kind>> PROVE \A s \in Calls : Sent(s)
  BY <1>27 DEF Sent, Unsent
<1>28. ASSUME NEW r \in Calls,
       Completes(r)
      PROVE \A s \in Calls : Sent(s)
  BY <1>28, <1>27 DEF Completes, rest, callVars
<1>29. ASSUME NEW g \in 1..gens,
       Notice(g) \/ ShutsDown(g) \/ Drained(g) \/ Exits(g) \/ Drops(g)
      PROVE \A s \in Calls : Sent(s)
  BY <1>29, <1>27 DEF Notice, rest, callVars, ShutsDown, Drained, Exits, Drops
<1>30. ASSUME NEW g \in 1..gens, NEW t \in Tasks,
       Accept(g, t)
      PROVE \A s \in Calls : Sent(s)
  BY <1>30, <1>27 DEF Accept, rest, callVars
<1> QED BY <1>1, <1>2, <1>3, <1>4, <1>5, <1>6, <1>7, <1>8, <1>9, <1>10, <1>11, <1>12, <1>13,
           <1>14, <1>15, <1>16, <1>17, <1>18, <1>19, <1>20, <1>21, <1>22, <1>23, <1>24,
           <1>25, <1>26, <1>27, <1>28, <1>29, <1>30 DEF Next, vars

\* Where the process of a client comes from.
LEMMA NewProcessStep ==
  ASSUME Inv1, [Next]_vars
  PROVE  \A j \in Instances : NewProcess(j)
<1>1. ASSUME NEW r \in Calls, StartCheck(r) PROVE \A j \in Instances : NewProcess(j)
  BY <1>1, Functions1 DEF StartCheck, NewProcess
<1>2. ASSUME NEW r \in Calls, Spawn(r) PROVE \A j \in Instances : NewProcess(j)
  <2>1. process' = [process EXCEPT ![client[r]] = gens + 1] /\ gens' = gens + 1
    BY <1>2 DEF Spawn, Opens
  <2> QED BY <2>1, Functions1 DEF NewProcess
<1>3. ASSUME NEW r \in Calls, Recover(r) PROVE \A j \in Instances : NewProcess(j)
  BY <1>3, Functions1 DEF Recover, Taken, NewProcess
<1>4. ASSUME NEW t \in Tasks, Take(t) PROVE \A j \in Instances : NewProcess(j)
  BY <1>4, Functions1 DEF Take, Taken, NewProcess
<1>5. ASSUME NEW i \in Instances, Kill(i) PROVE \A j \in Instances : NewProcess(j)
  BY <1>5, Functions1 DEF Kill, Taken, NewProcess
<1>6. ASSUME NEW g \in 1..gens, Finalize(g) PROVE \A j \in Instances : NewProcess(j)
  BY <1>6, Functions1 DEF Finalize, NewProcess
<1>7. ASSUME UNCHANGED <<process>> PROVE \A j \in Instances : NewProcess(j)
  BY <1>7 DEF NewProcess
<1>8. ASSUME NEW r \in Calls,
       Replaced(r) \/ Enter(r) \/ Started(r) \/ SpawnFails(r) \/ Initialized(r) \/
       Answered(r) \/ Completes(r)
      PROVE \A j \in Instances : NewProcess(j)
  BY <1>8, <1>7 DEF Replaced, Enter, Started, SpawnFails, Initialized, Answered, Completes
<1>9. ASSUME NEW r \in Calls, NEW i \in Instances,
       Get(r, i)
      PROVE \A j \in Instances : NewProcess(j)
  BY <1>9, <1>7 DEF Get
<1>10. ASSUME NEW t \in Tasks,
       ReadGeneration(t) \/ Send(t) \/ WriteFails(t) \/ NoticeWrite(t) \/ Timeout(t) \/
       FailPending(t) \/ Terminate(t) \/ Join(t) \/ StopDaemon(t)
      PROVE \A j \in Instances : NewProcess(j)
  BY <1>10, <1>7 DEF ReadGeneration, Send, WriteFails, NoticeWrite, Timeout, FailPending,
                     Terminate, Join, StopDaemon
<1>11. ASSUME NEW i \in Instances,
       EvictChecks(i) \/ RetireLocks(i)
      PROVE \A j \in Instances : NewProcess(j)
  BY <1>11, <1>7 DEF EvictChecks, RetireLocks
<1>12. ASSUME NEW g \in 1..gens,
       Notice(g) \/ ShutsDown(g) \/ FailFirst(g) \/ Drained(g) \/ ReadLine(g) \/ Exits(g) \/
       Drops(g)
      PROVE \A j \in Instances : NewProcess(j)
  BY <1>12, <1>7 DEF Notice, ShutsDown, FailFirst, Drained, ReadLine, Exits, Drops
<1>13. ASSUME NEW g \in 1..gens, NEW t \in Tasks,
       Accept(g, t)
      PROVE \A j \in Instances : NewProcess(j)
  BY <1>13, <1>7 DEF Accept
<1> QED BY <1>1, <1>2, <1>3, <1>4, <1>5, <1>6, <1>7, <1>8, <1>9, <1>10, <1>11, <1>12, <1>13
           DEF Next, vars

\* A generation keeps its client.
LEMMA OfKept ==
  ASSUME Inv1, [Next]_vars
  PROVE  \A h \in Gens : h <= gens => of'[h] = of[h]
<1>1. ASSUME NEW r \in Calls, Spawn(r) PROVE \A h \in Gens : h <= gens => of'[h] = of[h]
  <2>1. of' = [of EXCEPT ![gens + 1] = client[r]] /\ gens \in Nat
    BY <1>1, GensNat DEF Spawn, Opens
  <2> QED BY <2>1, Functions1
<1>2. ASSUME UNCHANGED <<of>> PROVE \A h \in Gens : h <= gens => of'[h] = of[h]
  BY <1>2 DEF vars
<1>3. ASSUME NEW r \in Calls,
       Replaced(r) \/ Enter(r) \/ Started(r) \/ StartCheck(r) \/ SpawnFails(r) \/
       Initialized(r) \/ Answered(r) \/ Recover(r) \/ Completes(r)
      PROVE \A h \in Gens : h <= gens => of'[h] = of[h]
  BY <1>3, <1>2 DEF Replaced, linkVars, Enter, rest, Started, StartCheck, SpawnFails,
                    Initialized, Answered, Recover, Completes
<1>4. ASSUME NEW r \in Calls, NEW i \in Instances,
       Get(r, i)
      PROVE \A h \in Gens : h <= gens => of'[h] = of[h]
  BY <1>4, <1>2 DEF Get, linkVars
<1>5. ASSUME NEW t \in Tasks,
       ReadGeneration(t) \/ Send(t) \/ WriteFails(t) \/ NoticeWrite(t) \/ Timeout(t) \/
       Take(t) \/ FailPending(t) \/ Terminate(t) \/ Join(t) \/ StopDaemon(t)
      PROVE \A h \in Gens : h <= gens => of'[h] = of[h]
  BY <1>5, <1>2 DEF ReadGeneration, rest, linkVars, Send, WriteFails, NoticeWrite, Timeout,
                    Take, FailPending, Terminate, Join, StopDaemon
<1>6. ASSUME NEW i \in Instances,
       Kill(i) \/ EvictChecks(i) \/ RetireLocks(i)
      PROVE \A h \in Gens : h <= gens => of'[h] = of[h]
  BY <1>6, <1>2 DEF Kill, linkVars, EvictChecks, RetireLocks
<1>7. ASSUME NEW g \in 1..gens,
       Notice(g) \/ ShutsDown(g) \/ FailFirst(g) \/ Finalize(g) \/ Drained(g) \/ ReadLine(g)
       \/ Exits(g) \/ Drops(g)
      PROVE \A h \in Gens : h <= gens => of'[h] = of[h]
  BY <1>7, <1>2 DEF Notice, rest, linkVars, ShutsDown, FailFirst, Finalize, Drained,
                    ReadLine, Exits, Drops
<1>8. ASSUME NEW g \in 1..gens, NEW t \in Tasks,
       Accept(g, t)
      PROVE \A h \in Gens : h <= gens => of'[h] = of[h]
  BY <1>8, <1>2 DEF Accept, rest, linkVars
<1> QED BY <1>1, <1>2, <1>3, <1>4, <1>5, <1>6, <1>7, <1>8 DEF Next, vars

-----------------------------------------------------------------------------
(* What has been said of a call.                                            *)

\* A call and what has been said of it: nothing before it is sent, nor while its process has not
\* taken it; the start of its turn is heard from that process, the end when it runs no more.
Lined(r, g) == \E l \in ToSet(lines[g]) : l.to = Call(r)
Fresh(r) ==
  /\ \A g \in Gens : Call(r) \in inbox[g] =>
       gen[Call(r)] = g /\ r \notin running \cup told /\ \A h \in Gens : ~Lined(r, h)
  /\ \A g \in Gens : Line("started", Call(r)) \in ToSet(lines[g]) => gen[Call(r)] = g
  /\ \A g \in Gens : Line("completed", Call(r)) \in ToSet(lines[g])
     => r \notin running /\ of[g] = client[r]
  /\ pc[Call(r)] \in Unsent =>
       r \notin running \cup told /\ \A g \in Gens : Call(r) \notin inbox[g] /\ ~Lined(r, g)
  /\ r \in running => kind[r] = "turn" /\ gen[Call(r)] # 0
FreshInv == \A r \in Calls : Fresh(r)

\* What has been said was said by a generation given out.
LEMMA HeardOf ==
  ASSUME Inv1, NEW r \in Calls, NEW g \in Gens, NEW k, Line(k, Call(r)) \in ToSet(lines[g])
  PROVE  Lined(r, g) /\ g <= gens
<1>1. Lined(r, g)
  BY TaskNames, LineTypes DEF Lined
<1>2. ToSet(lines[g]) # {}
  OBVIOUS
<1>3. ~ (g > gens)
  BY <1>2, NoLines DEF Inv1, FutureInv, Unused
<1> QED BY <1>1, <1>3, GensNat

\* A call stays fresh while nothing new is said.
LEMMA FreshKept ==
  ASSUME Inv1, NEW r \in Calls, Fresh(r), Sent(r), \A g \in Gens : g <= gens => of'[g] = of[g],
         \A g \in Gens : Call(r) \in inbox'[g]
           => Call(r) \in inbox[g] \/ (pc[Call(r)] = "sends" /\ gen[Call(r)] = g
                           /\ gen'[Call(r)] = g /\ pc'[Call(r)] \notin Unsent),
         \A g \in Gens : ToSet(lines'[g]) \subseteq ToSet(lines[g]),
         r \in running' => r \in running, r \in told' => r \in told
  PROVE  Fresh(r)'
<1>1. \A g \in Gens : Lined(r, g)' => Lined(r, g)
  BY DEF Lined
<1>2. pc[Call(r)] \in Unsent => r \notin running' \cup told' /\ \A g \in Gens : ~Lined(r, g)'
  BY <1>1 DEF Fresh
<1>3. pc[Call(r)] \notin Unsent =>
        gen'[Call(r)] = gen[Call(r)] /\ client'[r] = client[r] /\ kind'[r] = kind[r]
  BY DEF Sent
<1>4. ASSUME NEW g \in Gens, Call(r) \in inbox'[g]
      PROVE  /\ gen'[Call(r)] = g /\ r \notin running' \cup told' /\ \A h \in Gens : ~Lined(r, h)'
             /\ pc'[Call(r)] \notin Unsent
  <2>1. CASE Call(r) \in inbox[g]
    <3>1. pc[Call(r)] \notin Unsent /\ gen[Call(r)] = g /\ r \notin running \cup told
            /\ \A h \in Gens : ~Lined(r, h)
      BY <2>1 DEF Fresh
    <3> QED BY <1>1, <1>3, <3>1 DEF Sent
  <2>2. CASE Call(r) \notin inbox[g]
    <3>1. pc[Call(r)] = "sends" /\ gen'[Call(r)] = g /\ pc'[Call(r)] \notin Unsent
      BY <1>4, <2>2
    <3> QED BY <1>2, <3>1 DEF Unsent
  <2> QED BY <2>1, <2>2
<1>5. ASSUME NEW g \in Gens, Line("started", Call(r)) \in ToSet(lines'[g]) PROVE gen'[Call(r)] = g
  <2>1. Line("started", Call(r)) \in ToSet(lines[g])
    BY <1>5
  <2>2. gen[Call(r)] = g /\ pc[Call(r)] \notin Unsent
    BY <2>1, HeardOf DEF Fresh
  <2> QED BY <1>3, <2>2
<1>6. ASSUME NEW g \in Gens, Line("completed", Call(r)) \in ToSet(lines'[g])
      PROVE  r \notin running' /\ of'[g] = client'[r]
  <2>1. Line("completed", Call(r)) \in ToSet(lines[g])
    BY <1>6
  <2>2. r \notin running /\ of[g] = client[r] /\ pc[Call(r)] \notin Unsent /\ g <= gens
    BY <2>1, HeardOf DEF Fresh
  <2> QED BY <1>3, <2>2
<1>7. pc'[Call(r)] \in Unsent => pc[Call(r)] \in Unsent
  BY DEF Sent
<1>8. r \in running' => kind'[r] = "turn" /\ gen'[Call(r)] # 0
  BY <1>2, <1>3 DEF Fresh
<1>9. pc'[Call(r)] \in Unsent => \A g \in Gens : Call(r) \notin inbox'[g]
  BY <1>4
<1> HIDE DEF Lined
<1> QED BY <1>1, <1>2, <1>4, <1>5, <1>6, <1>7, <1>8, <1>9 DEF Fresh

\* The lines a process says.
LEMMA AcceptLines ==
  ASSUME Inv1, NEW g \in 1..gens, NEW t \in Tasks, Accept(g, t)
  PROVE  \A h \in Gens :
           \/ lines'[h] = lines[h]
           \/ /\ h = g /\ g \in up
              /\ \/ /\ t[1] = "call" /\ running' = running \cup {t[2]}
                    /\ lines'[g] = lines[g] \o <<Line("answer", t), Line("started", t)>>
                    /\ ToSet(lines'[g]) = ToSet(lines[g]) \cup {Line("answer", t),
                       Line("started", t)}
                 \/ /\ UNCHANGED running /\ lines'[g] = lines[g] \o <<Line("answer", t)>>
                    /\ ToSet(lines'[g]) = ToSet(lines[g]) \cup {Line("answer", t)}
<1>0. lines \in [Gens -> Seq(Lines)] /\ g \in Gens
  BY FlowFunctions, GensGiven
<1>1. PICK ls : /\ Says(g, ls)
                /\ \/ t[1] = "call" /\ running' = running \cup {t[2]}
                      /\ ls = <<Line("answer", t), Line("started", t)>>
                   \/ UNCHANGED running /\ ls = <<Line("answer", t)>>
  BY DEF Accept
<1>2. lines' = lines \/ (g \in up /\ lines' = [lines EXCEPT ![g] = lines[g] \o ls])
  BY <1>1 DEF Says
<1>3. CASE ls = <<Line("answer", t)>>
  <2>1. ToSet(lines[g] \o ls) = ToSet(lines[g]) \cup {Line("answer", t)}
    <3>1. Line("answer", t) \in Lines /\ lines[g] \in Seq(Lines)
      BY <1>0, LineTypes
    <3>2. ls \in Seq(Lines) /\ ToSet(ls) = {Line("answer", t)}
      BY <1>3, <3>1, OneLine
    <3> QED BY <3>1, <3>2, LinesSaid
  <2> QED BY <1>0, <1>1, <1>2, <1>3, <2>1
<1>4. CASE ls = <<Line("answer", t), Line("started", t)>>
  <2>1. ToSet(lines[g] \o ls) = ToSet(lines[g]) \cup {Line("answer", t), Line("started", t)}
    <3>1. Line("answer", t) \in Lines /\ Line("started", t) \in Lines /\ lines[g] \in Seq(Lines)
      BY <1>0, LineTypes
    <3>2. ls \in Seq(Lines) /\ ToSet(ls) = {Line("answer", t), Line("started", t)}
      BY <1>4, <3>1, TwoLines
    <3> QED BY <3>1, <3>2, LinesSaid
  <2>2. ls # <<Line("answer", t)>>
    BY <1>4
  <2> QED BY <1>0, <1>1, <1>2, <1>4, <2>1, <2>2
<1> QED BY <1>1, <1>3, <1>4

\* The line that a turn's end makes.
LEMMA CompleteLines ==
  ASSUME Inv1, NEW r \in Calls, Completes(r)
  PROVE  \A h \in Gens :
           \/ lines'[h] = lines[h]
           \/ /\ h \in up /\ lines'[h] = lines[h] \o <<Line("completed", Call(r))>>
              /\ ToSet(lines'[h]) = ToSet(lines[h]) \cup {Line("completed", Call(r))}
              /\ h = gen[Call(r)] \/ (of[h] = of[gen[Call(r)]] /\ h > gen[Call(r)])
<1>0. lines \in [Gens -> Seq(Lines)] /\ up \subseteq Gens
  BY FlowFunctions, UpGens
<1>1. UNCHANGED lines
      \/ \E h \in up : /\ Says(h, <<Line("completed", Call(r))>>)
                       /\ h = gen[Call(r)] \/ (of[h] = of[gen[Call(r)]] /\ h > gen[Call(r)])
  BY DEF Completes, Handoff
<1>2. ASSUME NEW h \in up, Says(h, <<Line("completed", Call(r))>>)
      PROVE  /\ lines' = [lines EXCEPT ![h] = lines[h] \o <<Line("completed", Call(r))>>]
             /\ ToSet(lines[h] \o <<Line("completed", Call(r))>>)
                  = ToSet(lines[h]) \cup {Line("completed", Call(r))}
  <2>1. Line("completed", Call(r)) \in Lines
    BY TaskNames, LineTypes
  <2>2. ToSet(lines[h] \o <<Line("completed", Call(r))>>)
           = ToSet(lines[h]) \cup {Line("completed", Call(r))}
    <3> DEFINE ls == <<Line("completed", Call(r))>>
    <3>1. lines[h] \in Seq(Lines)
      BY <1>0
    <3>2. ls \in Seq(Lines) /\ ToSet(ls) = {Line("completed", Call(r))}
      BY <2>1, OneLine
    <3> HIDE DEF ls
    <3>3. ToSet(lines[h] \o ls) = ToSet(lines[h]) \cup ToSet(ls)
      BY <3>1, <3>2, LinesSaid
    <3> QED BY <3>2, <3>3 DEF ls
  <2> QED BY <1>2, <2>2 DEF Says
<1> QED BY <1>0, <1>1, <1>2

\* Nothing else is said.
LEMMA AcceptSaid ==
  ASSUME Inv1, NEW g \in 1..gens, NEW t \in Tasks, Accept(g, t), NEW h \in Gens,
           NEW l \in ToSet(lines'[h])
  PROVE  l \in ToSet(lines[h]) \/ (h = g /\ l.to = t /\ l.kind \in {"answer", "started"})
<1>1. \/ lines'[h] = lines[h]
      \/ h = g /\ ToSet(lines'[h]) = ToSet(lines[h]) \cup {Line("answer", t), Line("started", t)}
      \/ h = g /\ ToSet(lines'[h]) = ToSet(lines[h]) \cup {Line("answer", t)}
  BY AcceptLines
<1>2. l \in ToSet(lines[h]) \/ (h = g /\ l \in {Line("answer", t), Line("started", t)})
  BY <1>1
<1> QED BY <1>2, LineTypes
\* Nothing else is said.
LEMMA CompleteSaid ==
  ASSUME Inv1, NEW r \in Calls, Completes(r), NEW h \in Gens, NEW l \in ToSet(lines'[h])
  PROVE  l \in ToSet(lines[h]) \/ (l.to = Call(r) /\ l.kind = "completed")
<1>1. \/ lines'[h] = lines[h]
      \/ ToSet(lines'[h]) = ToSet(lines[h]) \cup {Line("completed", Call(r))}
  BY CompleteLines
<1>2. l \in ToSet(lines[h]) \/ l = Line("completed", Call(r))
  BY <1>1
<1> QED BY <1>2, LineTypes, TaskNames

\* The line a reader reads.
LEMMA ReadLines ==
  ASSUME Inv1, NEW g \in 1..gens, ReadLine(g)
  PROVE  /\ g \in Gens /\ lines[g] # <<>> /\ Head(lines[g]) \in ToSet(lines[g])
         /\ \A h \in Gens : lines'[h] = IF h = g THEN Tail(lines[g]) ELSE lines[h]
         /\ \A h \in Gens : ToSet(lines'[h]) \subseteq ToSet(lines[h])
         /\ \A r \in Calls : r \in told' => r \in told \/ Head(lines[g]).to = Call(r)
<1>0. lines \in [Gens -> Seq(Lines)] /\ g \in Gens
  BY FlowFunctions, GensGiven
<1>1. lines[g] # <<>> /\ lines' = [lines EXCEPT ![g] = Tail(lines[g])]
  BY DEF ReadLine
<1>2. Head(lines[g]) \in ToSet(lines[g]) /\ ToSet(Tail(lines[g])) \subseteq ToSet(lines[g])
  BY <1>0, <1>1, LinesRead
<1>3. Head(lines[g]).to \in Tasks /\ (Head(lines[g]).kind # "answer"
        => Head(lines[g]).to[1] = "call")
  BY <1>0, <1>1, Lines0
<1>4. \/ told' = told
      \/ Head(lines[g]).to[1] = "call" /\ told' = told \cup {Head(lines[g]).to[2]}
  <2>1. PICK l, t : l = Head(lines[g]) /\ t = l.to
    OBVIOUS
  <2>2. \/ told' = told
        \/ l.kind = "started" /\ told' = told \cup {t[2]}
        \/ t[1] = "call" /\ told' = told \cup {t[2]}
    BY <2>1 DEF ReadLine
  <2> QED BY <1>3, <2>1, <2>2
<1>5. Head(lines[g]).to[1] = "call" => Head(lines[g]).to = Call(Head(lines[g]).to[2])
  BY <1>3, TaskNames DEF Call
<1> QED BY <1>0, <1>1, <1>2, <1>4, <1>5

\* Calls are told apart.
LEMMA CallsApart == \A r, s \in Calls : Call(r) = Call(s) => r = s
  BY DEF Call

\* FreshInv is kept.
LEMMA FreshInvStep ==
  ASSUME Inv1, FreshInv, [Next]_vars
  PROVE  FreshInv'
<1>0. /\ \A s \in Calls : Sent(s) /\ Fresh(s)
      /\ \A g \in Gens : g <= gens => of'[g] = of[g]
  BY SentStep, OfKept DEF FreshInv
<1>1. CASE Quiet
  <2>1. \A g \in Gens : ToSet(lines'[g]) \subseteq ToSet(lines[g])
    BY <1>1, NoLines DEF Quiet
  <2>2. ASSUME NEW s \in Calls PROVE Fresh(s)'
    BY <1>0, <1>1, <2>1, FreshKept DEF Quiet
  <2> QED BY <2>2 DEF FreshInv
<1>2. ASSUME NEW t \in Tasks, Send(t) PROVE FreshInv'
  <2>1. UNCHANGED <<lines, running, told, gen>> /\ pc[t] = "sends"
    BY <1>2 DEF Send, rest, callVars
  <2>2. \A h \in Gens : inbox'[h] = inbox[h]
          \/ (h = gen[t] /\ inbox'[h] = inbox[h] \cup {t} /\ pc'[t] = "waits")
    <3>1. \/ inbox' = inbox
          \/ /\ pc' = [pc EXCEPT ![t] = "waits"]
             /\ inbox' = [inbox EXCEPT ![gen[t]] = inbox[gen[t]] \cup {t}]
      BY <1>2 DEF Send
    <3> QED BY <3>1, FlowFunctions, Functions1
  <2>3. ASSUME NEW s \in Calls PROVE Fresh(s)'
    <3>1. \A g \in Gens : Call(s) \in inbox'[g] => Call(s) \in inbox[g]
             \/ (pc[Call(s)] = "sends" /\ gen[Call(s)] = g /\ gen'[Call(s)] = g
                /\ pc'[Call(s)] \notin Unsent)
      BY <2>1, <2>2 DEF Unsent
    <3> QED BY <1>0, <2>1, <3>1, FreshKept
  <2> QED BY <2>3 DEF FreshInv
<1>3. ASSUME NEW g \in 1..gens, ReadLine(g) PROVE FreshInv'
  <2>1. UNCHANGED <<inbox, running, gen, client, kind, of>> /\ g \in Gens
    BY <1>3, GensGiven DEF ReadLine, rest, callVars, linkVars, worldVars
  <2>2. ASSUME NEW s \in Calls PROVE Fresh(s)'
    <3>1. CASE s \notin told' \/ s \in told
      BY <1>0, <1>3, <2>1, <3>1, ReadLines, FreshKept
    <3>2. CASE s \in told' /\ s \notin told
      <4>1. Lined(s, g)
        BY <1>3, <3>2, ReadLines DEF Lined
      <4>2. pc[Call(s)] \notin Unsent /\ \A h \in Gens : Call(s) \notin inbox[h]
        BY <1>0, <2>1, <4>1 DEF Fresh
      <4>3. pc'[Call(s)] \notin Unsent
        BY <1>0, <4>2 DEF Sent
      <4>4. \A h \in Gens : ToSet(lines'[h]) \subseteq ToSet(lines[h])
        BY <1>3, ReadLines
      <4> QED BY <1>0, <2>1, <4>2, <4>3, <4>4 DEF Fresh
    <3> QED BY <3>1, <3>2
  <2> QED BY <2>2 DEF FreshInv
<1>4. ASSUME NEW g \in 1..gens, NEW t \in Tasks, Accept(g, t) PROVE FreshInv'
  <2>1. UNCHANGED <<pc, gen, client, kind, of, told>> /\ g \in Gens /\ t \in inbox[g]
    BY <1>4, GensGiven DEF Accept, rest, callVars, linkVars, history
  <2>2. \A h \in Gens : inbox'[h] = IF h = g THEN inbox[h] \ {t} ELSE inbox[h]
    BY <1>4, FlowFunctions DEF Accept
  <2>3. running' = running
          \/ (t[1] = "call" /\ kind[t[2]] = "turn" /\ running' = running \cup {t[2]})
    BY <1>4 DEF Accept
  <2>4. ASSUME NEW s \in Calls, Call(s) # t PROVE Fresh(s)'
    <3>1. s \in running' => s \in running
      BY <2>3, <2>4, TaskNames DEF Call
    <3>2. \A h \in Gens : \A l \in ToSet(lines'[h]) : l.to = Call(s) => l \in ToSet(lines[h])
      BY <1>4, <2>4, AcceptSaid
    <3>3. \A h \in Gens : Lined(s, h)' => Lined(s, h)
      BY <3>2 DEF Lined
    <3>4. \A h \in Gens : /\ Line("started", Call(s)) \in ToSet(lines'[h])
                             => Line("started", Call(s)) \in ToSet(lines[h])
                          /\ Line("completed", Call(s)) \in ToSet(lines'[h])
                             => Line("completed", Call(s)) \in ToSet(lines[h])
      BY <3>2, LineTypes, TaskNames
    <3>5. Fresh(s)
      BY <1>0
    <3> QED BY <2>1, <2>2, <3>1, <3>3, <3>4, <3>5 DEF Fresh
  <2>5. ASSUME NEW s \in Calls, Call(s) = t PROVE Fresh(s)'
    <3>1. gen[t] = g /\ s \notin running \cup told /\ \A h \in Gens : ~Lined(s, h)
      BY <1>0, <2>1, <2>5 DEF Fresh
    <3>2. pc[t] \notin Unsent
      BY <1>0, <2>1, <2>5 DEF Fresh
    <3>3. \A h \in Gens : t \notin inbox'[h]
      <4>1. \A h \in Gens : t \in inbox[h] => gen[t] = h
        BY <1>0, <2>5 DEF Fresh
      <4> QED BY <2>1, <2>2, <3>1, <4>1
    <3>4. \A h \in Gens, k \in {"started", "completed"} : Line(k, t) \notin ToSet(lines[h])
      BY <2>5, <3>1, LineTypes DEF Lined
    <3>5. \A h \in Gens : Line("started", t) \in ToSet(lines'[h]) => h = g
      BY <1>4, <3>4, AcceptSaid, LineTypes
    <3>6. \A h \in Gens : Line("completed", t) \notin ToSet(lines'[h])
      BY <1>4, <3>4, AcceptSaid, LineTypes
    <3>7. s \in running' => kind[s] = "turn"
      BY <2>3, <2>5, <3>1, TaskNames
    <3> QED BY <2>1, <2>5, <3>1, <3>2, <3>3, <3>5, <3>6, <3>7 DEF Fresh
  <2> QED BY <2>4, <2>5 DEF FreshInv
<1>5. ASSUME NEW r \in Calls, Completes(r) PROVE FreshInv'
  <2>1. UNCHANGED <<pc, gen, client, kind, of, told, inbox>> /\ r \in running
          /\ running' = running \ {r}
    BY <1>5 DEF Completes, rest, callVars, linkVars
  <2>2. ASSUME NEW s \in Calls, s # r PROVE Fresh(s)'
    <3>2. \A h \in Gens : \A l \in ToSet(lines'[h]) : l.to = Call(s) => l \in ToSet(lines[h])
      BY <1>5, <2>2, CompleteSaid, CallsApart
    <3>3. \A h \in Gens : Lined(s, h)' => Lined(s, h)
      BY <3>2 DEF Lined
    <3>4. \A h \in Gens : /\ Line("started", Call(s)) \in ToSet(lines'[h])
                             => Line("started", Call(s)) \in ToSet(lines[h])
                          /\ Line("completed", Call(s)) \in ToSet(lines'[h])
                             => Line("completed", Call(s)) \in ToSet(lines[h])
      BY <3>2, LineTypes, TaskNames
    <3>5. Fresh(s)
      BY <1>0
    <3> QED BY <2>1, <3>3, <3>4, <3>5 DEF Fresh
  <2>3. Fresh(r)'
    <3>1. pc[Call(r)] \notin Unsent /\ gen[Call(r)] # 0 /\ \A h \in Gens : Call(r) \notin inbox[h]
      BY <1>0, <2>1 DEF Fresh
    <3>2. of[gen[Call(r)]] = client[r]
      BY <3>1, LinkFacts, TaskNames DEF Linked, ClientOf
    <3>3. \A h \in Gens : Line("started", Call(r)) \in ToSet(lines'[h]) => gen[Call(r)] = h
      <4>1. \A h \in Gens : Line("started", Call(r)) \in ToSet(lines'[h])
              => Line("started", Call(r)) \in ToSet(lines[h])
        BY <1>5, CompleteSaid, LineTypes, TaskNames
      <4> QED BY <1>0, <4>1 DEF Fresh
    <3>4. \A h \in Gens : Line("completed", Call(r)) \in ToSet(lines'[h]) => of[h] = client[r]
      BY <1>0, <1>5, <3>2, CompleteLines DEF Fresh
    <3> QED BY <2>1, <3>1, <3>3, <3>4 DEF Fresh
  <2> QED BY <2>2, <2>3 DEF FreshInv
<1> QED BY <1>1, <1>2, <1>3, <1>4, <1>5, QuietStep DEF Busy

-----------------------------------------------------------------------------
(* Turns and evictions.                                                     *)

\* A turn the client was told of is recorded, while its process is the client's.
TurnInv == \A r \in running : LET g == gen[Call(r)] IN
  r \in told /\ process[of[g]] = g => r \in active[of[g]] \/ pc[Call(r)] = "answered"

\* A client forgets a turn when it reads the turn's end, or with its process.
LEMMA ActiveStep ==
  ASSUME Inv1, [Next]_vars
  PROVE  (\A j \in Instances : active[j] \subseteq active'[j] \/ process'[j] = 0)
           \/ (\E h \in 1..gens : ReadLine(h))
<1> DEFINE Kept == (\A j \in Instances : active[j] \subseteq active'[j] \/ process'[j] = 0)
      \/ (\E h \in 1..gens : ReadLine(h))
<1>1. ASSUME NEW r \in Calls, Answered(r) PROVE Kept
  BY <1>1, Functions1, GensGiven DEF Answered
<1>2. ASSUME NEW g \in 1..gens, Finalize(g) PROVE Kept
  BY <1>2, Functions1, GensGiven DEF Finalize
<1>3. ASSUME NEW g \in 1..gens, ReadLine(g) PROVE Kept
  BY <1>3
<1>4. ASSUME UNCHANGED <<active>> PROVE Kept
  BY <1>4
<1>5. ASSUME NEW r \in Calls,
       Replaced(r) \/ Enter(r) \/ Started(r) \/ StartCheck(r) \/ Spawn(r) \/ SpawnFails(r) \/
       Initialized(r) \/ Recover(r) \/ Completes(r)
      PROVE Kept
  BY <1>5, <1>4 DEF Replaced, Enter, Started, StartCheck, Spawn, Offers, SpawnFails,
                    Initialized, Recover, Completes
<1>6. ASSUME NEW r \in Calls, NEW i \in Instances,
       Get(r, i)
      PROVE Kept
  BY <1>6, <1>4 DEF Get
<1>7. ASSUME NEW t \in Tasks,
       ReadGeneration(t) \/ Send(t) \/ WriteFails(t) \/ NoticeWrite(t) \/ Timeout(t) \/
       Take(t) \/ FailPending(t) \/ Terminate(t) \/ Join(t) \/ StopDaemon(t)
      PROVE Kept
  BY <1>7, <1>4 DEF ReadGeneration, Send, WriteFails, NoticeWrite, Timeout, Take,
                    FailPending, Terminate, Join, StopDaemon
<1>8. ASSUME NEW i \in Instances,
       Kill(i) \/ EvictChecks(i) \/ RetireLocks(i)
      PROVE Kept
  BY <1>8, <1>4 DEF Kill, EvictChecks, RetireLocks
<1>9. ASSUME NEW g \in 1..gens,
       Notice(g) \/ ShutsDown(g) \/ FailFirst(g) \/ Drained(g) \/ Exits(g) \/ Drops(g)
      PROVE Kept
  BY <1>9, <1>4 DEF Notice, ShutsDown, FailFirst, Drained, Exits, Drops
<1>10. ASSUME NEW g \in 1..gens, NEW t \in Tasks,
       Accept(g, t)
      PROVE Kept
  BY <1>10, <1>4 DEF Accept
<1> QED BY <1>1, <1>2, <1>3, <1>4, <1>5, <1>6, <1>7, <1>8, <1>9, <1>10 DEF Next, vars

\* An answered call stays so until it handles its answer.
LEMMA AnsweredStep ==
  ASSUME Inv1, [Next]_vars
  PROVE  \A s \in Calls : pc[Call(s)] = "answered" => pc'[Call(s)] = "answered" \/ Answered(s)
<1> DEFINE Kept == \A s \in Calls : pc[Call(s)] = "answered"
      => pc'[Call(s)] = "answered" \/ Answered(s)
<1>1. ASSUME NEW r \in Calls, Replaced(r) PROVE Kept
  BY <1>1, Functions1, TaskNames DEF Replaced
<1>2. ASSUME NEW r \in Calls, Enter(r) PROVE Kept
  BY <1>2, Functions1, TaskNames DEF Enter
<1>3. ASSUME NEW r \in Calls, Started(r) PROVE Kept
  BY <1>3, Functions1, TaskNames DEF Started
<1>4. ASSUME NEW r \in Calls, StartCheck(r) PROVE Kept
  BY <1>4, Functions1, TaskNames DEF StartCheck
<1>5. ASSUME NEW r \in Calls, Spawn(r) PROVE Kept
  BY <1>5, Functions1, TaskNames DEF Spawn, Offers
<1>6. ASSUME NEW r \in Calls, SpawnFails(r) PROVE Kept
  BY <1>6, Functions1, TaskNames DEF SpawnFails, Move
<1>7. ASSUME NEW r \in Calls, Initialized(r) PROVE Kept
  BY <1>7, Functions1, TaskNames DEF Initialized
<1>8. ASSUME NEW r \in Calls, Answered(r) PROVE Kept
  <2>1. pc' = [pc EXCEPT ![Call(r)] = "over"]
    BY <1>8 DEF Answered, Move
  <2>2. ASSUME NEW s \in Calls, s # r PROVE pc'[Call(s)] = pc[Call(s)]
    BY <2>1, <2>2, CallsApart, Functions1, TaskNames
  <2> QED BY <1>8, <2>2
<1>9. ASSUME NEW r \in Calls, Recover(r) PROVE Kept
  BY <1>9, Functions1, TaskNames DEF Recover, Taken
<1>10. ASSUME NEW r \in Calls, NEW i \in Instances, Get(r, i) PROVE Kept
  BY <1>10, Functions1, TaskNames DEF Get
<1>11. ASSUME NEW t \in Tasks, ReadGeneration(t) PROVE Kept
  BY <1>11, Functions1, TaskNames DEF ReadGeneration
<1>12. ASSUME NEW t \in Tasks, Send(t) PROVE Kept
  BY <1>12, Functions1, TaskNames DEF Send
<1>13. ASSUME NEW t \in Tasks, WriteFails(t) PROVE Kept
  BY <1>13, Functions1, TaskNames DEF WriteFails, Move
<1>14. ASSUME NEW t \in Tasks, NoticeWrite(t) PROVE Kept
  BY <1>14, Functions1, TaskNames DEF NoticeWrite, Move
<1>15. ASSUME NEW t \in Tasks, Timeout(t) PROVE Kept
  BY <1>15, Functions1, TaskNames DEF Timeout
<1>16. ASSUME NEW t \in Tasks, Take(t) PROVE Kept
  BY <1>16, Functions1, TaskNames DEF Take, Taken
<1>17. ASSUME NEW t \in Tasks, FailPending(t) PROVE Kept
  <2>1. \A x \in Tasks : pc[x] = "answered" => pc'[x] = "answered"
    BY <1>17, FailPendingEffect, FailEffect
  <2> QED BY <2>1, TaskNames
<1>18. ASSUME NEW t \in Tasks, Terminate(t) PROVE Kept
  BY <1>18, Functions1, TaskNames DEF Terminate, Move
<1>19. ASSUME NEW t \in Tasks, Join(t) PROVE Kept
  BY <1>19, Functions1, TaskNames DEF Join
<1>20. ASSUME NEW t \in Tasks, StopDaemon(t) PROVE Kept
  BY <1>20, Functions1, TaskNames DEF StopDaemon, Move
<1>21. ASSUME NEW i \in Instances, Kill(i) PROVE Kept
  BY <1>21, Functions1, TaskNames DEF Kill, Taken
<1>22. ASSUME NEW i \in Instances, EvictChecks(i) PROVE Kept
  BY <1>22, Functions1, TaskNames DEF EvictChecks, Move
<1>23. ASSUME NEW i \in Instances, RetireLocks(i) PROVE Kept
  BY <1>23, Functions1, TaskNames DEF RetireLocks, Move
<1>24. ASSUME NEW g \in 1..gens, FailFirst(g) PROVE Kept
  <2>1. UNCHANGED pc \/ pc' = Failing(g)
    BY <1>24 DEF FailFirst
  <2> QED BY <2>1, FailingTypes, Outcomes, TaskNames DEF Inv1, Types
<1>25. ASSUME NEW g \in 1..gens, Finalize(g) PROVE Kept
  <2>1. UNCHANGED pc \/ pc' = Failing(g)
    BY <1>25 DEF Finalize
  <2> QED BY <2>1, FailingTypes, Outcomes, TaskNames DEF Inv1, Types
<1>26. ASSUME NEW g \in 1..gens, ReadLine(g) PROVE Kept
  BY <1>26, ReadEffect, TaskNames
<1>27. ASSUME UNCHANGED <<pc>> PROVE Kept
  BY <1>27
<1>28. ASSUME NEW r \in Calls,
       Completes(r)
      PROVE Kept
  BY <1>28, <1>27 DEF Completes
<1>29. ASSUME NEW g \in 1..gens,
       Notice(g) \/ ShutsDown(g) \/ Drained(g) \/ Exits(g) \/ Drops(g)
      PROVE Kept
  BY <1>29, <1>27 DEF Notice, ShutsDown, Drained, Exits, Drops
<1>30. ASSUME NEW g \in 1..gens, NEW t \in Tasks,
       Accept(g, t)
      PROVE Kept
  BY <1>30, <1>27 DEF Accept
<1> QED BY <1>1, <1>2, <1>3, <1>4, <1>5, <1>6, <1>7, <1>8, <1>9, <1>10, <1>11, <1>12, <1>13,
           <1>14, <1>15, <1>16, <1>17, <1>18, <1>19, <1>20, <1>21, <1>22, <1>23, <1>24,
           <1>25, <1>26, <1>27, <1>28, <1>29, <1>30 DEF Next, vars

\* A client is told of a turn by what it reads.
LEMMA ToldStep ==
  ASSUME [Next]_vars
  PROVE  told' = told \/ \E h \in 1..gens : ReadLine(h)
<1>1. ASSUME NEW g \in 1..gens, ReadLine(g) PROVE told' = told \/ \E h \in 1..gens : ReadLine(h)
  BY <1>1
<1>2. ASSUME UNCHANGED <<told>> PROVE told' = told \/ \E h \in 1..gens : ReadLine(h)
  BY <1>2
<1>3. ASSUME NEW r \in Calls,
       Replaced(r) \/ Enter(r) \/ Started(r) \/ StartCheck(r) \/ Spawn(r) \/ SpawnFails(r) \/
       Initialized(r) \/ Answered(r) \/ Recover(r) \/ Completes(r)
      PROVE told' = told \/ \E h \in 1..gens : ReadLine(h)
  BY <1>3, <1>2 DEF Replaced, history, Enter, Started, StartCheck, Spawn, Offers, SpawnFails,
                    Initialized, Answered, Recover, Completes
<1>4. ASSUME NEW r \in Calls, NEW i \in Instances,
       Get(r, i)
      PROVE told' = told \/ \E h \in 1..gens : ReadLine(h)
  BY <1>4, <1>2 DEF Get, history
<1>5. ASSUME NEW t \in Tasks,
       ReadGeneration(t) \/ Send(t) \/ WriteFails(t) \/ NoticeWrite(t) \/ Timeout(t) \/
       Take(t) \/ FailPending(t) \/ Terminate(t) \/ Join(t) \/ StopDaemon(t)
      PROVE told' = told \/ \E h \in 1..gens : ReadLine(h)
  BY <1>5, <1>2 DEF ReadGeneration, history, Send, WriteFails, NoticeWrite, Timeout, Take,
                    FailPending, Terminate, Join, StopDaemon
<1>6. ASSUME NEW i \in Instances,
       Kill(i) \/ EvictChecks(i) \/ RetireLocks(i)
      PROVE told' = told \/ \E h \in 1..gens : ReadLine(h)
  BY <1>6, <1>2 DEF Kill, EvictChecks, RetireLocks
<1>7. ASSUME NEW g \in 1..gens,
       Notice(g) \/ ShutsDown(g) \/ FailFirst(g) \/ Finalize(g) \/ Drained(g) \/ Exits(g) \/
       Drops(g)
      PROVE told' = told \/ \E h \in 1..gens : ReadLine(h)
  BY <1>7, <1>2 DEF Notice, ShutsDown, FailFirst, history, Finalize, Drained, Exits, Drops
<1>8. ASSUME NEW g \in 1..gens, NEW t \in Tasks,
       Accept(g, t)
      PROVE told' = told \/ \E h \in 1..gens : ReadLine(h)
  BY <1>8, <1>2 DEF Accept, history
<1> QED BY <1>1, <1>2, <1>3, <1>4, <1>5, <1>6, <1>7, <1>8 DEF Next, vars

\* A turn that runs: its call has been sent, to a process that is its client's.
LEMMA RunningTurn ==
  ASSUME Inv1, FreshInv, NEW r \in running
  PROVE  /\ r \in Calls /\ pc[Call(r)] \notin Unsent /\ kind[r] = "turn"
         /\ gen[Call(r)] \in Gens /\ gen[Call(r)] <= gens /\ gen[Call(r)] # 0
         /\ of[gen[Call(r)]] = client[r] /\ client[r] \in Instances
<1>1. r \in Calls
  BY FlowFunctions
<1>2. pc[Call(r)] \notin Unsent /\ kind[r] = "turn" /\ gen[Call(r)] # 0
  BY <1>1 DEF FreshInv, Fresh
<1>3. gen[Call(r)] <= gens /\ of[gen[Call(r)]] = client[r] /\ gen[Call(r)] \in 0..MaxGens
  BY <1>1, <1>2, LinkFacts, TaskNames DEF Linked, ClientOf
<1>4. client[r] \in Instances
  BY <1>1, <1>2, TaskNames DEF Unsent, Inv1, PlaceInv
<1> QED BY <1>1, <1>2, <1>3, <1>4, GensNat

\* TurnInv is kept: the answer's handler and the reader record a turn before its end is read.
LEMMA TurnInvStep ==
  ASSUME Inv1, FreshInv, TurnInv, [Next]_vars
  PROVE  TurnInv'
<1>1. ASSUME NEW r \in running', r \in running, r \in told, NEW g, g = gen[Call(r)],
             process'[of'[g]] = g
      PROVE  r \in active'[of'[g]] \/ pc'[Call(r)] = "answered"
  <2>1. /\ r \in Calls /\ pc[Call(r)] \notin Unsent /\ kind[r] = "turn" /\ g \in Gens
           /\ g <= gens /\ g # 0
        /\ of[g] = client[r] /\ client[r] \in Instances /\ of'[g] = of[g]
    BY <1>1, RunningTurn, OfKept
  <2>2. process[of[g]] = g
    BY <1>1, <2>1, NewProcessStep, GensNat DEF NewProcess
  <2>3. r \in active[of[g]] \/ pc[Call(r)] = "answered"
    BY <1>1, <2>2 DEF TurnInv
  <2>4. CASE r \in active[of[g]]
    <3>1. CASE active[of[g]] \subseteq active'[of[g]]
      BY <2>1, <2>4, <3>1
    <3>2. ASSUME NEW h \in 1..gens, ReadLine(h) PROVE r \in active'[of[g]]
      <4>1. Head(lines[h]) \in ToSet(lines[h]) /\ h \in Gens /\ lines[h] # <<>>
        BY <3>2, ReadLines
      <4>2. \/ active' = active
            \/ \E x \in Calls : active' = [active EXCEPT ![of[h]] = active[of[h]] \cup {x}]
            \/ /\ Head(lines[h]).kind = "completed"
               /\ active' = [active EXCEPT ![of[h]] = active[of[h]] \ {Head(lines[h]).to[2]}]
        BY <3>2, <4>1, Lines0 DEF ReadLine
      <4>3. Head(lines[h]).kind = "completed" => Head(lines[h]).to[2] # r
        <5>1. ASSUME Head(lines[h]).kind = "completed", Head(lines[h]).to[2] = r PROVE FALSE
          <6>1. Head(lines[h]) = Line("completed", Call(r))
            <7>1. Head(lines[h]) \in Lines /\ Head(lines[h]).to = Call(r)
              BY <4>1, <5>1, Lines0
            <7> QED BY <5>1, <7>1 DEF Lines, Line
          <6> QED BY <1>1, <2>1, <4>1, <6>1 DEF FreshInv, Fresh
        <5> QED BY <5>1
      <4> QED BY <2>1, <2>4, <4>2, <4>3, Functions1
    <3> QED BY <1>1, <2>1, <3>1, <3>2, ActiveStep
  <2>5. CASE pc[Call(r)] = "answered"
    <3>1. ASSUME Answered(r) PROVE r \in active'[client[r]]
      BY <2>1, <3>1, Functions1 DEF Answered
    <3> QED BY <2>1, <2>5, <3>1, AnsweredStep
  <2> QED BY <2>3, <2>4, <2>5
<1>2. ASSUME NEW r \in running', r \in running, r \in told', r \notin told, NEW g, g = gen[Call(r)]
      PROVE  r \in active'[of'[g]] \/ pc'[Call(r)] = "answered"
  <2>1. r \in Calls /\ g \in Gens /\ g <= gens /\ of[g] = client[r]
          /\ client[r] \in Instances /\ of'[g] = of[g]
    BY <1>2, RunningTurn, OfKept
  <2>2. PICK h \in 1..gens : ReadLine(h)
    BY <1>2, ToldStep
  <2>3. /\ Head(lines[h]) \in ToSet(lines[h]) /\ h \in Gens /\ lines[h] # <<>>
        /\ Head(lines[h]).to = Call(r) /\ Head(lines[h]) \in Lines
    BY <1>2, <2>1, <2>2, ReadLines, Lines0
  <2>4. \/ Head(lines[h]).kind = "started"
           /\ active' = [active EXCEPT ![of[h]] = active[of[h]] \cup {r}]
        \/ pc' = [pc EXCEPT ![Call(r)] = "answered"]
    BY <1>2, <2>1, <2>2, <2>3, TaskNames DEF ReadLine
  <2>5. ASSUME Head(lines[h]).kind = "started" PROVE g = h
    <3>1. Head(lines[h]) = Line("started", Call(r))
      BY <2>3, <2>5 DEF Lines, Line
    <3> QED BY <1>2, <2>1, <2>3, <3>1 DEF FreshInv, Fresh
  <2> QED BY <2>1, <2>4, <2>5, Functions1, TaskNames
<1>3. ASSUME NEW r \in running', r \notin running PROVE r \notin told'
  <2>1. \E g \in 1..gens, t \in Tasks : Accept(g, t)
    BY <1>3, QuietStep DEF Quiet, Busy, Send, ReadLine, worldVars, Completes
  <2>2. PICK g \in 1..gens, t \in Tasks : Accept(g, t)
    BY <2>1
  <2>3. g \in Gens /\ t \in inbox[g] /\ t[1] = "call" /\ r = t[2] /\ told' = told
    BY <1>3, <2>2, GensGiven DEF Accept, history
  <2>4. r \in Calls /\ t = Call(r)
    BY <2>3, TaskNames DEF Call
  <2> QED BY <2>3, <2>4 DEF FreshInv, Fresh
<1>4. ASSUME NEW r \in running', r \in running PROVE gen'[Call(r)] = gen[Call(r)]
  BY <1>4, RunningTurn, SentStep DEF Sent
<1> QED BY <1>1, <1>2, <1>3, <1>4 DEF TurnInv

\* An eviction takes no process with a turn of which the client was told.
LEMMA CutStep ==
  ASSUME Inv1, FreshInv, TurnInv, EvictionSparesTurns, [Next]_vars
  PROVE  EvictionSparesTurns'
<1>1. ASSUME NEW i \in Instances, EvictChecks(i) PROVE cut' = cut
  <2>1. /\ process[i] # 0 /\ ~Reader(i) /\ active[i] = {}
        /\ cut' = cut \cup {r \in running \cap told : gen[Call(r)] = process[i]}
    BY <1>1 DEF EvictChecks, Live
  <2>2. ASSUME NEW r \in running, r \in told, gen[Call(r)] = process[i] PROVE FALSE
    <3>1. r \in Calls /\ of[process[i]] = client[r]
      BY <2>2, RunningTurn
    <3>2. of[process[i]] = i
      BY <2>1 DEF Inv1, ProcessInv
    <3>3. pc[Call(r)] = "answered"
      BY <2>1, <2>2, <3>2 DEF TurnInv
    <3> QED BY <2>1, <3>1, <3>2, <3>3 DEF Reader
  <2> QED BY <2>1, <2>2
<1>2. CASE cut' = cut
  BY <1>2 DEF EvictionSparesTurns

<1>3. ASSUME NEW r \in Calls,
       Replaced(r) \/ Enter(r) \/ Started(r) \/ StartCheck(r) \/ Spawn(r) \/ SpawnFails(r) \/
       Initialized(r) \/ Answered(r) \/ Recover(r) \/ Completes(r)
      PROVE cut' = cut
  BY <1>3 DEF Replaced, history, Enter, Started, StartCheck, Spawn, Offers, SpawnFails,
              Initialized, Answered, Recover, Completes

<1>4. ASSUME NEW r \in Calls, NEW i \in Instances,
       Get(r, i)
      PROVE cut' = cut
  BY <1>4 DEF Get, history

<1>5. ASSUME NEW t \in Tasks,
       ReadGeneration(t) \/ Send(t) \/ WriteFails(t) \/ NoticeWrite(t) \/ Timeout(t) \/
       Take(t) \/ FailPending(t) \/ Terminate(t) \/ Join(t) \/ StopDaemon(t)
      PROVE cut' = cut
  BY <1>5 DEF ReadGeneration, history, Send, WriteFails, NoticeWrite, Timeout, Take,
              FailPending, Terminate, Join, StopDaemon

<1>6. ASSUME NEW i \in Instances,
       Kill(i) \/ RetireLocks(i)
      PROVE cut' = cut
  BY <1>6 DEF Kill, RetireLocks

<1>7. ASSUME NEW g \in 1..gens,
       Notice(g) \/ ShutsDown(g) \/ FailFirst(g) \/ Finalize(g) \/ Drained(g) \/ ReadLine(g)
       \/ Exits(g) \/ Drops(g)
      PROVE cut' = cut
  BY <1>7 DEF Notice, ShutsDown, FailFirst, history, Finalize, Drained, ReadLine, Exits,
              Drops

<1>8. ASSUME NEW g \in 1..gens, NEW t \in Tasks,
       Accept(g, t)
      PROVE cut' = cut
  BY <1>8 DEF Accept, history

<1> QED BY <1>1, <1>2, <1>3, <1>4, <1>5, <1>6, <1>7, <1>8 DEF Next, vars

-----------------------------------------------------------------------------
(* The theorems.                                                            *)

\* The invariant.
Inv ==
  /\ Inv1
  /\ UpInv /\ WriteInv /\ LockInv
  /\ RetireInv
  /\ SlotInv /\ ReadyInv /\ NoMutualWait /\ WaitInv
  /\ FreshInv /\ TurnInv /\ EvictionSparesTurns

\* The parts of the invariant hold at the start.
LEMMA InitInv == Init => Inv
<1> SUFFICES ASSUME Init PROVE Inv
  OBVIOUS
<1>1. Inv1
  BY InitInv1
<1>2. UpInv /\ WriteInv /\ LockInv
  BY TaskNames DEF Init, UpInv, WriteInv, LockInv, Locked, Empties, Closers
<1>3. RetireInv /\ SlotInv
  BY DEF Init, RetireInv, SlotInv
<1>4. ReadyInv /\ NoMutualWait /\ WaitInv
  <2>1. \A t \in Tasks : pc[t] = "idle"
    BY DEF Init
  <2>2. ReadyInv
    BY <2>1, TaskNames DEF Init, ReadyInv
  <2>3. NoMutualWait
    BY DEF Init, NoMutualWait, Gens
  <2>4. WaitInv
    BY <2>1 DEF WaitInv, Past
  <2> QED BY <2>2, <2>3, <2>4
<1>5. FreshInv
  <2> SUFFICES ASSUME NEW r \in Calls PROVE Fresh(r)
    BY DEF FreshInv
  <2>1. \A g \in Gens : lines[g] = <<>> /\ inbox[g] = {}
    BY DEF Init
  <2>2. \A g \in Gens : ToSet(lines[g]) = {}
    BY <2>1 DEF ToSet
  <2> QED BY <2>1, <2>2 DEF Init, Fresh, Lined
<1>6. TurnInv /\ EvictionSparesTurns
  BY DEF Init, TurnInv, EvictionSparesTurns
<1> QED BY <1>1, <1>2, <1>3, <1>4, <1>5, <1>6 DEF Inv

\* Every step keeps them.
LEMMA InvStep == Inv /\ [Next]_vars => Inv'
<1> SUFFICES ASSUME Inv, [Next]_vars PROVE Inv'
  OBVIOUS
<1>1. Inv1' /\ UpInv' /\ WriteInv' /\ LockInv'
  BY Inv1Step, UpInvStep, WriteInvStep, LockInvStep DEF Inv
<1>2. RetireInv' /\ SlotInv' /\ ReadyInv'
  BY RetireInvStep, SlotInvStep, ReadyInvStep DEF Inv
<1>3. NoMutualWait' /\ WaitInv'
  BY MutualStep, WaitInvStep DEF Inv
<1>4. FreshInv' /\ TurnInv' /\ EvictionSparesTurns'
  BY FreshInvStep, TurnInvStep, CutStep DEF Inv
<1> QED BY <1>1, <1>2, <1>3, <1>4 DEF Inv

(* The invariant holds in every reachable state.                             *)
THEOREM Invariance == Spec => []Inv
  BY InitInv, InvStep, PTL DEF Spec

(* Every connected process holds a permit (process_slots), and every permit   *)
(* belongs to the process a client has, or to one that a task is about to    *)
(* close: none leaks, but for a client replaced under a start (orphans).     *)
THEOREM PermitsHaveOwners == Spec => []SlotsHaveOwners
<1>1. Inv => SlotsHaveOwners
  BY DEF Inv, SlotInv, Owned, SlotsHaveOwners, Closers
<1> QED BY <1>1, Invariance, PTL

(* A request whose process is gone before it answered is failed: by the       *)
(* supervisor, which has yet to clean up, or by the task that took the       *)
(* process; it does not wait for its time-out, unless it came late.          *)
THEOREM RequestsAreFailed == Spec => []WaitIsEnded
<1>1. Inv => WaitIsEnded
  BY DEF Inv, WaitInv, WaitIsEnded, Supervised
<1> QED BY <1>1, Invariance, PTL

(* A call that waits was sent to a process whose "initialize" was answered,   *)
(* or to a newer one than its start had found (ensure_started, request).     *)
THEOREM HandshakeFirst == Spec => []InitializedFirst
<1>1. ASSUME Inv PROVE InitializedFirst
  <2> SUFFICES ASSUME NEW r \in Calls, pc[Call(r)] = "waits"
               PROVE  gen[Call(r)] \in ready \/ gen[Start(r)] # gen[Call(r)]
    BY DEF InitializedFirst
  <2>1. pc[Start(r)] = "ok"
    BY <1>1, TaskNames DEF Inv, Inv1, PlaceInv, Early
  <2> QED BY <1>1, <2>1 DEF Inv, ReadyInv
<1> QED BY <1>1, Invariance, PTL

(* A supervisor that waits for the start lock has failed the "initialize" of  *)
(* its process: the start that holds the lock does not wait for an answer.   *)
THEOREM StartAndSupervisor == Spec => []NoMutualWait
<1>1. Inv => NoMutualWait
  BY DEF Inv
<1> QED BY <1>1, Invariance, PTL

(* An idle client's eviction takes no process with a turn that the client was *)
(* told of: evict_idle_client's test of active_turn_ids sees every such turn.*)
THEOREM EvictionIsSafe == Spec => []EvictionSparesTurns
<1>1. Inv => EvictionSparesTurns
  BY DEF Inv
<1> QED BY <1>1, Invariance, PTL

(* A turn that runs on its client's connected process, and of which the       *)
(* client was told, is in active_turn_ids (the first half of ActiveIsExact). *)
THEOREM RunningTurnsAreActive == Spec => []RunningIsActive
<1>1. Inv => RunningIsActive
  BY DEF Inv, TurnInv, RunningIsActive
<1> QED BY <1>1, Invariance, PTL

-----------------------------------------------------------------------------
(* The record of turns is real.                                             *)

\* A process somebody closes is no client's, and a client has the newest of its processes.
CloseInv  == \A t \in Tasks : pc[t] \in Closers => process[of[gen[t]]] # gen[t]
NewestInv == \A i \in Instances : \A g \in Gens : process[i] # 0 /\ of[g] = i => g <= process[i]
\* The daemon behind the process of a client is gone with it.
DaemonInv == \A g \in dead : mode[g] = "handoff" /\ process[of[g]] = g => of[g] \notin daemons
\* A client's turns are those of its calls.
OwnInv    == \A i \in Instances : \A r \in active[i] : client[r] = i /\ pc[Call(r)] \notin Unsent
\* A connection that broke has no lines.
LostInv   == \A g \in Gens : mode[g] = "handoff" /\ sup[g] # "on" => lines[g] = <<>>
\* A turn is said to end on its process or a later one, and not before it is said to start.
Said(r, g)    == Line("started", Call(r)) \in ToSet(lines[g])
Ordered(s, r) == \A j, k \in 1..Len(s) :
  s[j] = Line("completed", Call(r)) /\ s[k] = Line("started", Call(r)) => k < j
LaterInv  == \A r \in Calls, g \in Gens : r \in Completed(g) => gen[Call(r)] <= g
OrderInv  == \A r \in Calls, g \in Gens : Ordered(lines[g], r)
\* A turn that is in the record, or in a line that will bring it there, runs, or its end is
\* still to be read, or the record is about to be emptied, or it is a ghost.
Counted(i, r) == r \in active[i] \/ (process[i] # 0 /\ Said(r, process[i]))
Due(i)     == process[i] \in dead /\ sup[process[i]] \in {"on", "exit", "exitLocks"}
Real(i, r) == r \in running \/ r \in ghosts \/ (\E g \in Gens : r \in Completed(g)) \/ Due(i)
RealInv   == \A i \in Instances, r \in Calls : Counted(i, r) => Real(i, r)

\* Who comes to close a process has taken it from its client.
LEMMA CloserStep ==
  ASSUME Inv1, [Next]_vars
  PROVE  \A x \in Tasks : pc'[x] \in Closers =>
    (pc[x] \in Closers /\ gen'[x] = gen[x]) \/ process'[of[gen'[x]]] = 0
<1> DEFINE Kept == \A x \in Tasks : pc'[x] \in Closers =>
    (pc[x] \in Closers /\ gen'[x] = gen[x]) \/ process'[of[gen'[x]]] = 0
<1>1. ASSUME NEW r \in Calls, Replaced(r) PROVE Kept
  BY <1>1, Functions1, TaskNames, Outcomes DEF Replaced, Closers
<1>2. ASSUME NEW r \in Calls, Enter(r) PROVE Kept
  BY <1>2, Functions1, TaskNames, Outcomes DEF Enter, Closers
<1>3. ASSUME NEW r \in Calls, Started(r) PROVE Kept
  BY <1>3, Functions1, TaskNames, Outcomes DEF Started, Closers
<1>4. ASSUME NEW r \in Calls, StartCheck(r) PROVE Kept
  <2>1. client[r] \in Instances /\ Start(r) \in Tasks
        /\ (process[client[r]] # 0 => of[process[client[r]]] = client[r])
    BY <1>4, Owners, Processes, TaskNames DEF StartCheck, Inv1, ProcessInv, Move
  <2>2. \A x \in Tasks : x # Start(r) => pc'[x] = pc[x] /\ gen'[x] = gen[x]
    BY <1>4, Functions1 DEF StartCheck
  <2>3. \/ pc'[Start(r)] \notin Closers
        \/ process[client[r]] # 0 /\ gen'[Start(r)] = process[client[r]]
           /\ process'[client[r]] = 0
    BY <1>4, <2>1, Functions1, AfterPlaces DEF StartCheck, Closers
  <2> QED BY <2>1, <2>2, <2>3
<1>5. ASSUME NEW r \in Calls, Spawn(r) PROVE Kept
  BY <1>5, Functions1, TaskNames, Outcomes DEF Spawn, Offers, Closers
<1>6. ASSUME NEW r \in Calls, SpawnFails(r) PROVE Kept
  BY <1>6, Functions1, TaskNames, Outcomes DEF SpawnFails, Move, Closers
<1>7. ASSUME NEW r \in Calls, Initialized(r) PROVE Kept
  BY <1>7, Functions1, TaskNames, Outcomes DEF Initialized, Closers
<1>8. ASSUME NEW r \in Calls, Answered(r) PROVE Kept
  BY <1>8, Functions1, TaskNames, Outcomes DEF Answered, Move, Closers
<1>9. ASSUME NEW r \in Calls, Recover(r) PROVE Kept
  <2>1. client[r] \in Instances /\ Call(r) \in Tasks
        /\ (process[client[r]] # 0 => of[process[client[r]]] = client[r])
    BY <1>9, Owners, Processes, TaskNames DEF Recover, Inv1, ProcessInv, Move
  <2>2. \A x \in Tasks : x # Call(r) => pc'[x] = pc[x] /\ gen'[x] = gen[x]
    BY <1>9, Functions1 DEF Recover, Taken
  <2>0. gen[Call(r)] # 0
    BY <1>9, Bound, TaskNames DEF Recover, Sending
  <2>3. \/ pc'[Call(r)] \notin Closers
        \/ process[client[r]] # 0 /\ gen'[Call(r)] = process[client[r]] /\ process'[client[r]] = 0
    BY <1>9, <2>0, <2>1, Functions1, AfterPlaces DEF Recover, Closers, Taken
  <2> QED BY <2>1, <2>2, <2>3
<1>10. ASSUME NEW r \in Calls, NEW i \in Instances, Get(r, i) PROVE Kept
  <2>1. \/ pc' = [pc EXCEPT ![Call(r)] = "got"]
        \/ \E old \in Instances :
             pc' = [pc EXCEPT ![Call(r)] = "replaces", ![<<"retire", old>>] = "locks"]
    BY <1>10, RegTypes DEF Get
  <2>2. UNCHANGED gen
    BY <1>10 DEF Get
  <2> QED BY <2>1, <2>2, Functions1 DEF Closers
<1>11. ASSUME NEW t \in Tasks, ReadGeneration(t) PROVE Kept
  <2>1. \A x \in Tasks : x # t => pc'[x] = pc[x] /\ gen'[x] = gen[x]
    BY <1>11, Functions1 DEF ReadGeneration
  <2>2. pc'[t] \notin Closers
    BY <1>11, Functions1, Outcomes DEF ReadGeneration, Closers
  <2> QED BY <2>1, <2>2
<1>12. ASSUME NEW t \in Tasks, Send(t) PROVE Kept
  <2>1. \A x \in Tasks : x # t => pc'[x] = pc[x] /\ gen'[x] = gen[x]
    BY <1>12, Functions1 DEF Send
  <2>2. pc'[t] \notin Closers
    BY <1>12, Functions1, Outcomes DEF Send, Closers
  <2> QED BY <2>1, <2>2
<1>13. ASSUME NEW t \in Tasks, WriteFails(t) PROVE Kept
  <2>1. \A x \in Tasks : x # t => pc'[x] = pc[x] /\ gen'[x] = gen[x]
    BY <1>13, Functions1 DEF WriteFails, Move
  <2>2. pc'[t] \notin Closers
    BY <1>13, Functions1, Outcomes DEF WriteFails, Closers, Move
  <2> QED BY <2>1, <2>2
<1>14. ASSUME NEW t \in Tasks, NoticeWrite(t) PROVE Kept
  <2>1. \A x \in Tasks : x # t => pc'[x] = pc[x] /\ gen'[x] = gen[x]
    BY <1>14, Functions1 DEF NoticeWrite, Move
  <2>2. pc'[t] \notin Closers
    BY <1>14, Functions1, Outcomes DEF NoticeWrite, Closers, Move
  <2> QED BY <2>1, <2>2
<1>15. ASSUME NEW t \in Tasks, Timeout(t) PROVE Kept
  <2>1. \A x \in Tasks : x # t => pc'[x] = pc[x] /\ gen'[x] = gen[x]
    BY <1>15, Functions1 DEF Timeout
  <2>2. pc'[t] \notin Closers
    BY <1>15, Functions1, Outcomes DEF Timeout, Closers
  <2> QED BY <2>1, <2>2
<1>16. ASSUME NEW t \in Tasks, Take(t) PROVE Kept
  <2>1. ClientOf(t) \in Instances /\ t \in Tasks
        /\ (process[ClientOf(t)] # 0 => of[process[ClientOf(t)]] = ClientOf(t))
    BY <1>16, Owners, Processes, TaskNames DEF Take, Inv1, ProcessInv, Move
  <2>2. \A x \in Tasks : x # t => pc'[x] = pc[x] /\ gen'[x] = gen[x]
    BY <1>16, Functions1 DEF Take, Taken
  <2>3. \/ pc'[t] \notin Closers
        \/ process[ClientOf(t)] # 0 /\ gen'[t] = process[ClientOf(t)] /\ process'[ClientOf(t)] = 0
    BY <1>16, <2>1, Functions1, AfterPlaces DEF Take, Closers, Taken
  <2> QED BY <2>1, <2>2, <2>3
<1>17. ASSUME NEW t \in Tasks, FailPending(t) PROVE Kept
  <2>1. UNCHANGED gen /\ \A x \in Tasks : pc'[x] \in Closers => pc[x] \in Closers
    BY <1>17, FailPendingEffect, FailEffect DEF Closers, FailPending, rest, callVars
  <2> QED BY <2>1
<1>18. ASSUME NEW t \in Tasks, Terminate(t) PROVE Kept
  BY <1>18, Functions1, TaskNames, Outcomes DEF Terminate, Move, Closers
<1>19. ASSUME NEW t \in Tasks, Join(t) PROVE Kept
  <2>1. UNCHANGED gen /\ \A x \in Tasks : x # t => pc'[x] = pc[x]
    BY <1>19, Functions1 DEF Join, rest, callVars
  <2>2. pc'[t] \notin Closers
    BY <1>19, Functions1, AfterPlaces DEF Join, Closers
  <2> QED BY <2>1, <2>2
<1>20. ASSUME NEW t \in Tasks, StopDaemon(t) PROVE Kept
  BY <1>20, Functions1, TaskNames, Outcomes DEF StopDaemon, Move, Closers
<1>21. ASSUME NEW i \in Instances, Kill(i) PROVE Kept
  <2>1. i \in Instances /\ <<"kill", i>> \in Tasks /\ (process[i] # 0 => of[process[i]] = i)
    BY <1>21, Owners, Processes, TaskNames DEF Kill, Inv1, ProcessInv, Move
  <2>2. \A x \in Tasks : x # <<"kill", i>> => pc'[x] = pc[x] /\ gen'[x] = gen[x]
    BY <1>21, Functions1 DEF Kill, Taken
  <2>3. \/ pc'[<<"kill", i>>] \notin Closers
        \/ process[i] # 0 /\ gen'[<<"kill", i>>] = process[i] /\ process'[i] = 0
    BY <1>21, <2>1, Functions1, AfterPlaces DEF Kill, Closers, Taken
  <2> QED BY <2>1, <2>2, <2>3
<1>22. ASSUME NEW i \in Instances, EvictChecks(i) PROVE Kept
  BY <1>22, Functions1, TaskNames, Outcomes DEF EvictChecks, Move, Closers
<1>23. ASSUME NEW i \in Instances, RetireLocks(i) PROVE Kept
  BY <1>23, Functions1, TaskNames, Outcomes DEF RetireLocks, Move, Closers
<1>24. ASSUME NEW g \in 1..gens, FailFirst(g) PROVE Kept
  <2>1. UNCHANGED gen /\ (UNCHANGED pc \/ pc' = Failing(g))
    BY <1>24 DEF FailFirst, rest, callVars
  <2> QED BY <2>1, FailingTypes, Outcomes DEF Closers, Inv1, Types
<1>25. ASSUME NEW g \in 1..gens, Finalize(g) PROVE Kept
  <2>1. UNCHANGED gen /\ (UNCHANGED pc \/ pc' = Failing(g))
    BY <1>25 DEF Finalize, rest, callVars
  <2> QED BY <2>1, FailingTypes, Outcomes DEF Closers, Inv1, Types
<1>26. ASSUME NEW g \in 1..gens, ReadLine(g) PROVE Kept
  <2>1. UNCHANGED gen
    BY <1>26 DEF ReadLine, rest, callVars
  <2> QED BY <1>26, <2>1, ReadEffect DEF Closers
<1>27. ASSUME UNCHANGED <<pc, gen>> PROVE Kept
  BY <1>27 DEF Closers
<1>28. ASSUME NEW r \in Calls,
       Completes(r)
      PROVE Kept
  BY <1>28, <1>27 DEF Completes
<1>29. ASSUME NEW g \in 1..gens,
       Notice(g) \/ ShutsDown(g) \/ Drained(g) \/ Exits(g) \/ Drops(g)
      PROVE Kept
  BY <1>29, <1>27 DEF Notice, ShutsDown, Drained, Exits, Drops
<1>30. ASSUME NEW g \in 1..gens, NEW t \in Tasks,
       Accept(g, t)
      PROVE Kept
  BY <1>30, <1>27 DEF Accept
<1> QED BY <1>1, <1>2, <1>3, <1>4, <1>5, <1>6, <1>7, <1>8, <1>9, <1>10, <1>11, <1>12, <1>13,
           <1>14, <1>15, <1>16, <1>17, <1>18, <1>19, <1>20, <1>21, <1>22, <1>23, <1>24,
           <1>25, <1>26, <1>27, <1>28, <1>29, <1>30 DEF Next, vars

\* Only a start makes a generation.
LEMMA GensStep ==
  ASSUME [Next]_vars
  PROVE  gens' = gens \/ \E s \in Calls : Spawn(s)
<1>1. ASSUME NEW r \in Calls, Spawn(r) PROVE gens' = gens \/ \E s \in Calls : Spawn(s)
  BY <1>1
<1>2. ASSUME UNCHANGED <<gens>> PROVE gens' = gens \/ \E s \in Calls : Spawn(s)
  BY <1>2 DEF vars
<1>3. ASSUME NEW r \in Calls,
       Replaced(r) \/ Enter(r) \/ Started(r) \/ StartCheck(r) \/ SpawnFails(r) \/
       Initialized(r) \/ Answered(r) \/ Recover(r) \/ Completes(r)
      PROVE gens' = gens \/ \E s \in Calls : Spawn(s)
  BY <1>3, <1>2 DEF Replaced, linkVars, Enter, rest, Started, StartCheck, SpawnFails,
                    Initialized, Answered, Recover, Completes, Handoff
<1>4. ASSUME NEW r \in Calls, NEW i \in Instances,
       Get(r, i)
      PROVE gens' = gens \/ \E s \in Calls : Spawn(s)
  BY <1>4, <1>2 DEF Get, linkVars
<1>5. ASSUME NEW t \in Tasks,
       ReadGeneration(t) \/ Send(t) \/ WriteFails(t) \/ NoticeWrite(t) \/ Timeout(t) \/
       Take(t) \/ FailPending(t) \/ Terminate(t) \/ Join(t) \/ StopDaemon(t)
      PROVE gens' = gens \/ \E s \in Calls : Spawn(s)
  BY <1>5, <1>2 DEF ReadGeneration, Failed, rest, linkVars, Send, WriteFails, NoticeWrite,
                    LossOrExit, Completed, Timeout, Take, After, FailPending, Failing,
                    Without, Terminate, Behind, Handoff, Join, StopDaemon
<1>6. ASSUME NEW i \in Instances,
       Kill(i) \/ EvictChecks(i) \/ RetireLocks(i)
      PROVE gens' = gens \/ \E s \in Calls : Spawn(s)
  BY <1>6, <1>2 DEF Kill, linkVars, EvictChecks, RetireLocks
<1>7. ASSUME NEW g \in 1..gens,
       Notice(g) \/ ShutsDown(g) \/ FailFirst(g) \/ Finalize(g) \/ Drained(g) \/ ReadLine(g)
       \/ Exits(g) \/ Drops(g)
      PROVE gens' = gens \/ \E s \in Calls : Spawn(s)
  BY <1>7, <1>2 DEF Notice, LossOrExit, rest, Completed, linkVars, ShutsDown, FailFirst,
                    Failing, Without, Failed, Finalize, Drained, ReadLine, Exits, Behind,
                    Handoff, Drops
<1>8. ASSUME NEW g \in 1..gens, NEW t \in Tasks,
       Accept(g, t)
      PROVE gens' = gens \/ \E s \in Calls : Spawn(s)
  BY <1>8, <1>2 DEF Accept, rest, linkVars
<1> QED BY <1>1, <1>2, <1>3, <1>4, <1>5, <1>6, <1>7, <1>8 DEF Next, vars

\* A task takes a generation that was given before.
LEMMA FreshTaker ==
  ASSUME Inv1, [Next]_vars, NEW t \in Tasks, pc'[t] \in Closers
  PROVE  gen'[t] <= gens
<1>1. gens' = gens \/ \E r \in Calls : Spawn(r)
  BY GensStep
<1>2. CASE gens' = gens
  BY <1>2, Inv1Step DEF Inv1, TaskInv, Linked
<1>3. ASSUME NEW r \in Calls, Spawn(r) PROVE gen'[t] = gen[t]
  BY <1>3 DEF Spawn, callVars
<1> QED BY <1>1, <1>2, <1>3, LinkFacts DEF Linked

\* CloseInv is kept.
LEMMA CloseInvStep ==
  ASSUME Inv1, CloseInv, [Next]_vars
  PROVE  CloseInv'
<1>1. ASSUME NEW t \in Tasks, pc'[t] \in Closers PROVE process'[of'[gen'[t]]] # gen'[t]
  <2>1. CASE pc[t] \in Closers /\ gen'[t] = gen[t]
    <3>1. /\ gen[t] \in Gens /\ gen[t] <= gens /\ gen[t] # 0 /\ of[gen[t]] \in Instances
      BY <2>1, Bound, LinkFacts DEF Linked
    <3>2. of'[gen[t]] = of[gen[t]] /\ process[of[gen[t]]] # gen[t]
      BY <2>1, <3>1, OfKept DEF CloseInv
    <3> QED BY <2>1, <3>1, <3>2, NewProcessStep, GensNat DEF NewProcess
  <2>2. CASE process'[of[gen'[t]]] = 0 /\ ~ (pc[t] \in Closers /\ gen'[t] = gen[t])
    <3>1. Inv1'
      BY Inv1Step
    <3>2. gen'[t] # 0 /\ gen'[t] \in Gens /\ gen'[t] <= gens'
      BY <1>1, <3>1 DEF Inv1, TaskInv, Linked, Types, TaskTypes
    <3>3. gen'[t] <= gens
      BY <1>1, FreshTaker
    <3> QED BY <2>2, <3>2, <3>3, OfKept
  <2> QED BY <1>1, <2>1, <2>2, CloserStep
<1> QED BY <1>1 DEF CloseInv

\* NewestInv is kept: a start gives its client the newest generation there is.
LEMMA NewestInvStep ==
  ASSUME Inv1, NewestInv, [Next]_vars
  PROVE  NewestInv'
<1>1. ASSUME NEW r \in Calls, StartCheck(r) PROVE NewestInv'
  BY <1>1, Functions1 DEF StartCheck, rest, linkVars, NewestInv
<1>2. ASSUME NEW r \in Calls, Spawn(r) PROVE NewestInv'
  <2>1. gens' = gens + 1 /\ gens \in Nat /\ MaxGens \in Nat /\ gens + 1 \in Gens
        /\ of' = [of EXCEPT ![gens + 1] = client[r]]
        /\ process' = [process EXCEPT ![client[r]] = gens + 1]
    BY <1>2, GensNat DEF Spawn, Opens
  <2>2. client[r] \in Instances
    BY <1>2, Processes DEF Spawn
  <2>3. \A g \in Gens : of[g] \in Instances => g <= gens
    BY <2>1, KeyAssumption DEF Inv1, FutureInv, Unused
  <2>4. ASSUME NEW i \in Instances, NEW g \in Gens, process'[i] # 0, of'[g] = i
        PROVE g <= process'[i]
    <3>1. CASE i = client[r]
      <4>1. process'[i] = gens + 1
        BY <2>1, <2>2, <3>1, Functions1
      <4>2. g = gens + 1 \/ g <= gens
        BY <2>1, <2>3, <2>4, Functions1
      <4> QED BY <2>1, <4>1, <4>2
    <3>2. CASE i # client[r]
      BY <2>1, <2>4, <3>2, Functions1 DEF NewestInv
    <3> QED BY <3>1, <3>2
  <2> QED BY <2>4 DEF NewestInv
<1>3. ASSUME NEW r \in Calls, Recover(r) PROVE NewestInv'
  BY <1>3, Functions1 DEF Recover, Taken, rest, linkVars, NewestInv
<1>4. ASSUME NEW t \in Tasks, Take(t) PROVE NewestInv'
  BY <1>4, Functions1 DEF Take, Taken, rest, linkVars, NewestInv
<1>5. ASSUME NEW i \in Instances, Kill(i) PROVE NewestInv'
  BY <1>5, Functions1 DEF Kill, Taken, linkVars, NewestInv
<1>6. ASSUME NEW g \in 1..gens, Finalize(g) PROVE NewestInv'
  BY <1>6, Functions1 DEF Finalize, rest, linkVars, NewestInv
<1>7. ASSUME UNCHANGED <<process, of>> PROVE NewestInv'
  BY <1>7 DEF NewestInv
<1>8. ASSUME NEW r \in Calls,
       Replaced(r) \/ Enter(r) \/ Started(r) \/ SpawnFails(r) \/ Initialized(r) \/
       Answered(r) \/ Completes(r)
      PROVE NewestInv'
  BY <1>8, <1>7 DEF Replaced, linkVars, Enter, rest, Started, SpawnFails, Initialized,
                    Answered, Completes
<1>9. ASSUME NEW r \in Calls, NEW i \in Instances,
       Get(r, i)
      PROVE NewestInv'
  BY <1>9, <1>7 DEF Get, linkVars
<1>10. ASSUME NEW t \in Tasks,
       ReadGeneration(t) \/ Send(t) \/ WriteFails(t) \/ NoticeWrite(t) \/ Timeout(t) \/
       FailPending(t) \/ Terminate(t) \/ Join(t) \/ StopDaemon(t)
      PROVE NewestInv'
  BY <1>10, <1>7 DEF ReadGeneration, rest, linkVars, Send, WriteFails, NoticeWrite, Timeout,
                     FailPending, Terminate, Join, StopDaemon
<1>11. ASSUME NEW i \in Instances,
       EvictChecks(i) \/ RetireLocks(i)
      PROVE NewestInv'
  BY <1>11, <1>7 DEF EvictChecks, linkVars, RetireLocks
<1>12. ASSUME NEW g \in 1..gens,
       Notice(g) \/ ShutsDown(g) \/ FailFirst(g) \/ Drained(g) \/ ReadLine(g) \/ Exits(g) \/
       Drops(g)
      PROVE NewestInv'
  BY <1>12, <1>7 DEF Notice, rest, linkVars, ShutsDown, FailFirst, Drained, ReadLine, Exits,
                     Drops
<1>13. ASSUME NEW g \in 1..gens, NEW t \in Tasks,
       Accept(g, t)
      PROVE NewestInv'
  BY <1>13, <1>7 DEF Accept, rest, linkVars
<1> QED BY <1>1, <1>2, <1>3, <1>4, <1>5, <1>6, <1>7, <1>8, <1>9, <1>10, <1>11, <1>12,
           <1>13 DEF Next, vars

\* A connection that breaks has its lines no more.
LEMMA LostBreaks ==
  ASSUME Inv1, LostInv, UNCHANGED mode, NEW g \in Gens, NEW to, Breaks(g, to)
  PROVE  LostInv'
<1>1. lines' = [lines EXCEPT ![g] = <<>>] \/ (mode[g] # "handoff" /\ lines' = lines)
  BY DEF Breaks
<1>2. \A h \in Gens : h # g => sup'[h] = sup[h]
  BY BreaksSup
<1> QED BY <1>1, <1>2, FlowFunctions DEF LostInv

\* LostInv is kept: a process that is not connected says nothing.
LEMMA LostInvStep ==
  ASSUME Inv1, UpInv, LostInv, [Next]_vars
  PROVE  LostInv'
<1>1. ASSUME NEW r \in Calls, Spawn(r) PROVE LostInv'
  <2>1. gens + 1 \in Gens /\ sup' = [sup EXCEPT ![gens + 1] = "on"] /\ UNCHANGED lines
        /\ \E m \in Modes \cup {"handoff"} : mode' = [mode EXCEPT ![gens + 1] = m]
    BY <1>1, GensNat DEF Spawn, Opens, Offers
  <2>2. mode \in [Gens -> Modes \cup {None}]
    BY DEF Inv1, Types, LinkTypes
  <2> QED BY <2>1, <2>2, Functions1 DEF LostInv, SupTypes
<1>2. ASSUME NEW r \in Calls, Completes(r) PROVE LostInv'
  <2>1. UNCHANGED <<mode, sup>> /\ \A h \in Gens : lines'[h] = lines[h] \/ h \in up
    BY <1>2, CompleteLines DEF Completes, rest, linkVars
  <2> QED BY <2>1 DEF LostInv, UpInv
<1>3. ASSUME NEW t \in Tasks, NoticeWrite(t) PROVE LostInv'
  <2>1. gen[t] \in Gens
    BY <1>3, GensGiven, Bound DEF NoticeWrite, Sending, Closers, Move
  <2>2. UNCHANGED mode /\ \E to : Breaks(gen[t], to)
    BY <1>3 DEF NoticeWrite, rest, linkVars
  <2> QED BY <2>1, <2>2, LostBreaks
<1>4. ASSUME NEW t \in Tasks, Join(t) PROVE LostInv'
  <2>1. gen[t] \in Gens
    BY <1>4, GensGiven, Bound DEF Join, Sending, Closers, Move
  <2>2. UNCHANGED mode /\ \E to : Breaks(gen[t], to)
    BY <1>4 DEF Join, rest, linkVars
  <2> QED BY <2>1, <2>2, LostBreaks
<1>5. ASSUME NEW g \in 1..gens, Notice(g) PROVE LostInv'
  <2>1. g \in Gens
    BY <1>5, GensGiven, Bound DEF Notice, Sending, Closers, Move
  <2>2. UNCHANGED mode /\ \E to : Breaks(g, to)
    BY <1>5 DEF Notice, rest, linkVars
  <2> QED BY <2>1, <2>2, LostBreaks
<1>6. ASSUME NEW g \in 1..gens, ShutsDown(g) PROVE LostInv'
  <2>1. g \in Gens
    BY <1>6, GensGiven, Bound DEF ShutsDown, Sending, Closers, Move
  <2>2. UNCHANGED mode /\ \E to : Breaks(g, to)
    BY <1>6 DEF ShutsDown, rest, linkVars
  <2> QED BY <2>1, <2>2, LostBreaks
<1>7. ASSUME NEW g \in 1..gens, FailFirst(g) PROVE LostInv'
  <2>1. UNCHANGED <<mode, lines>> /\ g \in Gens /\ sup[g] # "on"
        /\ \E x : sup' = [sup EXCEPT ![g] = x]
    BY <1>7, GensGiven DEF FailFirst, rest, linkVars
  <2> QED BY <2>1, Functions1 DEF LostInv, SupTypes
<1>8. ASSUME NEW g \in 1..gens, Finalize(g) PROVE LostInv'
  <2>1. UNCHANGED <<mode, lines>> /\ g \in Gens /\ sup[g] # "on"
        /\ \E x : sup' = [sup EXCEPT ![g] = x]
    BY <1>8, GensGiven DEF Finalize, rest, linkVars
  <2> QED BY <2>1, Functions1 DEF LostInv, SupTypes
<1>9. ASSUME NEW g \in 1..gens, Drained(g) PROVE LostInv'
  <2>1. UNCHANGED mode /\ g \in Gens /\ lines' = [lines EXCEPT ![g] = <<>>]
        /\ sup' = [sup EXCEPT ![g] = "done"]
    BY <1>9, GensGiven DEF Drained, rest, linkVars
  <2> QED BY <2>1, FlowFunctions, Functions1 DEF LostInv, SupTypes
<1>10. ASSUME NEW g \in 1..gens, ReadLine(g) PROVE LostInv'
  <2>1. UNCHANGED <<mode, sup>> /\ (mode[g] = "handoff" => sup[g] = "on")
    BY <1>10 DEF ReadLine, rest, linkVars
  <2> QED BY <1>10, <2>1, ReadLines DEF LostInv
<1>11. ASSUME NEW g \in 1..gens, NEW t \in Tasks, Accept(g, t) PROVE LostInv'
  <2>1. UNCHANGED <<mode, sup>> /\ \A h \in Gens : lines'[h] = lines[h] \/ h \in up
    BY <1>11, AcceptLines DEF Accept, rest, linkVars
  <2> QED BY <2>1 DEF LostInv, UpInv
<1>12. ASSUME UNCHANGED <<mode, sup, lines>> PROVE LostInv'
  BY <1>12 DEF LostInv
<1>13. ASSUME NEW r \in Calls,
       Replaced(r) \/ Enter(r) \/ Started(r) \/ StartCheck(r) \/ SpawnFails(r) \/
       Initialized(r) \/ Answered(r) \/ Recover(r)
      PROVE LostInv'
  BY <1>13, <1>12 DEF Replaced, linkVars, Enter, rest, Started, StartCheck, SpawnFails,
                      Initialized, Answered, Recover
<1>14. ASSUME NEW r \in Calls, NEW i \in Instances,
       Get(r, i)
      PROVE LostInv'
  BY <1>14, <1>12 DEF Get, linkVars
<1>15. ASSUME NEW t \in Tasks,
       ReadGeneration(t) \/ Send(t) \/ WriteFails(t) \/ Timeout(t) \/ Take(t) \/
       FailPending(t) \/ Terminate(t) \/ StopDaemon(t)
      PROVE LostInv'
  BY <1>15, <1>12 DEF ReadGeneration, rest, linkVars, Send, WriteFails, Timeout, Take,
                      FailPending, Terminate, StopDaemon
<1>16. ASSUME NEW i \in Instances,
       Kill(i) \/ EvictChecks(i) \/ RetireLocks(i)
      PROVE LostInv'
  BY <1>16, <1>12 DEF Kill, linkVars, EvictChecks, RetireLocks
<1>17. ASSUME NEW g \in 1..gens,
       Exits(g) \/ Drops(g)
      PROVE LostInv'
  BY <1>17, <1>12 DEF Exits, linkVars, Drops
<1> QED BY <1>1, <1>2, <1>3, <1>4, <1>5, <1>6, <1>7, <1>8, <1>9, <1>10, <1>11, <1>12, <1>13,
           <1>14, <1>15, <1>16, <1>17 DEF Next, vars

\* What a client hears of a turn: only while lines are read, and of a call that was sent.
LEMMA HeardEnd ==
  ASSUME Inv1, FreshInv, NEW r \in Calls, NEW g \in Gens, r \in Completed(g) \/ Said(r, g)
  PROVE  /\ pc[Call(r)] \notin Unsent /\ g <= gens /\ g # 0
         /\ of[g] = client[r] /\ client[r] \in Instances
         /\ Said(r, g) => gen[Call(r)] = g
<1>1. PICK k \in {"completed", "started"} : Line(k, Call(r)) \in ToSet(lines[g])
  BY DEF Completed, Said
<1>2. Lined(r, g) /\ g <= gens /\ g # 0
  BY <1>1, HeardOf
<1>3. Fresh(r)
  BY DEF FreshInv
<1>4. pc[Call(r)] \notin Unsent
  BY <1>2, <1>3 DEF Fresh
<1>5. client[r] \in Instances
  BY <1>4, TaskNames DEF Unsent, Inv1, PlaceInv
<1>6. r \in Completed(g) => of[g] = client[r]
  BY <1>3 DEF Fresh, Completed
<1>7. Said(r, g) => gen[Call(r)] = g
  BY <1>3 DEF Fresh, Said
<1>8. gen[Call(r)] = g => of[g] = client[r]
  BY <1>2, LinkFacts, TaskNames DEF Linked, ClientOf
<1> QED BY <1>2, <1>4, <1>5, <1>6, <1>7, <1>8

\* Nothing comes into a record, nor ends in the lines, but by what app-server says.
LEMMA SaidStep ==
  ASSUME Inv1, [Next]_vars, NEW r \in Calls, NEW g \in Gens
  PROVE  /\ Said(r, g)' => Said(r, g) \/ r \in running'
         /\ r \in Completed(g)' => r \in Completed(g) \/ Completes(r)
<1> DEFINE Kept == /\ Said(r, g)' => Said(r, g) \/ r \in running'
                   /\ r \in Completed(g)' => r \in Completed(g) \/ Completes(r)
<1>0. Call(r) \in Tasks /\ Call(r)[1] = "call" /\ Call(r)[2] = r
  BY TaskNames
<1>1. ASSUME ToSet(lines'[g]) \subseteq ToSet(lines[g]) PROVE Kept
  BY <1>1 DEF Said, Completed
<1>2. CASE Quiet
  BY <1>1, <1>2, NoLines DEF Quiet
<1>3. ASSUME NEW t \in Tasks, Send(t) PROVE Kept
  BY <1>1, <1>3 DEF Send
<1>4. ASSUME NEW h \in 1..gens, ReadLine(h) PROVE Kept
  BY <1>1, <1>4, ReadLines
<1>5. ASSUME NEW h \in 1..gens, NEW t \in Tasks, Accept(h, t) PROVE Kept
  <2>1. \/ lines'[g] = lines[g]
        \/ /\ t[1] = "call" /\ running' = running \cup {t[2]}
           /\ ToSet(lines'[g]) = ToSet(lines[g]) \cup {Line("answer", t), Line("started", t)}
        \/ ToSet(lines'[g]) = ToSet(lines[g]) \cup {Line("answer", t)}
    BY <1>5, AcceptLines
  <2>2. Line("completed", Call(r)) \notin {Line("answer", t), Line("started", t)}
        /\ Line("started", Call(r)) # Line("answer", t)
    BY DEF Line
  <2>3. Line("started", Call(r)) = Line("started", t) => t = Call(r)
    BY DEF Line
  <2>4. r \in Completed(g)' => r \in Completed(g)
    BY <2>1, <2>2 DEF Completed
  <2>5. Said(r, g)' => Said(r, g) \/ r \in running'
    BY <1>0, <2>1, <2>2, <2>3 DEF Said
  <2> QED BY <2>4, <2>5
<1>6. ASSUME NEW s \in Calls, Completes(s) PROVE Kept
  <2>1. lines'[g] = lines[g]
        \/ ToSet(lines'[g]) = ToSet(lines[g]) \cup {Line("completed", Call(s))}
    BY <1>6, CompleteLines
  <2>2. Line("started", Call(r)) # Line("completed", Call(s))
    BY DEF Line
  <2>3. Line("completed", Call(r)) = Line("completed", Call(s)) => r = s
    BY CallsApart DEF Line
  <2>4. Said(r, g)' => Said(r, g)
    BY <2>1, <2>2 DEF Said
  <2>5. r \in Completed(g)' => r \in Completed(g) \/ r = s
    BY <2>1, <2>3 DEF Completed
  <2> QED BY <1>6, <2>4, <2>5
<1> QED BY <1>2, <1>3, <1>4, <1>5, <1>6, QuietStep DEF Busy

\* LaterInv is kept: the end of a turn is heard on its connection or on a later one.
LEMMA LaterInvStep ==
  ASSUME Inv1, FreshInv, LaterInv, [Next]_vars
  PROVE  LaterInv'
<1>1. ASSUME NEW r \in Calls, NEW g \in Gens, r \in Completed(g), r \in Completed(g)'
      PROVE  gen'[Call(r)] <= g
  BY <1>1, HeardEnd, SentStep DEF Sent, LaterInv
<1>2. ASSUME NEW r \in Calls, NEW g \in Gens, r \notin Completed(g), r \in Completed(g)'
      PROVE  gen'[Call(r)] <= g
  <2>1. Completes(r)
    BY <1>2, SaidStep
  <2>2. lines'[g] = lines[g] \/ g = gen[Call(r)] \/ g > gen[Call(r)]
    BY <2>1, CompleteLines
  <2>3. lines'[g] # lines[g]
    BY <1>2 DEF Completed
  <2>4. UNCHANGED gen /\ gen[Call(r)] \in Nat
    BY <2>1, LinkFacts, TaskNames DEF Completes
  <2> QED BY <2>2, <2>3, <2>4
<1> QED BY <1>1, <1>2 DEF LaterInv

\* Lines stay in order when the first is read.
LEMMA OrderRead ==
  ASSUME NEW s \in Seq(Lines), s # <<>>, NEW r, Ordered(s, r)
  PROVE  Ordered(Tail(s), r)
<1>1. Len(Tail(s)) = Len(s) - 1 /\ Len(s) \in Nat
      /\ \A j \in 1..Len(Tail(s)) : Tail(s)[j] = s[j + 1]
  OBVIOUS
<1> SUFFICES ASSUME NEW j \in 1..Len(Tail(s)), NEW k \in 1..Len(Tail(s)),
                    Tail(s)[j] = Line("completed", Call(r)), Tail(s)[k] = Line("started", Call(r))
             PROVE  k < j
  BY DEF Ordered
<1>2. j + 1 \in 1..Len(s) /\ k + 1 \in 1..Len(s)
  BY <1>1
<1>3. s[j + 1] = Line("completed", Call(r)) /\ s[k + 1] = Line("started", Call(r))
  BY <1>1
<1>4. k + 1 < j + 1
  BY <1>2, <1>3 DEF Ordered
<1> QED BY <1>4

\* Two stretches of lines in order are so together, unless the end of a turn comes first.
LEMMA OrderSaid ==
  ASSUME NEW s \in Seq(Lines), NEW u \in Seq(Lines), NEW r, Ordered(s, r), Ordered(u, r),
         Line("started", Call(r)) \in ToSet(u) => Line("completed", Call(r)) \notin ToSet(s)
  PROVE  Ordered(s \o u, r)
<1>1. Len(s \o u) = Len(s) + Len(u) /\ Len(s) \in Nat /\ Len(u) \in Nat
  OBVIOUS
<1>2. /\ \A j \in 1..Len(s \o u) : j <= Len(s) => j \in 1..Len(s) /\ (s \o u)[j] = s[j]
      /\ \A j \in 1..Len(s \o u) : ~ (j <= Len(s)) => j - Len(s) \in 1..Len(u)
         /\ (s \o u)[j] = u[j - Len(s)]
  BY <1>1
<1> SUFFICES ASSUME NEW j \in 1..Len(s \o u), NEW k \in 1..Len(s \o u),
                    (s \o u)[j] = Line("completed", Call(r)),
                    (s \o u)[k] = Line("started", Call(r))
             PROVE  k < j
  BY DEF Ordered
<1>3. CASE j <= Len(s) /\ k <= Len(s)
  BY <1>2, <1>3 DEF Ordered
<1>4. CASE ~ (j <= Len(s)) /\ k <= Len(s)
  BY <1>1, <1>4
<1>5. CASE ~ (j <= Len(s)) /\ ~ (k <= Len(s))
  <2>1. k - Len(s) < j - Len(s)
    BY <1>2, <1>5 DEF Ordered
  <2> QED BY <1>1, <2>1
<1>6. CASE j <= Len(s) /\ ~ (k <= Len(s))
  <2>1. Line("completed", Call(r)) \in ToSet(s)
    BY <1>2, <1>6 DEF ToSet
  <2>2. Line("started", Call(r)) \in ToSet(u)
    BY <1>2, <1>6 DEF ToSet
  <2> QED BY <2>1, <2>2
<1> QED BY <1>3, <1>4, <1>5, <1>6

\* What does not tell of an end is in order, and so is what does not tell of a start.
LEMMA OneSided ==
  ASSUME NEW s, NEW r,
         Line("completed", Call(r)) \notin ToSet(s) \/ Line("started", Call(r)) \notin ToSet(s)
  PROVE  Ordered(s, r)
  BY DEF Ordered, ToSet

\* OrderInv is kept: a turn starts before it ends.
LEMMA OrderInvStep ==
  ASSUME Inv1, FreshInv, OrderInv, [Next]_vars
  PROVE  OrderInv'
<1> SUFFICES ASSUME NEW r \in Calls, NEW g \in Gens PROVE Ordered(lines'[g], r)
  BY DEF OrderInv, Ordered
<1>0. Ordered(lines[g], r) /\ lines[g] \in Seq(Lines)
  BY FlowFunctions DEF OrderInv
<1>1. CASE lines'[g] = lines[g] \/ lines'[g] = <<>>
  BY <1>0, <1>1, OneSided, NoLines
<1>2. CASE Quiet
  BY <1>1, <1>2 DEF Quiet
<1>3. ASSUME NEW t \in Tasks, Send(t) PROVE Ordered(lines'[g], r)
  BY <1>1, <1>3 DEF Send
<1>4. ASSUME NEW h \in 1..gens, ReadLine(h) PROVE Ordered(lines'[g], r)
  <2>1. lines'[g] = lines[g] \/ (lines[g] # <<>> /\ lines'[g] = Tail(lines[g]))
    BY <1>4, ReadLines
  <2> QED BY <1>0, <2>1, OrderRead
<1>5. ASSUME NEW h \in 1..gens, NEW t \in Tasks, Accept(h, t) PROVE Ordered(lines'[g], r)
  <2>1. PICK u \in {<<Line("answer", t), Line("started", t)>>, <<Line("answer", t)>>} :
          lines'[g] = lines[g] \/ lines'[g] = lines[g] \o u
    BY <1>5, AcceptLines
  <2>2. Line("answer", t) \in Lines /\ Line("started", t) \in Lines
    BY LineTypes
  <2>8. LET a == Line("answer", t)  b == Line("started", t)
        IN  /\ <<a>> \in Seq(Lines) /\ ToSet(<<a>>) = {a}
            /\ <<a, b>> \in Seq(Lines) /\ ToSet(<<a, b>>) = {a, b}
    BY <2>2, OneLine, TwoLines
  <2>3. u \in Seq(Lines) /\ ToSet(u) \subseteq {Line("answer", t), Line("started", t)}
    <3>1. CASE u = <<Line("answer", t)>>
      BY <2>8, <3>1
    <3>2. CASE u = <<Line("answer", t), Line("started", t)>>
      BY <2>8, <3>2
    <3> QED BY <3>1, <3>2
  <2>4. Line("completed", Call(r)) \notin ToSet(u)
    BY <2>3 DEF Line
  <2>5. Line("started", Call(r)) \in ToSet(u) => Line("completed", Call(r)) \notin ToSet(lines[g])
    <3>1. ASSUME Line("started", Call(r)) \in ToSet(u) PROVE Call(r) \in inbox[h] /\ h \in Gens
      <4>1. t = Call(r)
        BY <2>3, <3>1 DEF Line
      <4> QED BY <1>5, <4>1, GensGiven DEF Accept
    <3>2. ASSUME Line("completed", Call(r)) \in ToSet(lines[g]) PROVE Lined(r, g)
      BY <3>2, HeardOf
    <3> QED BY <3>1, <3>2 DEF FreshInv, Fresh
  <2>6. Ordered(u, r)
    BY <2>4, OneSided
  <2>7. Ordered(lines[g] \o u, r)
    BY <1>0, <2>3, <2>5, <2>6, OrderSaid
  <2> QED BY <1>0, <2>1, <2>7
<1>6. ASSUME NEW s \in Calls, Completes(s) PROVE Ordered(lines'[g], r)
  <2> DEFINE u == <<Line("completed", Call(s))>>
  <2>1. lines'[g] = lines[g] \/ lines'[g] = lines[g] \o u
    BY <1>6, CompleteLines
  <2>2. Line("completed", Call(s)) \in Lines
    BY LineTypes, TaskNames
  <2>3. u \in Seq(Lines) /\ ToSet(u) = {Line("completed", Call(s))}
    BY <2>2, OneLine
  <2> HIDE DEF u
  <2>4. Line("started", Call(r)) \notin ToSet(u)
    BY <2>3 DEF Line
  <2>5. Ordered(u, r)
    BY <2>4, OneSided
  <2>6. Ordered(lines[g] \o u, r)
    BY <1>0, <2>3, <2>4, <2>5, OrderSaid
  <2> QED BY <1>0, <2>1, <2>6
<1> QED BY <1>2, <1>3, <1>4, <1>5, <1>6, QuietStep DEF Busy

\* With the process of a daemon its daemon ends.
LEMMA DaemonEnds ==
  ASSUME DaemonInv, UNCHANGED <<mode, of, process>>,
         UNCHANGED <<dead, daemons>> \/ \E G : Ends(G)
  PROVE  DaemonInv'
<1>1. CASE UNCHANGED <<dead, daemons>>
  BY <1>1 DEF DaemonInv
<1>2. ASSUME NEW G, Ends(G) PROVE DaemonInv'
  <2>1. dead' = dead \cup G
        /\ daemons' = daemons \ {of[g] : g \in {h \in G : mode[h] = "handoff"}}
    BY <1>2 DEF Ends
  <2> QED BY <2>1 DEF DaemonInv
<1> QED BY <1>1, <1>2

\* Nor does a client that loses its process.
LEMMA DaemonKept ==
  ASSUME Inv1, DaemonInv, UNCHANGED <<dead, daemons, mode, of>>,
         \A i \in Instances : process'[i] \in {process[i], 0}
  PROVE  DaemonInv'
<1>1. \A g \in dead : g # 0 /\ of[g] \in Instances
  <2>1. ASSUME NEW g \in dead PROVE g \in Gens /\ g <= gens
    BY GensNat DEF Inv1, FutureInv, Unused, Types, LinkTypes
  <2> QED BY <2>1 DEF Inv1, ProcessInv
<1> QED BY <1>1 DEF DaemonInv

\* DaemonInv is kept: a daemon runs again only behind a new process.
LEMMA DaemonInvStep ==
  ASSUME Inv1, DaemonInv, [Next]_vars
  PROVE  DaemonInv'
<1>1. ASSUME NEW r \in Calls, StartCheck(r) PROVE DaemonInv'
  <2>1. UNCHANGED <<dead, daemons, mode, of>>
    BY <1>1 DEF StartCheck, rest, linkVars, worldVars
  <2>2. \A j \in Instances : process'[j] \in {process[j], 0}
    BY <1>1, Functions1 DEF StartCheck
  <2> QED BY <2>1, <2>2, DaemonKept
<1>2. ASSUME NEW r \in Calls, Spawn(r) PROVE DaemonInv'
  <2>1. /\ gens + 1 \in Gens /\ gens \in Nat /\ UNCHANGED dead /\ client[r] \in Instances
        /\ of' = [of EXCEPT ![gens + 1] = client[r]]
           /\ daemons' \subseteq daemons \cup {client[r]}
        /\ process' = [process EXCEPT ![client[r]] = gens + 1]
        /\ \A h \in Gens : h # gens + 1 => mode'[h] = mode[h]
    BY <1>2, GensNat, Processes DEF Spawn, Opens, Inv1, Types, LinkTypes
  <2>2. ASSUME NEW g \in dead, mode'[g] = "handoff", process'[of'[g]] = g
        PROVE of'[g] \notin daemons'
    <3>1. g # gens + 1 /\ g \in Gens /\ g <= gens
      BY <2>1 DEF Inv1, FutureInv, Unused, Types, LinkTypes
    <3>2. of'[g] = of[g] /\ mode[g] = "handoff" /\ of[g] \in Instances
      BY <2>1, <2>2, <3>1, Functions1 DEF Inv1, ProcessInv
    <3>3. of[g] # client[r] /\ process[of[g]] = g
      BY <2>1, <2>2, <3>1, <3>2, Functions1
    <3> QED BY <2>1, <3>2, <3>3 DEF DaemonInv
  <2> QED BY <2>1, <2>2 DEF DaemonInv
<1>3. ASSUME NEW r \in Calls, Recover(r) PROVE DaemonInv'
  <2>1. UNCHANGED <<dead, daemons, mode, of>>
    BY <1>3 DEF Recover, rest, linkVars, worldVars
  <2>2. \A j \in Instances : process'[j] \in {process[j], 0}
    BY <1>3, Functions1 DEF Recover, Taken
  <2> QED BY <2>1, <2>2, DaemonKept
<1>4. ASSUME NEW t \in Tasks, Take(t) PROVE DaemonInv'
  <2>1. UNCHANGED <<dead, daemons, mode, of>>
    BY <1>4 DEF Take, rest, linkVars, worldVars
  <2>2. \A j \in Instances : process'[j] \in {process[j], 0}
    BY <1>4, Functions1 DEF Take, Taken
  <2> QED BY <2>1, <2>2, DaemonKept
<1>5. ASSUME NEW t \in Tasks, Terminate(t) PROVE DaemonInv'
  <2>1. UNCHANGED <<mode, of, process>>
    BY <1>5 DEF Terminate, rest, linkVars
  <2>2. UNCHANGED <<dead, daemons>> \/ \E G : Ends(G)
    BY <1>5 DEF Terminate, worldVars
  <2> QED BY <2>1, <2>2, DaemonEnds
<1>6. ASSUME NEW t \in Tasks, StopDaemon(t) PROVE DaemonInv'
  <2>1. UNCHANGED <<mode, of, process>>
    BY <1>6 DEF StopDaemon, rest, linkVars
  <2>2. UNCHANGED <<dead, daemons>> \/ \E G : Ends(G)
    BY <1>6 DEF StopDaemon, worldVars
  <2> QED BY <2>1, <2>2, DaemonEnds
<1>7. ASSUME NEW i \in Instances, Kill(i) PROVE DaemonInv'
  <2>1. UNCHANGED <<dead, daemons, mode, of>>
    BY <1>7 DEF Kill, rest, linkVars, worldVars
  <2>2. \A j \in Instances : process'[j] \in {process[j], 0}
    BY <1>7, Functions1 DEF Kill, Taken
  <2> QED BY <2>1, <2>2, DaemonKept
<1>8. ASSUME NEW g \in 1..gens, Finalize(g) PROVE DaemonInv'
  <2>1. UNCHANGED <<dead, daemons, mode, of>>
    BY <1>8 DEF Finalize, rest, linkVars, worldVars
  <2>2. \A j \in Instances : process'[j] \in {process[j], 0}
    BY <1>8, Functions1 DEF Finalize
  <2> QED BY <2>1, <2>2, DaemonKept
<1>9. ASSUME NEW g \in 1..gens, Exits(g) PROVE DaemonInv'
  <2>1. UNCHANGED <<mode, of, process>>
    BY <1>9 DEF Exits, rest, linkVars
  <2>2. UNCHANGED <<dead, daemons>> \/ \E G : Ends(G)
    BY <1>9 DEF Exits, worldVars
  <2> QED BY <2>1, <2>2, DaemonEnds
<1>10. ASSUME UNCHANGED <<dead, mode, process, of, daemons>> PROVE DaemonInv'
  BY <1>10 DEF DaemonInv
<1>11. ASSUME NEW r \in Calls,
       Replaced(r) \/ Enter(r) \/ Started(r) \/ SpawnFails(r) \/ Initialized(r) \/
       Answered(r) \/ Completes(r)
      PROVE DaemonInv'
  BY <1>11, <1>10 DEF Replaced, linkVars, worldVars, Enter, rest, Started, SpawnFails,
                      Initialized, Answered, Completes
<1>12. ASSUME NEW r \in Calls, NEW i \in Instances,
       Get(r, i)
      PROVE DaemonInv'
  BY <1>12, <1>10 DEF Get, linkVars, worldVars
<1>13. ASSUME NEW t \in Tasks,
       ReadGeneration(t) \/ Send(t) \/ WriteFails(t) \/ NoticeWrite(t) \/ Timeout(t) \/
       FailPending(t) \/ Join(t)
      PROVE DaemonInv'
  BY <1>13, <1>10 DEF ReadGeneration, worldVars, rest, linkVars, Send, WriteFails,
                      NoticeWrite, Timeout, FailPending, Join
<1>14. ASSUME NEW i \in Instances,
       EvictChecks(i) \/ RetireLocks(i)
      PROVE DaemonInv'
  BY <1>14, <1>10 DEF EvictChecks, linkVars, worldVars, RetireLocks
<1>15. ASSUME NEW g \in 1..gens,
       Notice(g) \/ ShutsDown(g) \/ FailFirst(g) \/ Drained(g) \/ ReadLine(g) \/ Drops(g)
      PROVE DaemonInv'
  BY <1>15, <1>10 DEF Notice, worldVars, rest, linkVars, ShutsDown, FailFirst, Drained,
                      ReadLine, Drops
<1>16. ASSUME NEW g \in 1..gens, NEW t \in Tasks,
       Accept(g, t)
      PROVE DaemonInv'
  BY <1>16, <1>10 DEF Accept, rest, linkVars
<1> QED BY <1>1, <1>2, <1>3, <1>4, <1>5, <1>6, <1>7, <1>8, <1>9, <1>10, <1>11, <1>12, <1>13,
           <1>14, <1>15, <1>16 DEF Next, vars

\* A turn comes into a record with its answer or with a line.
LEMMA RecordStep ==
  ASSUME Inv1, [Next]_vars
  PROVE  (\A j \in Instances : active'[j] \subseteq active[j])
    \/ (\E s \in Calls : Answered(s)) \/ (\E h \in 1..gens : ReadLine(h))
<1> DEFINE Kept == (\A j \in Instances : active'[j] \subseteq active[j])
    \/ (\E s \in Calls : Answered(s)) \/ (\E h \in 1..gens : ReadLine(h))
<1>1. ASSUME NEW r \in Calls, Answered(r) PROVE Kept
  BY <1>1
<1>2. ASSUME NEW g \in 1..gens, Finalize(g) PROVE Kept
  <2>1. active' = [active EXCEPT ![of[g]] = {}] \/ active' = active
    BY <1>2 DEF Finalize
  <2> QED BY <2>1, Functions1
<1>3. ASSUME NEW g \in 1..gens, ReadLine(g) PROVE Kept
  BY <1>3
<1>4. ASSUME UNCHANGED <<active>> PROVE Kept
  BY <1>4
<1>5. ASSUME NEW r \in Calls,
       Replaced(r) \/ Enter(r) \/ Started(r) \/ StartCheck(r) \/ Spawn(r) \/ SpawnFails(r) \/
       Initialized(r) \/ Recover(r) \/ Completes(r)
      PROVE Kept
  BY <1>5, <1>4 DEF Replaced, Enter, Started, StartCheck, Spawn, Offers, SpawnFails,
                    Initialized, Recover, Completes
<1>6. ASSUME NEW r \in Calls, NEW i \in Instances,
       Get(r, i)
      PROVE Kept
  BY <1>6, <1>4 DEF Get
<1>7. ASSUME NEW t \in Tasks,
       ReadGeneration(t) \/ Send(t) \/ WriteFails(t) \/ NoticeWrite(t) \/ Timeout(t) \/
       Take(t) \/ FailPending(t) \/ Terminate(t) \/ Join(t) \/ StopDaemon(t)
      PROVE Kept
  BY <1>7, <1>4 DEF ReadGeneration, Send, WriteFails, NoticeWrite, Timeout, Take,
                    FailPending, Terminate, Join, StopDaemon
<1>8. ASSUME NEW i \in Instances,
       Kill(i) \/ EvictChecks(i) \/ RetireLocks(i)
      PROVE Kept
  BY <1>8, <1>4 DEF Kill, EvictChecks, RetireLocks
<1>9. ASSUME NEW g \in 1..gens,
       Notice(g) \/ ShutsDown(g) \/ FailFirst(g) \/ Drained(g) \/ Exits(g) \/ Drops(g)
      PROVE Kept
  BY <1>9, <1>4 DEF Notice, ShutsDown, FailFirst, Drained, Exits, Drops
<1>10. ASSUME NEW g \in 1..gens, NEW t \in Tasks,
       Accept(g, t)
      PROVE Kept
  BY <1>10, <1>4 DEF Accept
<1> QED BY <1>1, <1>2, <1>3, <1>4, <1>5, <1>6, <1>7, <1>8, <1>9, <1>10 DEF Next, vars

\* What a reader or an answer puts into the record.
LEMMA Recorded ==
  ASSUME Inv1, FreshInv, NEW i \in Instances, NEW r \in active'[i], r \notin active[i],
         (\E s \in Calls : Answered(s)) \/ (\E h \in 1..gens : ReadLine(h))
  PROVE  /\ r \in Calls /\ client[r] = i /\ pc[Call(r)] \notin Unsent
         /\ r \in running' \/ r \in ghosts' \/ (process[i] # 0 /\ Said(r, process[i]))
<1> DEFINE Goal == /\ r \in Calls /\ client[r] = i /\ pc[Call(r)] \notin Unsent
                   /\ r \in running' \/ r \in ghosts' \/ (process[i] # 0 /\ Said(r, process[i]))
<1>1. ASSUME NEW s \in Calls, Answered(s) PROVE Goal
  <2>1. pc[Call(s)] = "answered"
        /\ active' = [active EXCEPT ![client[s]] = active[client[s]] \cup {s}]
        /\ UNCHANGED running
        /\ (s \notin running => s \in ghosts')
    BY <1>1, Functions1 DEF Answered, Move, worldVars
  <2>2. r = s /\ client[s] = i
    BY <2>1, Functions1
  <2> QED BY <2>1, <2>2 DEF Unsent
<1>2. ASSUME NEW h \in 1..gens, ReadLine(h) PROVE Goal
  <2>1. h \in Gens /\ lines[h] # <<>> /\ Head(lines[h]) \in ToSet(lines[h])
        /\ Head(lines[h]) \in Lines
    BY <1>2, ReadLines, Lines0
  <2>2. PICK l, t : l = Head(lines[h]) /\ t = l.to
    OBVIOUS
  <2>3. l.kind # "answer" => t = Call(t[2]) /\ t[2] \in Calls
    BY <2>1, <2>2, Lines0
  <2>4. \/ active' = active
        \/ l.kind = "started" /\ active' = [active EXCEPT ![of[h]] = active[of[h]] \cup {t[2]}]
        \/ active' = [active EXCEPT ![of[h]] = active[of[h]] \ {t[2]}]
    BY <1>2, <2>2 DEF ReadLine
  <2>5. l.kind = "started" /\ of[h] = i /\ r = t[2]
    BY <2>4, Functions1
  <2>6. l = Line("started", Call(r)) /\ r \in Calls
    BY <2>1, <2>2, <2>3, <2>5 DEF Lines, Line
  <2>7. Said(r, h)
    BY <2>1, <2>2, <2>6 DEF Said
  <2>8. process[of[h]] # h => r \in ghosts'
    BY <1>2, <2>2, <2>5 DEF ReadLine
  <2>9. pc[Call(r)] \notin Unsent /\ h # 0 /\ of[h] = client[r]
    BY <2>1, <2>6, <2>7, HeardEnd
  <2> QED BY <2>5, <2>6, <2>7, <2>8, <2>9
<1> QED BY <1>1, <1>2

\* OwnInv is kept.
LEMMA OwnInvStep ==
  ASSUME Inv1, FreshInv, OwnInv, [Next]_vars
  PROVE  OwnInv'
<1> SUFFICES ASSUME NEW i \in Instances, NEW r \in active'[i]
             PROVE  client'[r] = i /\ pc'[Call(r)] \notin Unsent
  BY DEF OwnInv
<1>1. r \in Calls /\ client[r] = i /\ pc[Call(r)] \notin Unsent
  BY RecordStep, Recorded, Functions1 DEF OwnInv
<1> QED BY <1>1, SentStep DEF Sent

\* A ghost stays one.
LEMMA GhostsGrow ==
  ASSUME [Next]_vars
  PROVE  ghosts \subseteq ghosts'
<1>1. ASSUME NEW r \in Calls, StartCheck(r) PROVE ghosts \subseteq ghosts'
  BY <1>1 DEF StartCheck
<1>2. ASSUME NEW r \in Calls, Answered(r) PROVE ghosts \subseteq ghosts'
  BY <1>2 DEF Answered
<1>3. ASSUME NEW r \in Calls, Recover(r) PROVE ghosts \subseteq ghosts'
  BY <1>3 DEF Recover
<1>4. ASSUME NEW r \in Calls, Completes(r) PROVE ghosts \subseteq ghosts'
  BY <1>4 DEF Completes
<1>5. ASSUME NEW t \in Tasks, NoticeWrite(t) PROVE ghosts \subseteq ghosts'
  BY <1>5 DEF NoticeWrite, Breaks
<1>6. ASSUME NEW t \in Tasks, Take(t) PROVE ghosts \subseteq ghosts'
  BY <1>6 DEF Take
<1>7. ASSUME NEW t \in Tasks, Terminate(t) PROVE ghosts \subseteq ghosts'
  BY <1>7 DEF Terminate, Ends
<1>8. ASSUME NEW t \in Tasks, Join(t) PROVE ghosts \subseteq ghosts'
  BY <1>8 DEF Join, Breaks
<1>9. ASSUME NEW t \in Tasks, StopDaemon(t) PROVE ghosts \subseteq ghosts'
  BY <1>9 DEF StopDaemon, Ends
<1>10. ASSUME NEW i \in Instances, Kill(i) PROVE ghosts \subseteq ghosts'
  BY <1>10 DEF Kill
<1>11. ASSUME NEW g \in 1..gens, Notice(g) PROVE ghosts \subseteq ghosts'
  BY <1>11 DEF Notice, Breaks
<1>12. ASSUME NEW g \in 1..gens, ShutsDown(g) PROVE ghosts \subseteq ghosts'
  BY <1>12 DEF ShutsDown, Breaks
<1>13. ASSUME NEW g \in 1..gens, Drained(g) PROVE ghosts \subseteq ghosts'
  BY <1>13 DEF Drained
<1>14. ASSUME NEW g \in 1..gens, ReadLine(g) PROVE ghosts \subseteq ghosts'
  BY <1>14 DEF ReadLine
<1>15. ASSUME NEW g \in 1..gens, Exits(g) PROVE ghosts \subseteq ghosts'
  BY <1>15 DEF Exits, Ends
<1>16. ASSUME UNCHANGED <<ghosts>> PROVE ghosts \subseteq ghosts'
  BY <1>16
<1>17. ASSUME NEW r \in Calls,
       Replaced(r) \/ Enter(r) \/ Started(r) \/ Spawn(r) \/ SpawnFails(r) \/ Initialized(r)
      PROVE ghosts \subseteq ghosts'
  BY <1>17, <1>16 DEF Replaced, history, Enter, Started, Spawn, Offers, SpawnFails,
                      Initialized
<1>18. ASSUME NEW r \in Calls, NEW i \in Instances,
       Get(r, i)
      PROVE ghosts \subseteq ghosts'
  BY <1>18, <1>16 DEF Get, history
<1>19. ASSUME NEW t \in Tasks,
       ReadGeneration(t) \/ Send(t) \/ WriteFails(t) \/ Timeout(t) \/ FailPending(t)
      PROVE ghosts \subseteq ghosts'
  BY <1>19, <1>16 DEF ReadGeneration, history, Send, WriteFails, Timeout, FailPending
<1>20. ASSUME NEW i \in Instances,
       EvictChecks(i) \/ RetireLocks(i)
      PROVE ghosts \subseteq ghosts'
  BY <1>20, <1>16 DEF EvictChecks, RetireLocks
<1>21. ASSUME NEW g \in 1..gens,
       FailFirst(g) \/ Finalize(g) \/ Drops(g)
      PROVE ghosts \subseteq ghosts'
  BY <1>21, <1>16 DEF FailFirst, history, Finalize, Drops
<1>22. ASSUME NEW g \in 1..gens, NEW t \in Tasks,
       Accept(g, t)
      PROVE ghosts \subseteq ghosts'
  BY <1>22, <1>16 DEF Accept, history
<1> QED BY <1>1, <1>2, <1>3, <1>4, <1>5, <1>6, <1>7, <1>8, <1>9, <1>10, <1>11, <1>12, <1>13,
           <1>14, <1>15, <1>16, <1>17, <1>18, <1>19, <1>20, <1>21, <1>22 DEF Next, vars

\* What comes to be counted runs, or is a ghost.
LEMMA CountedStep ==
  ASSUME Inv1, FreshInv, [Next]_vars, NEW i \in Instances, NEW r \in Calls, Counted(i, r)'
  PROVE  Counted(i, r) \/ r \in running' \/ r \in ghosts'
<1>1. CASE r \in active'[i]
  BY <1>1, RecordStep, Recorded DEF Counted
<1>2. ASSUME process'[i] # 0, Line("started", Call(r)) \in ToSet(lines'[process'[i]])
      PROVE  Counted(i, r) \/ r \in running'
  <2>1. process'[i] \in Gens
    BY <1>2, Inv1Step DEF Inv1, Types, ProcessTypes
  <2>2. PICK g \in Gens : g = process'[i]
    BY <2>1
  <2>3. Said(r, g)'
    BY <1>2, <2>2 DEF Said
  <2>4. Said(r, g) \/ r \in running'
    BY <2>3, SaidStep
  <2>5. CASE g = process[i]
    BY <1>2, <2>2, <2>4, <2>5 DEF Counted
  <2>6. CASE g # process[i]
    <3>1. g = gens + 1
      BY <1>2, <2>2, <2>6, NewProcessStep DEF NewProcess
    <3>2. lines[g] = <<>>
      BY <3>1, GensNat DEF Inv1, FutureInv, Unused
    <3>3. ~ Said(r, g)
      BY <3>2, NoLines DEF Said
    <3> QED BY <2>4, <3>3
  <2> QED BY <2>5, <2>6
<1> QED BY <1>1, <1>2 DEF Counted, Said

\* What is due of a client: its process is one of those given out.
LEMMA DueFacts ==
  ASSUME Inv1, NEW j \in Instances, Due(j)
  PROVE  process[j] \in Gens /\ process[j] <= gens /\ process[j] # 0 /\ of[process[j]] = j
<1>1. process[j] \in Gens
  BY DEF Due, Inv1, Types, LinkTypes
<1> QED BY <1>1 DEF Inv1, ProcessInv

\* A clean-up that is due stays so until it is made, or the process is taken with the record.
LEMMA DueStep ==
  ASSUME Inv1, LockInv, CloseInv, DaemonInv, NEW j \in Instances, Due(j), [Next]_vars
  PROVE  Due(j)' \/ (process'[j] = 0 /\ active'[j] \subseteq ghosts')
<1> DEFINE Kept == Due(j)' \/ (process'[j] = 0 /\ active'[j] \subseteq ghosts')
<1>0. process[j] \in Gens /\ process[j] <= gens /\ process[j] # 0 /\ of[process[j]] = j
  BY DueFacts
<1>1. ASSUME NEW r \in Calls, StartCheck(r) PROVE Kept
  <2>1. UNCHANGED <<dead, sup, active>> /\ client[r] \in Instances
    BY <1>1, Owners, Processes, TaskNames DEF StartCheck, rest, worldVars, Move
  <2>2. process'[j] = process[j] \/ (process'[j] = 0 /\ active[j] \subseteq ghosts')
    BY <1>1, <1>0, <2>1, Functions1, Bound, TaskNames, LinkFacts DEF StartCheck
  <2> QED BY <1>0, <2>1, <2>2 DEF Due
<1>2. ASSUME NEW r \in Calls, Spawn(r) PROVE Kept
  <2>1. pc[Start(r)] = "spawns" /\ client[r] \in Instances /\ UNCHANGED dead
        /\ process' = [process EXCEPT ![client[r]] = gens + 1]
        /\ sup' = [sup EXCEPT ![gens + 1] = "on"]
    BY <1>2, Processes DEF Spawn, Opens
  <2>2. process[client[r]] = 0
    BY <2>1 DEF LockInv, Empties
  <2>3. process'[j] = process[j] /\ sup'[process[j]] = sup[process[j]]
    BY <1>0, <2>1, <2>2, Functions1, GensNat DEF SupTypes
  <2> QED BY <2>1, <2>3 DEF Due
<1>3. ASSUME NEW r \in Calls, Recover(r) PROVE Kept
  <2>1. UNCHANGED <<dead, sup, active>> /\ client[r] \in Instances
    BY <1>3, Owners, Processes, TaskNames DEF Recover, rest, worldVars, Move
  <2>2. process'[j] = process[j] \/ (process'[j] = 0 /\ active[j] \subseteq ghosts')
    BY <1>3, <1>0, <2>1, Functions1, Bound, TaskNames, LinkFacts DEF Recover, Taken, Linked,
       ClientOf, Sending
  <2> QED BY <1>0, <2>1, <2>2 DEF Due
<1>4. ASSUME NEW t \in Tasks, NoticeWrite(t) PROVE Kept
  <2>1. gen[t] \in Gens /\ UNCHANGED <<process, dead>> /\ Breaks(gen[t], LossOrExit(gen[t]))
    <3>1. pc[t] = "writes"
      BY <1>4 DEF NoticeWrite, Move
    <3>2. gen[t] \in Gens
      BY <3>1, Bound DEF Sending
    <3> QED BY <1>4, <3>2 DEF NoticeWrite, rest, worldVars
  <2>2. gen[t] = process[j] => LossOrExit(gen[t]) = "exit"
    BY <1>0, <2>1 DEF LossOrExit, DaemonInv, Due
  <2>3. sup'[process[j]] \in {sup[process[j]], "exit"}
    BY <1>0, <2>1, <2>2, BreaksSup
  <2> QED BY <2>1, <2>3 DEF Due
<1>5. ASSUME NEW t \in Tasks, Take(t) PROVE Kept
  <2>1. UNCHANGED <<dead, sup, active>> /\ ClientOf(t) \in Instances
    BY <1>5, Owners, Processes, TaskNames DEF Take, rest, worldVars, Move
  <2>2. process'[j] = process[j] \/ (process'[j] = 0 /\ active[j] \subseteq ghosts')
    BY <1>5, <1>0, <2>1, Functions1, Bound, TaskNames, LinkFacts DEF Take, Taken, Inv1, ProcessInv
  <2> QED BY <1>0, <2>1, <2>2 DEF Due
<1>6. ASSUME NEW t \in Tasks, Terminate(t) PROVE Kept
  <2>1. UNCHANGED <<process, sup>>
    BY <1>6 DEF Terminate, rest
  <2>2. dead \subseteq dead'
    BY <1>6, EndsUp DEF Terminate, worldVars
  <2> QED BY <2>1, <2>2 DEF Due
<1>7. ASSUME NEW t \in Tasks, Join(t) PROVE Kept
  <2>1. pc[t] \in Closers /\ UNCHANGED <<process, dead>> /\ Breaks(gen[t], "done")
    BY <1>7 DEF Join, rest, Closers
  <2>2. gen[t] \in Gens /\ gen[t] # process[j]
    BY <1>0, <2>1, Bound DEF CloseInv
  <2>3. sup'[process[j]] = sup[process[j]]
    BY <1>0, <2>1, <2>2, BreaksSup
  <2> QED BY <2>1, <2>3 DEF Due
<1>8. ASSUME NEW t \in Tasks, StopDaemon(t) PROVE Kept
  <2>1. UNCHANGED <<process, sup>>
    BY <1>8 DEF StopDaemon, rest
  <2>2. dead \subseteq dead'
    BY <1>8, EndsUp DEF StopDaemon, worldVars
  <2> QED BY <2>1, <2>2 DEF Due
<1>9. ASSUME NEW i \in Instances, Kill(i) PROVE Kept
  <2>1. UNCHANGED <<dead, sup, active>> /\ i \in Instances
    BY <1>9, Owners, Processes, TaskNames DEF Kill, rest, worldVars, Move
  <2>2. process'[j] = process[j] \/ (process'[j] = 0 /\ active[j] \subseteq ghosts')
    BY <1>9, <1>0, <2>1, Functions1, Bound, TaskNames, LinkFacts DEF Kill, Taken, Inv1, ProcessInv
  <2> QED BY <1>0, <2>1, <2>2 DEF Due
<1>10. ASSUME NEW g \in 1..gens, Notice(g) PROVE Kept
  <2>1. g \in Gens /\ UNCHANGED <<process, dead>> /\ Breaks(g, LossOrExit(g))
    BY <1>10, GensGiven, Bound DEF Notice, rest, worldVars, Sending, Move
  <2>2. g = process[j] => LossOrExit(g) = "exit"
    BY <1>0, <2>1 DEF LossOrExit, DaemonInv, Due
  <2>3. sup'[process[j]] \in {sup[process[j]], "exit"}
    BY <1>0, <2>1, <2>2, BreaksSup
  <2> QED BY <2>1, <2>3 DEF Due
<1>11. ASSUME NEW g \in 1..gens, ShutsDown(g) PROVE Kept
  <2>1. /\ g \in Gens /\ UNCHANGED <<process, dead>> /\ \E to : Breaks(g, to)
        /\ \E t \in Tasks : gen[t] = g /\ pc[t] \in Closers
    BY <1>11, GensGiven DEF ShutsDown, Shutdown, rest, Closers
  <2>2. g # process[j]
    BY <1>0, <2>1 DEF CloseInv
  <2>3. sup'[process[j]] = sup[process[j]]
    BY <1>0, <2>1, <2>2, BreaksSup
  <2> QED BY <2>1, <2>3 DEF Due
<1>12. ASSUME NEW g \in 1..gens, FailFirst(g) PROVE Kept
  <2>1. g \in Gens /\ UNCHANGED <<process, dead>>
        /\ sup' = [sup EXCEPT ![g] = IF sup[g] = "loss" THEN "lossLocks" ELSE "exitLocks"]
    BY <1>12, GensGiven, Functions1 DEF FailFirst, rest, worldVars, SupTypes
  <2> QED BY <1>0, <2>1, Functions1 DEF Due, SupTypes
<1>13. ASSUME NEW g \in 1..gens, Finalize(g) PROVE Kept
  <2>1. g \in Gens /\ UNCHANGED dead /\ sup[g] \in {"loss", "exit", "lossLocks", "exitLocks"}
        /\ \E x : sup' = [sup EXCEPT ![g] = x]
    BY <1>13, GensGiven DEF Finalize, worldVars
  <2>2. CASE g = process[j]
    <3>1. process' = [process EXCEPT ![j] = 0] /\ active' = [active EXCEPT ![j] = {}]
      BY <1>13, <1>0, <2>2 DEF Finalize, Due
    <3> QED BY <3>1, Functions1
  <2>3. CASE g # process[j]
    <3>1. process'[j] = process[j]
      BY <1>13, <1>0, <2>1, <2>3, Functions1 DEF Finalize
    <3>2. sup'[process[j]] = sup[process[j]]
      BY <1>0, <2>1, <2>3, Functions1 DEF SupTypes
    <3> QED BY <2>1, <3>1, <3>2 DEF Due
  <2> QED BY <2>2, <2>3
<1>14. ASSUME NEW g \in 1..gens, Drained(g) PROVE Kept
  <2>1. g \in Gens /\ UNCHANGED <<process, dead>> /\ sup[g] = "drain"
        /\ sup' = [sup EXCEPT ![g] = "done"]
    BY <1>14, GensGiven DEF Drained, rest, worldVars
  <2> QED BY <1>0, <2>1, Functions1 DEF Due, SupTypes
<1>15. ASSUME NEW g \in 1..gens, Exits(g) PROVE Kept
  <2>1. UNCHANGED <<process, sup>>
    BY <1>15 DEF Exits, rest
  <2>2. dead \subseteq dead'
    BY <1>15, EndsUp DEF Exits, worldVars
  <2> QED BY <2>1, <2>2 DEF Due
<1>16. ASSUME UNCHANGED <<process, dead, sup>> PROVE Kept
  BY <1>16 DEF Due
<1>17. ASSUME NEW r \in Calls,
       Replaced(r) \/ Enter(r) \/ Started(r) \/ SpawnFails(r) \/ Initialized(r) \/
       Answered(r) \/ Completes(r)
      PROVE Kept
  BY <1>17, <1>16 DEF Replaced, worldVars, Enter, Started, SpawnFails, Initialized, Answered,
                      Completes
<1>18. ASSUME NEW r \in Calls, NEW i \in Instances,
       Get(r, i)
      PROVE Kept
  BY <1>18, <1>16 DEF Get, worldVars
<1>19. ASSUME NEW t \in Tasks,
       ReadGeneration(t) \/ Send(t) \/ WriteFails(t) \/ Timeout(t) \/ FailPending(t)
      PROVE Kept
  BY <1>19, <1>16 DEF ReadGeneration, worldVars, Send, WriteFails, Timeout, FailPending
<1>20. ASSUME NEW i \in Instances,
       EvictChecks(i) \/ RetireLocks(i)
      PROVE Kept
  BY <1>20, <1>16 DEF EvictChecks, worldVars, RetireLocks
<1>21. ASSUME NEW g \in 1..gens,
       ReadLine(g) \/ Drops(g)
      PROVE Kept
  BY <1>21, <1>16 DEF ReadLine, worldVars, Drops
<1>22. ASSUME NEW g \in 1..gens, NEW t \in Tasks,
       Accept(g, t)
      PROVE Kept
  BY <1>22, <1>16 DEF Accept
<1> QED BY <1>1, <1>2, <1>3, <1>4, <1>5, <1>6, <1>7, <1>8, <1>9, <1>10, <1>11, <1>12, <1>13,
           <1>14, <1>15, <1>16, <1>17, <1>18, <1>19, <1>20, <1>21, <1>22 DEF Next, vars

\* Processes end: those of a daemon, or a connected one, or one that is taken.
Ended(X) == /\ Ends(X) /\ UNCHANGED <<process, sup, active>>
            /\ \A h \in X : mode[h] = "handoff" \/ h \in up \/ process[of[h]] # h

\* A turn ends by itself, or with its process.
LEMMA EndStep ==
  ASSUME Inv1, CloseInv, [Next]_vars
  PROVE  \/ running \subseteq running' \/ (\E s \in Calls : Completes(s))
  \/ \E X \in SUBSET Gens : Ended(X)
<1> DEFINE Kept == \/ running \subseteq running' \/ (\E s \in Calls : Completes(s))
  \/ \E X \in SUBSET Gens : Ended(X)
<1>1. ASSUME NEW r \in Calls, Completes(r) PROVE Kept
  BY <1>1
<1>2. ASSUME NEW t \in Tasks, Terminate(t) PROVE Kept
  <2>1. CASE UNCHANGED running
    BY <2>1
  <2>2. CASE Ends(Behind(gen[t]))
    <3>1. pc[t] \in Closers /\ UNCHANGED <<process, sup, active>>
      BY <1>2 DEF Terminate, Closers, Move
    <3>2. gen[t] \in 1..gens /\ process[of[gen[t]]] # gen[t]
      BY <3>1, Bound DEF CloseInv
    <3>3. \A h \in Behind(gen[t]) : mode[h] = "handoff" \/ h = gen[t]
      BY DEF Behind, Handoff
    <3>4. Behind(gen[t]) \subseteq Gens
      BY <3>2, BehindKnown
    <3>5. Ended(Behind(gen[t]))
      BY <2>2, <3>1, <3>2, <3>3 DEF Ended
    <3> QED BY <3>4, <3>5
  <2> QED BY <1>2, <2>1, <2>2 DEF Terminate, worldVars
<1>3. ASSUME NEW t \in Tasks, StopDaemon(t) PROVE Kept
  <2>1. CASE UNCHANGED running
    BY <2>1
  <2>2. CASE Ends(Handoff(ClientOf(t)))
    <3>1. pc[t] = "stops" /\ UNCHANGED <<process, sup, active>>
      BY <1>3 DEF StopDaemon, Move
    <3>2. \A h \in Handoff(ClientOf(t)) : mode[h] = "handoff"
      BY DEF Handoff
    <3>3. Handoff(ClientOf(t)) \subseteq Gens
      BY DEF Handoff
    <3>4. Ended(Handoff(ClientOf(t)))
      BY <2>2, <3>1, <3>2 DEF Ended
    <3> QED BY <3>3, <3>4
  <2> QED BY <1>3, <2>1, <2>2 DEF StopDaemon, worldVars
<1>4. ASSUME NEW g \in 1..gens, Exits(g) PROVE Kept
  <2>1. g \in up /\ Ends(Behind(g)) /\ UNCHANGED <<process, sup, active>>
    BY <1>4 DEF Exits
  <2>2. \A h \in Behind(g) : mode[h] = "handoff" \/ h = g
    BY DEF Behind, Handoff
  <2>3. Behind(g) \subseteq Gens
    BY <1>4, BehindKnown
  <2>4. Ended(Behind(g))
    BY <2>1, <2>2 DEF Ended
  <2> QED BY <2>3, <2>4
<1>5. ASSUME NEW g \in 1..gens, NEW t \in Tasks, Accept(g, t) PROVE Kept
  BY <1>5 DEF Accept
<1>6. ASSUME UNCHANGED <<running>> PROVE Kept
  BY <1>6
<1>7. ASSUME NEW r \in Calls,
       Replaced(r) \/ Enter(r) \/ Started(r) \/ StartCheck(r) \/ Spawn(r) \/ SpawnFails(r) \/
       Initialized(r) \/ Answered(r) \/ Recover(r)
      PROVE Kept
  BY <1>7, <1>6 DEF Replaced, worldVars, Enter, Started, StartCheck, Spawn, Offers,
                    SpawnFails, Initialized, Answered, Recover
<1>8. ASSUME NEW r \in Calls, NEW i \in Instances,
       Get(r, i)
      PROVE Kept
  BY <1>8, <1>6 DEF Get, worldVars
<1>9. ASSUME NEW t \in Tasks,
       ReadGeneration(t) \/ Send(t) \/ WriteFails(t) \/ NoticeWrite(t) \/ Timeout(t) \/
       Take(t) \/ FailPending(t) \/ Join(t)
      PROVE Kept
  BY <1>9, <1>6 DEF ReadGeneration, worldVars, Send, WriteFails, NoticeWrite, Timeout, Take,
                    FailPending, Join
<1>10. ASSUME NEW i \in Instances,
       Kill(i) \/ EvictChecks(i) \/ RetireLocks(i)
      PROVE Kept
  BY <1>10, <1>6 DEF Kill, worldVars, EvictChecks, RetireLocks
<1>11. ASSUME NEW g \in 1..gens,
       Notice(g) \/ ShutsDown(g) \/ FailFirst(g) \/ Finalize(g) \/ Drained(g) \/ ReadLine(g)
       \/ Drops(g)
      PROVE Kept
  BY <1>11, <1>6 DEF Notice, worldVars, ShutsDown, FailFirst, Finalize, Drained, ReadLine,
                     Drops
<1> QED BY <1>1, <1>2, <1>3, <1>4, <1>5, <1>6, <1>7, <1>8, <1>9, <1>10, <1>11 DEF Next, vars

\* What is counted is of a call of the client, and a turn said to start is its process's.
LEMMA CountedOf ==
  ASSUME Inv1, FreshInv, OwnInv, NEW i \in Instances, NEW r \in Calls, Counted(i, r)
  PROVE  client[r] = i /\ (r \notin active[i] =>
           process[i] \in Gens /\ Said(r, process[i]) /\ gen[Call(r)] = process[i])
<1>1. CASE r \in active[i]
  BY <1>1 DEF OwnInv
<1>2. CASE process[i] # 0 /\ Said(r, process[i])
  <2>1. process[i] \in Gens /\ of[process[i]] = i
    BY <1>2, Functions1 DEF Inv1, ProcessInv
  <2> QED BY <1>2, <2>1, HeardEnd
<1> QED BY <1>1, <1>2 DEF Counted

\* A turn that ends with its process: the clean-up is due, or it is made, or the turn is a ghost.
LEMMA EndedReal ==
  ASSUME Inv1, FreshInv, OwnInv, LostInv, UpInv, NEW X \in SUBSET Gens, Ended(X),
         NEW i \in Instances, NEW r \in running, r \notin running', Counted(i, r)
  PROVE  r \in ghosts' \/ Due(i)'
<1> DEFINE q == gen[Call(r)]
<1>1. r \in Calls /\ q \in Gens /\ of[q] = client[r]
  BY RunningTurn
<1>2. client[r] = i /\ (r \notin active[i] =>
        process[i] \in Gens /\ Said(r, process[i]) /\ q = process[i])
  BY <1>1, CountedOf
<1>3. dead' = dead \cup X /\ UNCHANGED <<process, sup>>
  BY EndsUp DEF Ended
<1>4. q \in X
  BY DEF Ended, Ends
<1>5. r \in active[i] /\ (process[i] \notin X \/ sup[process[i]] # "on") => r \in ghosts'
  <2>1. ghosts' = ghosts \cup UNION {active[k] : k \in {j \in {of[g] : g \in X} :
                                       process[j] \notin X \/ sup[process[j]] # "on"}}
    BY DEF Ended, Ends
  <2>2. i \in {of[g] : g \in X}
    BY <1>1, <1>2, <1>4
  <2> QED BY <2>1, <2>2
<1>6. CASE process[i] \in X /\ sup[process[i]] = "on"
  BY <1>3, <1>6 DEF Due
<1>7. CASE process[i] \notin X
  BY <1>2, <1>4, <1>5, <1>7
<1>8. CASE process[i] \in X /\ sup[process[i]] # "on"
  <2> SUFFICES ASSUME r \notin active[i] PROVE FALSE
    BY <1>5, <1>8
  <2>1. q = process[i] /\ Said(r, q) /\ of[q] = i
    BY <1>1, <1>2
  <2>2. mode[q] = "handoff"
    BY <1>4, <1>8, <2>1 DEF Ended, UpInv
  <2>3. lines[q] = <<>>
    BY <1>1, <1>8, <2>1, <2>2 DEF LostInv
  <2> QED BY <2>1, <2>3, NoLines DEF Said
<1> QED BY <1>6, <1>7, <1>8

\* An end that is not read when the connection breaks makes a ghost.
LEMMA BreaksHeard ==
  ASSUME Inv1, NEW g \in Gens, NEW to, Breaks(g, to), NEW h \in Gens, NEW r \in Completed(h)
  PROVE  r \in Completed(h)' \/ r \in ghosts'
<1>1. CASE UNCHANGED lines
  BY <1>1 DEF Completed
<1>2. CASE lines' = [lines EXCEPT ![g] = <<>>] /\ ghosts' = ghosts \cup Completed(g)
  <2>1. h # g => lines'[h] = lines[h]
    BY <1>2, FlowFunctions
  <2> QED BY <1>2, <2>1 DEF Completed
<1> QED BY <1>1, <1>2 DEF Breaks

\* An end that was heard stays so until it is read, or its turn is a ghost.
LEMMA HeardStep ==
  ASSUME Inv1, [Next]_vars
  PROVE  (\A h \in Gens : \A s \in Completed(h) : s \in Completed(h)' \/ s \in ghosts')
    \/ (\E x \in 1..gens : ReadLine(x))
<1> DEFINE Kept == (\A h \in Gens : \A s \in Completed(h) : s \in Completed(h)' \/ s \in ghosts')
    \/ (\E x \in 1..gens : ReadLine(x))
<1>1. ASSUME NEW r \in Calls, Completes(r) PROVE Kept
  <2>1. \A h \in Gens : ToSet(lines[h]) \subseteq ToSet(lines'[h])
    BY <1>1, CompleteLines
  <2> QED BY <2>1 DEF Completed
<1>2. ASSUME NEW t \in Tasks, NoticeWrite(t) PROVE Kept
  <2>1. pc[t] = "writes" /\ \E to : Breaks(gen[t], to)
    BY <1>2 DEF NoticeWrite, Move
  <2> QED BY <2>1, Bound, BreaksHeard DEF Sending
<1>3. ASSUME NEW t \in Tasks, Join(t) PROVE Kept
  <2>1. pc[t] \in Closers /\ \E to : Breaks(gen[t], to)
    BY <1>3 DEF Join, Closers
  <2> QED BY <2>1, Bound, BreaksHeard
<1>4. ASSUME NEW g \in 1..gens, Notice(g) PROVE Kept
  <2>1. g \in Gens /\ \E to : Breaks(g, to)
    BY <1>4, GensGiven DEF Notice
  <2> QED BY <2>1, BreaksHeard
<1>5. ASSUME NEW g \in 1..gens, ShutsDown(g) PROVE Kept
  <2>1. g \in Gens /\ \E to : Breaks(g, to)
    BY <1>5, GensGiven DEF ShutsDown
  <2> QED BY <2>1, BreaksHeard
<1>6. ASSUME NEW g \in 1..gens, Drained(g) PROVE Kept
  <2>1. lines' = [lines EXCEPT ![g] = <<>>] /\ ghosts' = ghosts \cup Completed(g)
    BY <1>6 DEF Drained
  <2>2. \A h \in Gens : h # g => lines'[h] = lines[h]
    BY <2>1, FlowFunctions
  <2> QED BY <2>1, <2>2 DEF Completed
<1>7. ASSUME NEW g \in 1..gens, ReadLine(g) PROVE Kept
  BY <1>7
<1>8. ASSUME NEW g \in 1..gens, NEW t \in Tasks, Accept(g, t) PROVE Kept
  <2>1. \A h \in Gens : ToSet(lines[h]) \subseteq ToSet(lines'[h])
    BY <1>8, AcceptLines
  <2> QED BY <2>1 DEF Completed
<1>9. ASSUME UNCHANGED <<lines>> PROVE Kept
  BY <1>9 DEF Completed
<1>10. ASSUME NEW r \in Calls,
       Replaced(r) \/ Enter(r) \/ Started(r) \/ StartCheck(r) \/ Spawn(r) \/ SpawnFails(r) \/
       Initialized(r) \/ Answered(r) \/ Recover(r)
      PROVE Kept
  BY <1>10, <1>9 DEF Replaced, Enter, Started, StartCheck, Spawn, Offers, SpawnFails,
                     Initialized, Answered, Recover
<1>11. ASSUME NEW r \in Calls, NEW i \in Instances,
       Get(r, i)
      PROVE Kept
  BY <1>11, <1>9 DEF Get
<1>12. ASSUME NEW t \in Tasks,
       ReadGeneration(t) \/ Send(t) \/ WriteFails(t) \/ Timeout(t) \/ Take(t) \/
       FailPending(t) \/ Terminate(t) \/ StopDaemon(t)
      PROVE Kept
  BY <1>12, <1>9 DEF ReadGeneration, Send, WriteFails, Timeout, Take, FailPending, Terminate,
                     StopDaemon
<1>13. ASSUME NEW i \in Instances,
       Kill(i) \/ EvictChecks(i) \/ RetireLocks(i)
      PROVE Kept
  BY <1>13, <1>9 DEF Kill, EvictChecks, RetireLocks
<1>14. ASSUME NEW g \in 1..gens,
       FailFirst(g) \/ Finalize(g) \/ Exits(g) \/ Drops(g)
      PROVE Kept
  BY <1>14, <1>9 DEF FailFirst, Finalize, Exits, Drops
<1> QED BY <1>1, <1>2, <1>3, <1>4, <1>5, <1>6, <1>7, <1>8, <1>9, <1>10, <1>11, <1>12, <1>13,
           <1>14 DEF Next, vars

\* What is not left of some lines when the first is read is the first.
LEMMA FirstLine ==
  ASSUME NEW s \in Seq(Lines), s # <<>>, NEW x \in ToSet(s), x \notin ToSet(Tail(s))
  PROVE  x = Head(s)
<1>1. PICK t : t = Tail(s)
  OBVIOUS
<1>2. /\ Len(s) \in Nat /\ Len(t) = Len(s) - 1 /\ \A j \in 1..Len(t) : t[j] = s[j + 1]
      /\ DOMAIN t = 1..Len(t)
  BY <1>1
<1>3. PICK k \in 1..Len(s) : s[k] = x
  BY DEF ToSet
<1>4. CASE k = 1
  BY <1>3, <1>4
<1>5. CASE k # 1
  <2>1. k - 1 \in 1..Len(t) /\ (k - 1) + 1 = k
    BY <1>2, <1>3, <1>5
  <2>2. t[k - 1] = x
    BY <1>2, <1>3, <2>1
  <2>3. x \in ToSet(t)
    BY <1>2, <2>1, <2>2 DEF ToSet
  <2> QED BY <1>1, <2>3
<1> QED BY <1>4, <1>5

\* Lines in order that begin with the end of a turn do not tell of its start.
LEMMA EndFirst ==
  ASSUME NEW s \in Seq(Lines), s # <<>>, NEW r, Ordered(s, r),
         Head(s) = Line("completed", Call(r))
  PROVE  Line("started", Call(r)) \notin ToSet(Tail(s))
<1> SUFFICES ASSUME Line("started", Call(r)) \in ToSet(Tail(s)) PROVE FALSE
  OBVIOUS
<1>1. Len(s) \in Nat /\ Len(Tail(s)) = Len(s) - 1
      /\ \A j \in 1..Len(Tail(s)) : Tail(s)[j] = s[j + 1]
  OBVIOUS
<1>2. PICK k \in 1..Len(Tail(s)) : Tail(s)[k] = Line("started", Call(r))
  BY DEF ToSet
<1>3. k + 1 \in 1..Len(s) /\ s[k + 1] = Line("started", Call(r)) /\ 1 \in 1..Len(s)
      /\ s[1] = Head(s)
  BY <1>1, <1>2
<1>4. k + 1 < 1
  BY <1>3 DEF Ordered
<1> QED BY <1>2, <1>4

\* A reader that reads the end of a turn takes it from the record.
LEMMA ReadEnd ==
  ASSUME Inv1, FreshInv, OwnInv, NewestInv, LaterInv, OrderInv, NEW h \in 1..gens, ReadLine(h),
         NEW g \in Gens, NEW i \in Instances, NEW r \in Calls,
         r \in Completed(g), ~ (r \in Completed(g)')
  PROVE  ~ (Counted(i, r)')
<1>1. /\ h \in Gens /\ lines[h] # <<>>
         /\ \A x \in Gens : ToSet(lines'[x]) \subseteq ToSet(lines[x])
      /\ \A x \in Gens : lines'[x] = IF x = h THEN Tail(lines[h]) ELSE lines[x]
  BY ReadLines
<1>2. UNCHANGED process
  BY DEF ReadLine
<1>3. g = h
  BY <1>1 DEF Completed
<1>4. lines[g] \in Seq(Lines) /\ lines[g] # <<>> /\ lines'[g] = Tail(lines[g])
  BY <1>1, <1>3, FlowFunctions
<1>5. Line("completed", Call(r)) \in ToSet(lines[g])
      /\ Line("completed", Call(r)) \notin ToSet(Tail(lines[g]))
  BY <1>4 DEF Completed
<1>6. Head(lines[g]) = Line("completed", Call(r))
  BY <1>4, <1>5, FirstLine
<1>7. of[g] = client[r] /\ gen[Call(r)] <= g /\ Ordered(lines[g], r)
  BY HeardEnd DEF LaterInv, OrderInv
<1>8. ~ Said(r, g)'
  BY <1>4, <1>6, <1>7, EndFirst DEF Said
<1>9. ASSUME r \in active'[i] PROVE FALSE
  <2>1. PICK l, t : l = Head(lines[g]) /\ t = l.to
    OBVIOUS
  <2>2. l.kind = "completed" /\ t[2] = r
    BY <1>6, <2>1, TaskNames DEF Line
  <2>3. active' = [active EXCEPT ![of[g]] = active[of[g]] \ {r}]
    BY <1>3, <2>1, <2>2 DEF ReadLine
  <2>4. of[g] # i /\ r \in active[i]
    BY <1>9, <2>3, Functions1
  <2> QED BY <1>7, <2>4 DEF OwnInv
<1>10. ASSUME process[i] # 0, Line("started", Call(r)) \in ToSet(lines'[process[i]]) PROVE FALSE
  <2>1. PICK p \in Gens : p = process[i]
    BY <1>10, Functions1
  <2>2. Said(r, p) /\ Said(r, p)' /\ of[p] = i
    BY <1>1, <1>10, <2>1 DEF Said, Inv1, ProcessInv
  <2>3. gen[Call(r)] = p /\ client[r] = i
    BY <2>2, HeardEnd
  <2>4. g <= p
    BY <1>7, <1>10, <2>1, <2>3 DEF NewestInv
  <2>5. g = p
    BY <1>7, <2>3, <2>4, BoundsAssumption
  <2> QED BY <1>8, <2>2, <2>5
<1> QED BY <1>2, <1>9, <1>10 DEF Counted, Said

\* The parts of the invariant of the record.
RecordInv ==
  /\ CloseInv /\ NewestInv /\ DaemonInv /\ OwnInv /\ LostInv /\ LaterInv /\ OrderInv
  /\ RealInv

\* RealInv is kept.
LEMMA RealInvStep ==
  ASSUME Inv, RecordInv, [Next]_vars
  PROVE  RealInv'
<1> SUFFICES ASSUME NEW i \in Instances, NEW r \in Calls, Counted(i, r)'
             PROVE  \/ r \in running' \/ r \in ghosts'
                    \/ (\E g \in Gens : r \in Completed(g)') \/ Due(i)'
  BY DEF RealInv, Real
<1> USE DEF RecordInv
<1>0. Inv1 /\ FreshInv /\ UpInv /\ LockInv
  BY DEF Inv
<1>1. Counted(i, r) \/ r \in running' \/ r \in ghosts'
  BY <1>0, CountedStep
<1>2. CASE r \in ghosts
  BY <1>2, GhostsGrow
<1>3. CASE Counted(i, r) /\ r \in running /\ r \notin running'
  <2>1. (\E s \in Calls : Completes(s)) \/ \E X \in SUBSET Gens : Ended(X)
    BY <1>0, <1>3, EndStep
  <2>2. ASSUME NEW s \in Calls, Completes(s)
        PROVE  r \in ghosts' \/ \E g \in Gens : r \in Completed(g)'
    <3>1. running' = running \ {s}
      BY <2>2 DEF Completes
    <3>2. s = r
      BY <1>3, <3>1
    <3>3. CASE ghosts' = ghosts \cup {s}
      BY <3>2, <3>3
    <3>4. ASSUME NEW h \in up,
          lines' = [lines EXCEPT ![h] = lines[h] \o <<Line("completed", Call(s))>>]
          PROVE  \E g \in Gens : r \in Completed(g)'
      <4> DEFINE u == <<Line("completed", Call(s))>>
      <4>1. h \in Gens /\ lines'[h] = lines[h] \o u /\ lines[h] \in Seq(Lines)
        BY <1>0, <3>4, FlowFunctions, UpGens
      <4>2. Line("completed", Call(s)) \in Lines
        BY TaskNames, LineTypes
      <4>3. u \in Seq(Lines) /\ ToSet(u) = {Line("completed", Call(s))}
        BY <4>2, OneLine
      <4> HIDE DEF u
      <4>4. ToSet(lines'[h]) = ToSet(lines[h]) \cup ToSet(u)
        BY <4>1, <4>3, LinesSaid
      <4> QED BY <3>2, <4>1, <4>3, <4>4 DEF Completed
    <3>5. ghosts' = ghosts \cup {s} \/ \E h \in up : Says(h, <<Line("completed", Call(s))>>)
      BY <2>2 DEF Completes
    <3> QED BY <3>3, <3>4, <3>5 DEF Says
  <2>3. ASSUME NEW X \in SUBSET Gens, Ended(X) PROVE r \in ghosts' \/ Due(i)'
    BY <1>0, <1>3, <2>3, EndedReal
  <2> QED BY <2>1, <2>2, <2>3
<1>4. ASSUME NEW g \in Gens, r \in Completed(g) PROVE r \in Completed(g)' \/ r \in ghosts'
  BY <1>0, <1>4, HeardStep, ReadEnd
<1>5. CASE Due(i)
  <2>1. Due(i)' \/ (process'[i] = 0 /\ active'[i] \subseteq ghosts')
    BY <1>0, <1>5, DueStep
  <2>2. process'[i] = 0 => r \in active'[i]
    BY DEF Counted
  <2> QED BY <2>1, <2>2
<1> QED BY <1>1, <1>2, <1>3, <1>4, <1>5 DEF RealInv, Real

\* The parts of the invariant of the record hold at the start.
LEMMA InitRecord == Init => RecordInv
<1> SUFFICES ASSUME Init PROVE RecordInv
  OBVIOUS
<1>1. \A g \in Gens : lines[g] = <<>> /\ ToSet(lines[g]) = {}
  BY NoLines DEF Init
<1>2. CloseInv /\ NewestInv /\ DaemonInv /\ OwnInv /\ LostInv
  BY DEF Init, CloseInv, NewestInv, DaemonInv, OwnInv, LostInv, Closers
<1>3. LaterInv
  BY <1>1 DEF LaterInv, Completed
<1>4. OrderInv
  BY <1>1, OneSided DEF OrderInv
<1>5. RealInv
  BY DEF Init, RealInv, Counted
<1> QED BY <1>2, <1>3, <1>4, <1>5 DEF RecordInv

\* Every step keeps them.
LEMMA RecordInvStep == Inv /\ RecordInv /\ [Next]_vars => RecordInv'
<1> SUFFICES ASSUME Inv, RecordInv, [Next]_vars PROVE RecordInv'
  OBVIOUS
<1>1. Inv1 /\ FreshInv /\ UpInv
  BY DEF Inv
<1>2. CloseInv' /\ NewestInv' /\ DaemonInv' /\ OwnInv'
  BY <1>1, CloseInvStep, NewestInvStep, DaemonInvStep, OwnInvStep DEF RecordInv
<1>3. LostInv' /\ LaterInv' /\ OrderInv' /\ RealInv'
  BY <1>1, LostInvStep, LaterInvStep, OrderInvStep, RealInvStep DEF RecordInv
<1> QED BY <1>2, <1>3 DEF RecordInv

(* What active_turn_ids holds is exact, but for ghosts: it has every turn     *)
(* that runs on the connected process and that the client was told of, and   *)
(* each of its turns runs, or its end is still to be read, or the clean-up   *)
(* after the client's process is due (finalize_process).                     *)
THEOREM RecordIsExact == Spec => []ActiveIsExact
<1>1. Spec => [](Inv /\ RecordInv)
  BY Invariance, InitRecord, RecordInvStep, PTL DEF Spec
<1>2. ASSUME Inv, RecordInv PROVE ActiveIsReal
  <2>1. Inv1 /\ FreshInv
    BY <1>2 DEF Inv
  <2>2. ASSUME NEW i \in Instances, NEW r \in active[i]
        PROVE  \/ r \in running \/ r \in ghosts \/ \E g \in 1..gens : r \in Completed(g)
               \/ process[i] \in dead /\ sup[process[i]] \in {"on", "exit", "exitLocks"}
    <3>1. r \in Calls
      BY <2>1, Functions1
    <3>2. Real(i, r)
      BY <1>2, <3>1 DEF RecordInv, RealInv, Counted
    <3>3. ASSUME NEW g \in Gens, r \in Completed(g) PROVE g \in 1..gens
      BY <2>1, <3>1, <3>3, HeardEnd, GensNat
    <3> QED BY <3>2, <3>3 DEF Real, Due
  <2> QED BY <2>2 DEF ActiveIsReal
<1> QED BY <1>1, <1>2, RunningTurnsAreActive, PTL DEF ActiveIsExact
=============================================================================
