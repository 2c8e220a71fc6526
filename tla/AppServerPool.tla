----------------------------- MODULE AppServerPool -----------------------------
(***************************************************************************)
(* The pool of app-server clients (codex_app_server.rs): the registry, the *)
(* start of a process or of a connection to a daemon under the client's    *)
(* start lock, requests with their time-outs and the recovery after one,   *)
(* the supervisor that cleans up after a process, and those who take a     *)
(* process from a client: the eviction of idle clients, the replacement of *)
(* a client, a kill from the settings page, a start that finds it dead.    *)
(*                                                                         *)
(* A client is an instance: a key and a profile.  A generation is one      *)
(* process, or one connection to the instance's daemon; they are numbered  *)
(* over all instances.  A turn has the name of the call that starts it.    *)
(***************************************************************************)
EXTENDS Integers, FiniteSets, SequencesExt

CONSTANTS
  Calls,        \* requests of the gateway, each of them made once
  Instances,    \* clients: pairs of a key and a profile
  Keys, Key,    \* client keys, and the key of each instance
  None,         \* no instance, no call
  Modes,        \* "stdio", "handoff": what a start may end in
  Kinds,        \* "turn", "read": what a call asks for
  Faults, MaxFaults, \* bound: for each limit, "exit", "drop", "evict", "kill"; and how often
  MaxGens,      \* bound: starts
  Limits        \* values of max_processes

Gens == 1..MaxGens
Tasks == ({"call", "start"} \X Calls) \cup ({"evict", "kill", "retire"} \X Instances)
Call(r)  == <<"call", r>>
Start(r) == <<"start", r>>

ASSUME BoundsAssumption ==
  MaxGens \in Nat /\ MaxFaults \in Nat /\ Limits \subseteq Nat \ {0}
  /\ Faults \in [Limits -> SUBSET {"exit", "drop", "evict", "kill"}]
ASSUME KeyAssumption == Key \in [Instances -> Keys] /\ None \notin Instances \cup Calls
ASSUME ModesAssumption == Modes \subseteq {"stdio", "handoff"} /\ Kinds \subseteq {"turn", "read"}

VARIABLES
  limit,        \* max_processes
  registry,     \* AppServerManager::clients
  retired,      \* clients with the flag set
  process,      \* AppServerClientInner::process: a generation, 0 for None
  start_lock,   \* the call whose start holds the lock
  pending,      \* AppServerClientInner::pending: the generation each task waits on
  active,       \* AppServerClientInner::active_turn_ids
  pc, client, gen, \* of each task: where it is, its client and its generation
  kind,         \* of each call
  gens, mode, of, \* generations given out, their kind and their client
  up, dead,     \* connected; the process behind it is gone
  sup,          \* the supervisor of each generation
  slots,        \* generations that hold a permit of process_slots
  daemons,      \* instances whose persistent app-server runs
  inbox, lines, \* what a process has not handled, what a reader has not read
  running,      \* turns that run
  ready,        \* generations whose "initialize" was answered
  orphans,      \* history: clients retired while a start held their lock
  late,         \* history: tasks that wait on a generation after its requests were failed
  ghosts,       \* history: turns left in active_turn_ids in one of the races below
  told,         \* history: turns a client was told of
  cut,          \* history: turns known to a client when an eviction took its process
  faults        \* counter for the bound

callVars  == <<client, kind>>
linkVars  == <<limit, gens, mode, of>>
worldVars == <<up, dead, daemons, inbox, running>>
history   == <<orphans, late, ghosts, told, cut>>
vars == <<limit, registry, retired, process, start_lock, pending, active, pc, client, gen, kind, gens,
          mode, of, up, dead, sup, slots, daemons, inbox, lines, running, ready, orphans,
          late, ghosts, told, cut, faults>>

Lines == [kind : {"answer", "started", "completed"}, to : Tasks]
Line(k, t) == [kind |-> k, to |-> t]

TypeOK ==
  /\ limit \in Limits
  /\ registry \in [Keys -> Instances \cup {None}] /\ retired \subseteq Instances
  /\ process \in [Instances -> 0..MaxGens] /\ start_lock \in [Instances -> Calls \cup {None}]
  /\ pending \in [Tasks -> 0..MaxGens] /\ active \in [Instances -> SUBSET Calls]
  /\ pc \in [Tasks -> {"idle", "replaces", "got", "starts", "reads", "sends", "waits", "writes",
                       "answered", "recovers", "over", "locks", "spawns", "clears", "awaits", "ok",
                       "err", "takes", "fails", "kills", "joins", "stops"}]
  /\ client \in [Calls -> Instances \cup {None}] /\ gen \in [Tasks -> 0..MaxGens]
  /\ kind \in [Calls -> Kinds \cup {None}]
  /\ gens \in 0..MaxGens /\ mode \in [Gens -> Modes \cup {None}] /\ of \in [Gens -> Instances \cup {None}]
  /\ sup \in [Gens -> {"off", "on", "loss", "exit", "lossLocks", "exitLocks", "drain", "done"}]
  /\ up \subseteq Gens /\ dead \subseteq Gens /\ ready \subseteq Gens
  /\ slots \subseteq Gens /\ Cardinality(slots) <= limit
  /\ daemons \subseteq Instances /\ inbox \in [Gens -> SUBSET Tasks] /\ lines \in [Gens -> Seq(Lines)]
  /\ running \subseteq Calls /\ orphans \subseteq Instances /\ late \subseteq Tasks
  /\ ghosts \subseteq Calls /\ told \subseteq Calls /\ cut \subseteq Calls /\ faults \in 0..MaxFaults

Init ==
  /\ limit \in Limits
  /\ registry = [k \in Keys |-> None] /\ retired = {}
  /\ process = [i \in Instances |-> 0] /\ start_lock = [i \in Instances |-> None]
  /\ pending = [t \in Tasks |-> 0] /\ active = [i \in Instances |-> {}]
  /\ pc = [t \in Tasks |-> "idle"] /\ gen = [t \in Tasks |-> 0]
  /\ client = [r \in Calls |-> None] /\ kind = [r \in Calls |-> None]
  /\ gens = 0 /\ mode = [g \in Gens |-> None] /\ of = [g \in Gens |-> None]
  /\ sup = [g \in Gens |-> "off"] /\ up = {} /\ dead = {} /\ slots = {} /\ ready = {}
  /\ daemons = {} /\ inbox = [g \in Gens |-> {}] /\ lines = [g \in Gens |-> <<>>] /\ running = {}
  /\ orphans = {} /\ late = {} /\ ghosts = {} /\ told = {} /\ cut = {} /\ faults = 0

-------------------------------------------------------------------------------
(* The client a task works on, and what it is asked about.                   *)
ClientOf(t) == IF t[1] \in {"call", "start"} THEN client[t[2]] ELSE t[2]
Closing == {"takes", "fails", "kills", "joins"}
\* a call that holds its client's lifecycle for reading, a task that holds it for writing
Reader(i) == \E r \in Calls : client[r] = i /\ pc[Call(r)] \notin {"idle", "replaces", "got", "over"}
Writer(i) == pc[<<"evict", i>>] \in Closing \/ pc[<<"retire", i>>] \in Closing
Pending(i) == {t \in Tasks : ClientOf(t) = i /\ pending[t] # 0}
Live(i) == Pending(i) # {} \/ active[i] # {}
Usable(g) == g \notin dead /\ sup[g] # "done"
Shutdown(g) == \E t \in Tasks : gen[t] = g /\ pc[t] \in {"joins", "awaits"}
Handoff(i) == {g \in Gens \ dead : of[g] = i /\ mode[g] = "handoff"}
Completed(g) == {r \in Calls : Line("completed", Call(r)) \in ToSet(lines[g])}

\* the caller of a request is told that it failed
Failed(t) == IF t[1] = "start" THEN "takes" ELSE "over"
Failing(g) == [t \in Tasks |-> IF pending[t] = g /\ pc[t] = "waits" THEN Failed(t) ELSE pc[t]]
Without(g) == [t \in Tasks |-> IF pending[t] = g THEN 0 ELSE pending[t]]

\* the processes behind the generations G end
Ends(G) ==
  /\ dead' = dead \cup G /\ up' = up \ G
  /\ daemons' = daemons \ {of[g] : g \in {h \in G : mode[h] = "handoff"}}
  /\ inbox' = [g \in Gens |-> IF g \in G THEN {} ELSE inbox[g]]
  /\ running' = {r \in running : gen[Call(r)] \notin G}
  /\ ghosts' = ghosts \cup UNION {active[i] : i \in {j \in {of[g] : g \in G} :
                                       process[j] \notin G \/ sup[process[j]] # "on"}}
Behind(g) == IF mode[g] = "handoff" THEN Handoff(of[g]) ELSE {g}

LossOrExitBug(g) == IF mode[g] = "handoff" THEN "loss" ELSE "exit"

LossOrExit(g) == IF mode[g] = "handoff" /\ of[g] \in daemons THEN "loss" ELSE "exit"
\* a socket's reader stops with the supervisor: what it has not read is lost
Breaks(g, to) ==
  /\ sup' = [sup EXCEPT ![g] = to]
  /\ IF mode[g] = "handoff"
     THEN lines' = [lines EXCEPT ![g] = <<>>] /\ ghosts' = ghosts \cup Completed(g)
     ELSE UNCHANGED <<lines, ghosts>>

-------------------------------------------------------------------------------
(* The registry and the calls.                                               *)
Get(r, i) ==
  LET old == registry[Key[i]]
  IN  /\ pc[Call(r)] = "idle" /\ pc[<<"retire", i>>] = "idle"
      /\ IF old \in {i, None}
         THEN /\ pc' = [pc EXCEPT ![Call(r)] = "got"]
              /\ registry' = [registry EXCEPT ![Key[i]] = i]
              /\ client' = [client EXCEPT ![r] = i]
              /\ \E k \in Kinds : kind' = [kind EXCEPT ![r] = k]
         ELSE /\ pc' = [pc EXCEPT ![Call(r)] = "replaces", ![<<"retire", old>>] = "locks"]
              /\ registry' = [registry EXCEPT ![Key[i]] = None]
              /\ client' = [client EXCEPT ![r] = old]
              /\ UNCHANGED kind
      /\ UNCHANGED <<retired, process, start_lock, pending, active, gen, linkVars, worldVars, sup,
                     slots, lines, ready, history, faults>>

Replaced(r) ==
  /\ pc[Call(r)] = "replaces" /\ pc[<<"retire", client[r]>>] = "over"
  /\ pc' = [pc EXCEPT ![Call(r)] = "idle"] /\ client' = [client EXCEPT ![r] = None]
  /\ UNCHANGED <<registry, retired, process, start_lock, pending, active, gen, kind, linkVars,
                 worldVars, sup, slots, lines, ready, history, faults>>

rest == <<registry, retired, callVars, linkVars, ready, faults>>
Move(t, from, to) == pc[t] = from /\ pc' = [pc EXCEPT ![t] = to]

Enter(r) ==
  LET i == client[r]
  IN  /\ pc[Call(r)] = "got" /\ ~Writer(i)
      /\ pc' = IF i \in retired THEN [pc EXCEPT ![Call(r)] = "over"]
               ELSE [pc EXCEPT ![Call(r)] = "starts", ![Start(r)] = "locks"]
      /\ UNCHANGED <<rest, process, start_lock, pending, active, gen, worldVars, sup, slots, lines, history>>

\* the start answers, or a call with a deadline leaves it behind
Started(r) ==
  /\ pc[Call(r)] = "starts"
  /\ \/ pc[Start(r)] = "ok" /\ pc' = [pc EXCEPT ![Call(r)] = "reads"]
     \/ pc[Start(r)] = "err" /\ pc' = [pc EXCEPT ![Call(r)] = "over"]
     \/ kind[r] = "read" /\ pc' = [pc EXCEPT ![Call(r)] = "over"]
  /\ UNCHANGED <<rest, process, start_lock, pending, active, gen, worldVars, sup, slots, lines, history>>

-------------------------------------------------------------------------------
(* ensure_started                                                            *)
StartCheckBug(r) ==
  LET i == client[r]  t == Start(r)  g == process[i]
  IN  /\ pc[t] = "locks" /\ start_lock[i] = None
      /\ \/ /\ i \in retired /\ pc' = [pc EXCEPT ![t] = "err"]
            /\ UNCHANGED <<start_lock, process, gen, late, ghosts>>
         \/ /\ TRUE /\ g # 0 /\ Usable(g)
            /\ pc' = [pc EXCEPT ![t] = "ok"] /\ gen' = [gen EXCEPT ![t] = g]
            /\ UNCHANGED <<start_lock, process, late, ghosts>>
         \/ /\ TRUE /\ g # 0 /\ ~Usable(g)
            /\ pc' = [pc EXCEPT ![t] = "clears"] /\ gen' = [gen EXCEPT ![t] = g]
            /\ start_lock' = [start_lock EXCEPT ![i] = r]
            /\ process' = [process EXCEPT ![i] = 0]
            /\ late' = late \cup {x \in Tasks : pending[x] = g}
            /\ ghosts' = ghosts \cup active[i]
         \/ /\ TRUE /\ g = 0
            /\ pc' = [pc EXCEPT ![t] = "spawns"] /\ start_lock' = [start_lock EXCEPT ![i] = r]
            /\ UNCHANGED <<process, gen, late, ghosts>>
      /\ UNCHANGED <<rest, pending, active, worldVars, sup, slots, lines, orphans, told, cut>>

StartCheckFast(r) ==
  LET i == client[r]  t == Start(r)  g == process[i]
  IN  /\ pc[t] = "locks" /\ (start_lock[i] = None \/ (g # 0 /\ Usable(g)))
      /\ \/ /\ i \in retired /\ pc' = [pc EXCEPT ![t] = "err"]
            /\ UNCHANGED <<start_lock, process, gen, late, ghosts>>
         \/ /\ i \notin retired /\ g # 0 /\ Usable(g)
            /\ pc' = [pc EXCEPT ![t] = "ok"] /\ gen' = [gen EXCEPT ![t] = g]
            /\ UNCHANGED <<start_lock, process, late, ghosts>>
         \/ /\ i \notin retired /\ g # 0 /\ ~Usable(g)
            /\ pc' = [pc EXCEPT ![t] = "clears"] /\ gen' = [gen EXCEPT ![t] = g]
            /\ start_lock' = [start_lock EXCEPT ![i] = r]
            /\ process' = [process EXCEPT ![i] = 0]
            /\ late' = late \cup {x \in Tasks : pending[x] = g}
            /\ ghosts' = ghosts \cup active[i]
         \/ /\ i \notin retired /\ g = 0
            /\ pc' = [pc EXCEPT ![t] = "spawns"] /\ start_lock' = [start_lock EXCEPT ![i] = r]
            /\ UNCHANGED <<process, gen, late, ghosts>>
      /\ UNCHANGED <<rest, pending, active, worldVars, sup, slots, lines, orphans, told, cut>>

StartCheck(r) ==
  LET i == client[r]  t == Start(r)  g == process[i]
  IN  /\ pc[t] = "locks" /\ start_lock[i] = None
      /\ \/ /\ i \in retired /\ pc' = [pc EXCEPT ![t] = "err"]
            /\ UNCHANGED <<start_lock, process, gen, late, ghosts>>
         \/ /\ i \notin retired /\ g # 0 /\ Usable(g)
            /\ pc' = [pc EXCEPT ![t] = "ok"] /\ gen' = [gen EXCEPT ![t] = g]
            /\ UNCHANGED <<start_lock, process, late, ghosts>>
         \/ /\ i \notin retired /\ g # 0 /\ ~Usable(g)
            /\ pc' = [pc EXCEPT ![t] = "clears"] /\ gen' = [gen EXCEPT ![t] = g]
            /\ start_lock' = [start_lock EXCEPT ![i] = r]
            /\ process' = [process EXCEPT ![i] = 0]
            /\ late' = late \cup {x \in Tasks : pending[x] = g}
            /\ ghosts' = ghosts \cup active[i]
         \/ /\ i \notin retired /\ g = 0
            /\ pc' = [pc EXCEPT ![t] = "spawns"] /\ start_lock' = [start_lock EXCEPT ![i] = r]
            /\ UNCHANGED <<process, gen, late, ghosts>>
      /\ UNCHANGED <<rest, pending, active, worldVars, sup, slots, lines, orphans, told, cut>>

\* a daemon that runs is used again, or the start fails
Offers(i) == IF i \in daemons THEN {"handoff"} ELSE Modes

Opens(g, i, m) ==
  /\ gens' = g /\ mode' = [mode EXCEPT ![g] = m] /\ of' = [of EXCEPT ![g] = i]
  /\ daemons' = IF m = "handoff" THEN daemons \cup {i} ELSE daemons
  /\ up' = up \cup {g} /\ sup' = [sup EXCEPT ![g] = "on"]

SpawnBug(r) ==
  LET i == client[r]  t == Start(r)  g == gens + 1
  IN  /\ pc[t] = "spawns" /\ gens < MaxGens
      /\ \E m \in Offers(i) : Opens(g, i, m)
      /\ slots' = slots \cup {g} /\ process' = [process EXCEPT ![i] = g]
      /\ pc' = [pc EXCEPT ![t] = "reads"]
      /\ UNCHANGED <<limit, registry, retired, start_lock, pending, active, callVars, gen, dead, inbox,
                     lines, running, ready, history, faults>>

Spawn(r) ==
  LET i == client[r]  t == Start(r)  g == gens + 1
  IN  /\ pc[t] = "spawns" /\ gens < MaxGens /\ Cardinality(slots) < limit
      /\ \E m \in Offers(i) : Opens(g, i, m)
      /\ slots' = slots \cup {g} /\ process' = [process EXCEPT ![i] = g]
      /\ pc' = [pc EXCEPT ![t] = "reads"]
      /\ UNCHANGED <<limit, registry, retired, start_lock, pending, active, callVars, gen, dead, inbox,
                     lines, running, ready, history, faults>>

\* no permit in time, no process, or a daemon that does not answer
SpawnFails(r) ==
  /\ Move(Start(r), "spawns", "err")
  /\ start_lock' = [start_lock EXCEPT ![client[r]] = None]
  /\ UNCHANGED <<rest, process, pending, active, gen, worldVars, sup, slots, lines, history>>

\* "initialized" is written to the process there is
Initialized(r) ==
  LET i == client[r]  t == Start(r)  g == process[i]
  IN  /\ pc[t] = "answered"
      /\ IF g # 0 /\ g \in up
         THEN /\ pc' = [pc EXCEPT ![t] = "ok"] /\ start_lock' = [start_lock EXCEPT ![i] = None]
              /\ ready' = ready \cup {g} /\ gen' = [gen EXCEPT ![t] = g]
         ELSE pc' = [pc EXCEPT ![t] = "takes"] /\ UNCHANGED <<start_lock, ready, gen>>
      /\ UNCHANGED <<registry, retired, callVars, linkVars, faults, process, pending, active,
                     worldVars, sup, slots, lines, history>>

-------------------------------------------------------------------------------
(* request_started_with_timeout: of a call, and of the "initialize" of a start *)
ReadGeneration(t) ==
  LET g == process[ClientOf(t)]
  IN  /\ pc[t] = "reads"
      /\ IF g = 0 THEN pc' = [pc EXCEPT ![t] = Failed(t)] /\ UNCHANGED gen
         ELSE pc' = [pc EXCEPT ![t] = "sends"] /\ gen' = [gen EXCEPT ![t] = g]
      /\ UNCHANGED <<rest, process, start_lock, pending, active, worldVars, sup, slots, lines, history>>

\* the entry in `pending`, and the write
Send(t) ==
  LET g == gen[t]
      reaches == g \in up /\ (mode[g] = "handoff" => sup[g] = "on")
  IN  /\ pc[t] = "sends"
      /\ IF reaches
         THEN /\ pc' = [pc EXCEPT ![t] = "waits"] /\ pending' = [pending EXCEPT ![t] = g]
              /\ inbox' = [inbox EXCEPT ![g] = @ \cup {t}]
         ELSE IF mode[g] = "stdio" \/ sup[g] = "done"
         THEN pc' = [pc EXCEPT ![t] = Failed(t)] /\ UNCHANGED <<pending, inbox>>
         ELSE /\ pc' = [pc EXCEPT ![t] = "writes"] /\ pending' = [pending EXCEPT ![t] = g]
              /\ UNCHANGED inbox
      /\ late' = IF \E x \in Tasks : gen[x] = g /\ pc[x] \in {"kills", "joins"} THEN late \cup {t} ELSE late
      /\ UNCHANGED <<rest, process, start_lock, active, gen, up, dead, daemons, running, sup, slots,
                     lines, orphans, ghosts, told, cut>>

\* the queue of the socket is dropped with what waits in it
WriteFails(t) ==
  /\ Move(t, "writes", Failed(t)) /\ sup[gen[t]] = "done"
  /\ pending' = [pending EXCEPT ![t] = 0]
  /\ UNCHANGED <<rest, process, start_lock, active, gen, worldVars, sup, slots, lines, history>>

Timeout(t) ==
  /\ pc[t] \in {"waits", "writes"}
  /\ pending' = [pending EXCEPT ![t] = 0]
  /\ \/ pc' = [pc EXCEPT ![t] = Failed(t)]
     \/ /\ t[1] = "call" /\ kind[t[2]] = "read"
        /\ active[ClientOf(t)] = {} /\ Pending(ClientOf(t)) = {t}
        /\ pc' = [pc EXCEPT ![t] = "recovers"]
  /\ UNCHANGED <<rest, process, start_lock, active, gen, worldVars, sup, slots, lines, history>>

\* record_response_activity
Answered(r) ==
  /\ Move(Call(r), "answered", "over")
  /\ IF kind[r] = "turn"
     THEN /\ active' = [active EXCEPT ![client[r]] = @ \cup {r}]
          /\ ghosts' = IF r \notin running \/ process[client[r]] # gen[Call(r)] THEN ghosts \cup {r} ELSE ghosts
     ELSE UNCHANGED <<active, ghosts>>
  /\ UNCHANGED <<rest, process, start_lock, pending, gen, worldVars, sup, slots, lines, orphans, late, told, cut>>

-------------------------------------------------------------------------------
(* Those who take a process: fail its requests, end it, wait for the         *)
(* supervisor.  A taker that fails nothing is at "clears" and "awaits".      *)
Taken(t, g, to) ==
  /\ pc' = [pc EXCEPT ![t] = to] /\ gen' = [gen EXCEPT ![t] = g]
  /\ process' = [process EXCEPT ![of[g]] = 0]

Recover(r) ==
  LET t == Call(r)  i == client[r]
  IN  /\ pc[t] = "recovers"
      /\ IF process[i] = gen[t]
         THEN Taken(t, gen[t], "fails") /\ ghosts' = ghosts \cup active[i]
         ELSE pc' = [pc EXCEPT ![t] = "over"] /\ UNCHANGED <<gen, process, ghosts>>
      /\ UNCHANGED <<rest, start_lock, pending, active, worldVars, sup, slots, lines, orphans, late, told, cut>>

Kill(i) ==
  LET t == <<"kill", i>>  g == process[i]
  IN  /\ pc[t] = "idle" /\ "kill" \in Faults[limit] /\ faults < MaxFaults /\ registry[Key[i]] = i /\ g # 0
      /\ Taken(t, g, "fails") /\ ghosts' = ghosts \cup active[i] /\ faults' = faults + 1
      /\ UNCHANGED <<registry, retired, callVars, linkVars, ready, start_lock, pending, active,
                     worldVars, sup, slots, lines, orphans, late, told, cut>>

EvictChecksBug(i) ==
  LET t == <<"evict", i>>
  IN  /\ Move(t, "idle", "takes") /\ "evict" \in Faults[limit] /\ faults < MaxFaults
      /\ process[i] # 0 /\ Usable(process[i]) /\ ~Writer(i) /\ ~Live(i)
      /\ registry[Key[i]] = i
      /\ faults' = faults + 1
      /\ cut' = cut \cup {r \in running \cap told : gen[Call(r)] = process[i]}
      /\ UNCHANGED <<registry, retired, callVars, linkVars, ready, process, start_lock, pending,
                     active, gen, worldVars, sup, slots, lines, orphans, late, ghosts, told>>

EvictChecks(i) ==
  LET t == <<"evict", i>>
  IN  /\ Move(t, "idle", "takes") /\ "evict" \in Faults[limit] /\ faults < MaxFaults
      /\ process[i] # 0 /\ Usable(process[i]) /\ ~Reader(i) /\ ~Writer(i) /\ ~Live(i)
      /\ registry[Key[i]] = i
      /\ faults' = faults + 1
      /\ cut' = cut \cup {r \in running \cap told : gen[Call(r)] = process[i]}
      /\ UNCHANGED <<registry, retired, callVars, linkVars, ready, process, start_lock, pending,
                     active, gen, worldVars, sup, slots, lines, orphans, late, ghosts, told>>

RetireLocks(i) ==
  /\ Move(<<"retire", i>>, "locks", "takes") /\ ~Reader(i) /\ ~Writer(i)
  /\ retired' = retired \cup {i}
  /\ orphans' = IF start_lock[i] # None THEN orphans \cup {i} ELSE orphans
  /\ UNCHANGED <<registry, callVars, linkVars, ready, faults, process, start_lock, pending, active,
                 gen, worldVars, sup, slots, lines, late, ghosts, told, cut>>

\* where a task goes on after it has closed a process
After(t) == CASE t[1] = "call" -> "stops" [] t[1] = "start" -> "err"
              [] t[1] = "retire" -> "stops" [] OTHER -> "idle"
Unlocks(t) == start_lock' = IF t[1] = "start" THEN [start_lock EXCEPT ![client[t[2]]] = None] ELSE start_lock

\* close_process_on_controller, of an eviction, a replacement or a failed start
Take(t) ==
  LET i == ClientOf(t)  g == process[i]
  IN  /\ pc[t] = "takes"
      /\ IF g = 0 THEN pc' = [pc EXCEPT ![t] = After(t)] /\ Unlocks(t) /\ UNCHANGED <<gen, process>>
         ELSE Taken(t, g, "fails") /\ UNCHANGED start_lock
      /\ ghosts' = IF g # 0 THEN ghosts \cup active[i] ELSE ghosts
      /\ UNCHANGED <<rest, pending, active, worldVars, sup, slots, lines, orphans, late, told, cut>>

FailPendingBug(t) ==
  /\ pc[t] = "fails"
  /\ pc' = [pc EXCEPT ![t] = "kills"] /\ UNCHANGED pending
  /\ UNCHANGED <<rest, process, start_lock, active, gen, worldVars, sup, slots, lines, history>>

FailPending(t) ==
  /\ pc[t] = "fails"
  /\ pc' = [Failing(gen[t]) EXCEPT ![t] = "kills"] /\ pending' = Without(gen[t])
  /\ UNCHANGED <<rest, process, start_lock, active, gen, worldVars, sup, slots, lines, history>>

\* the end of the process or the connection, and the message to the supervisor
Terminate(t) ==
  LET g == gen[t]  spares == mode[g] = "handoff" /\ t[1] \in {"start", "evict", "retire"} /\ pc[t] = "kills"
  IN  /\ \/ Move(t, "kills", "joins") \/ Move(t, "clears", "awaits")
      /\ IF spares \/ g \in dead THEN UNCHANGED <<worldVars, ghosts>> ELSE Ends(Behind(g))
      /\ UNCHANGED <<rest, process, start_lock, pending, active, gen, sup, slots, lines, orphans, late, told, cut>>

\* the supervisor is over or is aborted, and the permit goes back
Join(t) ==
  LET g == gen[t]
  IN  /\ pc[t] \in {"joins", "awaits"}
      /\ pc' = [pc EXCEPT ![t] = IF @ = "awaits" THEN "spawns" ELSE After(t)]
      /\ Breaks(g, "done") /\ slots' = slots \ {g} /\ up' = up \ {g}
      /\ IF pc[t] = "joins" THEN Unlocks(t) ELSE UNCHANGED start_lock
      /\ UNCHANGED <<rest, process, pending, active, gen, dead, daemons, inbox, running, orphans, late, told, cut>>

\* stop_handoff_server
StopDaemon(t) ==
  LET i == ClientOf(t)
  IN  /\ Move(t, "stops", "over")
      /\ IF i \in daemons /\ (t[1] = "retire" \/ mode[gen[t]] = "handoff") THEN Ends(Handoff(i))
         ELSE UNCHANGED <<worldVars, ghosts>>
      /\ UNCHANGED <<rest, process, start_lock, pending, active, gen, sup, slots, lines, orphans, late, told, cut>>

-------------------------------------------------------------------------------
(* The supervisor of a generation, and its reader.                           *)
Notice(g) ==
  /\ sup[g] = "on" /\ g \notin up
  /\ Breaks(g, LossOrExit(g))
  /\ UNCHANGED <<rest, process, start_lock, pending, active, pc, gen, worldVars, slots, orphans, late, told, cut>>

\* the failure of a write tells it
NoticeWrite(t) ==
  LET g == gen[t]
  IN  /\ Move(t, "writes", Failed(t)) /\ sup[g] = "on"
      /\ pending' = [pending EXCEPT ![t] = 0] /\ Breaks(g, LossOrExit(g))
      /\ UNCHANGED <<rest, process, start_lock, active, gen, worldVars, slots, orphans, late, told, cut>>

ShutsDown(g) ==
  /\ sup[g] = "on" /\ Shutdown(g)
  /\ Breaks(g, IF mode[g] = "handoff" THEN "done" ELSE "drain")
  /\ up' = up \ {g}
  /\ UNCHANGED <<rest, process, start_lock, pending, active, pc, gen, dead, daemons, inbox, running,
                 slots, orphans, late, told, cut>>

FailFirstBug(g) ==
  /\ sup[g] \in {"loss", "exit"} /\ start_lock[of[g]] # None
  /\ sup' = [sup EXCEPT ![g] = IF @ = "loss" THEN "lossLocks" ELSE "exitLocks"]
  /\ UNCHANGED <<pc, pending>>
  /\ UNCHANGED <<rest, process, start_lock, active, gen, worldVars, slots, lines, history>>

\* somebody starts the client: fail the requests first, so that the start may end
FailFirst(g) ==
  /\ sup[g] \in {"loss", "exit"} /\ start_lock[of[g]] # None
  /\ sup' = [sup EXCEPT ![g] = IF @ = "loss" THEN "lossLocks" ELSE "exitLocks"]
  /\ pc' = Failing(g) /\ pending' = Without(g)
  /\ UNCHANGED <<rest, process, start_lock, active, gen, worldVars, slots, lines, history>>

Finalize(g) ==
  LET i == of[g]  current == process[i] = g
  IN  /\ sup[g] \in {"loss", "exit", "lossLocks", "exitLocks"} /\ start_lock[i] = None
      /\ sup' = [sup EXCEPT ![g] = IF mode[g] = "stdio" THEN "drain" ELSE "done"]
      /\ IF sup[g] \in {"loss", "exit"} THEN pc' = Failing(g) /\ pending' = Without(g)
         ELSE UNCHANGED <<pc, pending>>
      /\ IF current THEN process' = [process EXCEPT ![i] = 0] /\ slots' = slots \ {g}
         ELSE UNCHANGED <<process, slots>>
      /\ active' = IF current /\ sup[g] \in {"exit", "exitLocks"} THEN [active EXCEPT ![i] = {}] ELSE active
      /\ UNCHANGED <<rest, start_lock, gen, worldVars, lines, history>>

\* finish_reader_task: what is not read within a second is dropped
Drained(g) ==
  /\ sup[g] = "drain"
  /\ sup' = [sup EXCEPT ![g] = "done"] /\ lines' = [lines EXCEPT ![g] = <<>>]
  /\ ghosts' = ghosts \cup Completed(g)
  /\ UNCHANGED <<rest, process, start_lock, pending, active, pc, gen, worldVars, slots, orphans, late, told, cut>>

\* handle_incoming_message
ReadLine(g) ==
  LET l == Head(lines[g])  t == l.to  r == t[2]  i == of[g]
  IN  /\ lines[g] # <<>> /\ (mode[g] = "handoff" => sup[g] = "on")
      /\ lines' = [lines EXCEPT ![g] = Tail(@)]
      /\ IF l.kind = "answer" /\ pending[t] # 0
         THEN pending' = [pending EXCEPT ![t] = 0] /\ pc' = [pc EXCEPT ![t] = "answered"]
         ELSE UNCHANGED <<pending, pc>>
      /\ active' = CASE l.kind = "started" -> [active EXCEPT ![i] = @ \cup {r}]
                     [] l.kind = "completed" -> [active EXCEPT ![i] = @ \ {r}]
                     [] OTHER -> active
      /\ told' = IF l.kind = "started" \/ (l.kind = "answer" /\ t[1] = "call" /\ pending[t] # 0)
                 THEN told \cup {r} ELSE told
      /\ ghosts' = IF l.kind = "started" /\ process[i] # g THEN ghosts \cup {r} ELSE ghosts
      /\ UNCHANGED <<rest, process, start_lock, gen, worldVars, sup, slots, orphans, late, cut>>

-------------------------------------------------------------------------------
(* codex app-server.                                                         *)
Says(g, ls) == lines' = IF g \in up THEN [lines EXCEPT ![g] = @ \o ls] ELSE lines

Accept(g, t) ==
  /\ t \in inbox[g]
  /\ inbox' = [inbox EXCEPT ![g] = @ \ {t}]
  /\ IF t[1] = "call" /\ kind[t[2]] = "turn"
     THEN running' = running \cup {t[2]} /\ Says(g, <<Line("answer", t), Line("started", t)>>)
     ELSE Says(g, <<Line("answer", t)>>) /\ UNCHANGED running
  /\ UNCHANGED <<rest, process, start_lock, pending, active, pc, gen, up, dead, daemons, sup, slots, history>>

\* the end of a turn is heard on its connection; when that is lost, on a later one or by nobody
Completes(r) ==
  LET g == gen[Call(r)]  hears == IF g \in up THEN {g} ELSE {h \in up \cap Handoff(of[g]) : h > g}
  IN  /\ r \in running /\ running' = running \ {r}
      /\ \/ \E h \in hears : Says(h, <<Line("completed", Call(r))>>) /\ UNCHANGED ghosts
         \/ g \notin up /\ ghosts' = ghosts \cup {r} /\ UNCHANGED lines
      /\ UNCHANGED <<rest, process, start_lock, pending, active, pc, gen, up, dead, daemons, inbox,
                     sup, slots, orphans, late, told, cut>>

\* the process ends by itself; the connection of a daemon breaks
Exits(g) ==
  /\ "exit" \in Faults[limit] /\ faults < MaxFaults /\ faults' = faults + 1
  /\ g \in up /\ Ends(Behind(g))
  /\ UNCHANGED <<registry, retired, callVars, linkVars, ready, process, start_lock, pending, active,
                 pc, gen, sup, slots, lines, orphans, late, told, cut>>

Drops(g) ==
  /\ "drop" \in Faults[limit] /\ faults < MaxFaults /\ faults' = faults + 1
  /\ g \in up /\ mode[g] = "handoff" /\ up' = up \ {g}
  /\ UNCHANGED <<registry, retired, callVars, linkVars, ready, process, start_lock, pending, active,
                 pc, gen, dead, daemons, inbox, running, sup, slots, lines, history>>

Next ==
  \/ \E r \in Calls : \/ Replaced(r) \/ Enter(r) \/ Started(r)
                      \/ StartCheck(r) \/ Spawn(r) \/ SpawnFails(r) \/ Initialized(r)
                      \/ Answered(r) \/ Recover(r) \/ Completes(r)
  \/ \E r \in Calls, i \in Instances : Get(r, i)
  \/ \E t \in Tasks : \/ ReadGeneration(t) \/ Send(t) \/ WriteFails(t) \/ NoticeWrite(t) \/ Timeout(t)
                      \/ Take(t) \/ FailPending(t) \/ Terminate(t) \/ Join(t) \/ StopDaemon(t)
  \/ \E i \in Instances : Kill(i) \/ EvictChecks(i) \/ RetireLocks(i)
  \/ \E g \in 1..gens : \/ Notice(g) \/ ShutsDown(g) \/ FailFirst(g) \/ Finalize(g) \/ Drained(g)
                        \/ ReadLine(g) \/ Exits(g) \/ Drops(g) \/ \E t \in Tasks : Accept(g, t)

Spec == Init /\ [][Next]_vars

-------------------------------------------------------------------------------
(* Processes and permits.  What runs is counted, and what is counted belongs *)
(* to a client of the registry or to a task that is about to end it.  The    *)
(* exception is a start that outlived its caller and finished on a client    *)
(* replaced meanwhile: its process keeps a permit that no eviction returns.  *)
SlotsHaveOwners ==
  /\ up \subseteq slots
  /\ \A g \in slots : LET i == of[g] IN
       \/ process[i] = g /\ (i \in retired /\ pc[<<"retire", i>>] # "takes" => i \in orphans)
       \/ \E t \in Tasks : gen[t] = g /\ pc[t] \in {"fails", "kills", "joins", "clears", "awaits"}

(* A request to a process that is gone, whose answer was not received, is    *)
(* failed by the supervisor or by the task that took the process: it does    *)
(* not sit out its time-out.  Not so when it was made after that task had    *)
(* failed the requests, or when a start found the process dead and ended the *)
(* supervisor without failing anything.                                      *)
WaitIsEnded ==
  \A t \in Tasks : LET g == pending[t] IN
    pc[t] = "waits" /\ g \in dead /\ Line("answer", t) \notin ToSet(lines[g]) =>
      \/ sup[g] \in {"on", "loss", "exit"}
      \/ \E x \in Tasks : gen[x] = g /\ pc[x] = "fails"
      \/ t \in late

(* A call reaches a process only after the handshake: the generation its     *)
(* start found or made was initialized.  A call that finds a newer one when  *)
(* it reads the generation may overtake that one's "initialize".             *)
InitializedFirst ==
  \A r \in Calls : pc[Call(r)] = "waits" => gen[Call(r)] \in ready \/ gen[Start(r)] # gen[Call(r)]

(* A start and the supervisor of the process it started never wait for each  *)
(* other: the one for the answer to "initialize", the other for the start    *)
(* lock.  A write that sits in the queue of a broken socket is not helped.   *)
NoMutualWait ==
  \A g \in 1..gens, r \in Calls :
    sup[g] \in {"lossLocks", "exitLocks"} /\ pending[Start(r)] = g => pc[Start(r)] = "writes"

(* An eviction picks no process with a turn the client has been told of,     *)
(* be it by the answer to a call that has not returned yet.                  *)
EvictionSparesTurns == cut = {}

(* The clean-up after an old generation leaves the newer one alone: a turn   *)
(* that runs on the current connection and that the client was told of is in *)
(* its active_turn_ids.                                                      *)
RunningIsActive ==
  \A r \in running \cap told : LET g == gen[Call(r)] IN
    process[of[g]] = g /\ g \in up /\ pc[Call(r)] # "answered" => r \in active[of[g]]

(* What the client counts as live work is: a turn in active_turn_ids runs,   *)
(* or its end is not read yet, or the clean-up after its process is due.     *)
(* Except for `ghosts`: turns recorded after their end or after a clean-up,  *)
(* or left when a process was taken without one, or whose end nobody heard.  *)
(* A ghost keeps its client from eviction.                                   *)
ActiveIsReal ==
  \A i \in Instances \ retired : \A r \in active[i] :
    \/ r \in running \/ r \in ghosts \/ \E g \in 1..gens : r \in Completed(g)
    \/ process[i] \in dead /\ sup[process[i]] \in {"on", "exit", "exitLocks"}

(* The client's record of its turns is exact, but for ghosts.                *)
ActiveIsExact == RunningIsActive /\ ActiveIsReal
=============================================================================
