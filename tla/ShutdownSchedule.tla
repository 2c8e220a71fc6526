--------------------------- MODULE ShutdownSchedule ---------------------------
(***************************************************************************)
(* "Shutdown after queue completes" (shutdown_queue_support.rs): a profile *)
(* whose users have armed it is shut down a while after its last queue and *)
(* its last turn are done, and new work calls the shutdown off.            *)
(*                                                                         *)
(* A plan is a value of scheduledShutdown, known by its number; plans are  *)
(* made, and come due, in the order of their numbers.  A timer is the task *)
(* that executes a plan: `armed' is the one in shutdown_timers, `loose'    *)
(* are those whose handle was dropped, which go on sleeping.               *)
(*                                                                         *)
(* The processes are the monitor of notifications, a drain for each        *)
(* session, users, and the restoration at a start.  Two subroutines matter *)
(* here, maybe_schedule_global_shutdown and cancel_scheduled_shutdown_for_ *)
(* activity; a step lasts from one await to the next, and what a request   *)
(* has begun it may leave half done at each of them.  Queues and turns are *)
(* no more than what the two look at: TurnLifecycle and QueueDispatch have *)
(* the rest.                                                               *)
(***************************************************************************)
EXTENDS Naturals, SequencesExt

CONSTANTS Sessions, Users, None,
          Ops,        \* "send", "enqueue", "remove", "resume", "arm", "disarm", "force"
          Faults,     \* "crash", "list", "check", "reject", "command", "drop", "read", "write"
          MaxOps,     \* what users do
          MaxPlans,   \* plans made
          MaxFaults

ASSUME ShutdownConstants ==
  /\ Users \cap Sessions = {} /\ {"monitor", "restore", None} \cap (Users \cup Sessions) = {}
  /\ None \notin {"monitor", "restore"}
  /\ Ops \subseteq {"send", "enqueue", "remove", "resume", "arm", "disarm", "force"}
  /\ Faults \subseteq {"crash", "list", "check", "reject", "command", "drop", "read", "write"}
  /\ MaxOps \in Nat /\ MaxPlans \in Nat /\ MaxFaults \in Nat

Plans    == 1..MaxPlans
PlanOrNo == 0..MaxPlans
Procs    == {"monitor", "restore"} \cup Users \cup Sessions    \* a session stands for its drain

VARIABLES
  after, primed, plan,     \* on disk: shutdownAfterQueueCompletes, its Primed, scheduledShutdown
  queued, paused,          \* on disk: the sessions with items, those with resumePending
  running,                 \* app-server: the sessions with a live turn
  notes,                   \* notifications the monitor has not handled
  active,                  \* active_turns
  lock,                    \* session_operation_locks
  wake,                    \* the sessions with a drain spawned or set on a timer
  armed, loose, firing,    \* timers: in shutdown_timers, dropped, executing
  pc, job,                 \* where a process is, and what it knows
  plans, now,              \* the plans made, and those whose time has come
  shut,                    \* the command was run
  late, stalled,           \* history
  ops, faults

disk   == <<after, primed, plan, queued, paused>>
work   == <<running, notes, active>>
timers == <<armed, loose, firing>>
time   == <<plans, now>>
vars   == <<disk, work, lock, wake, timers, pc, job, time, shut, late, stalled, ops, faults>>

\* Between its look at the work and its write, a scheduler relies on what it saw;
\* until it puts the handle of its timer there, nobody else knows of the timer.
Trusting == {"turns", "threads", "write"}
Making   == {"stop", "start"}
Steps    == {"idle", "cancel", "prime", "clear", "null", "settings", "work", "ask", "answer", "sent",
             "queueing", "probe", "survey", "arm", "mark", "look", "forget", "judge", "reprime",
             "unprime", "erase", "command", "leave"} \cup Trusting \cup Making

Goals == {"none", "send", "enqueue", "started", "completed", "drain", "dispatch", "remove",
          "arm", "disarm", "restore", "force"}

\* What the users asked for, as far as a restoration knows.
Wishes == {"off", "armed", "primed"}
NoJob  == [goal |-> "none", on |-> None, plan |-> 0, seen |-> FALSE, over |-> FALSE, wish |-> "off"]

Notes == {"started", "completed"} \X Sessions

TypeOK ==
  /\ after \in BOOLEAN /\ primed \in BOOLEAN /\ plan \in PlanOrNo
  /\ queued \subseteq Sessions /\ paused \subseteq Sessions
  /\ running \subseteq Sessions /\ active \subseteq Sessions /\ notes \in Seq(Notes)
  /\ lock \in [Sessions -> Procs \cup {None}] /\ wake \subseteq Sessions
  /\ armed \in PlanOrNo /\ loose \subseteq Plans
  /\ firing \in [Plans -> {"no", "woken", "erased", "ran"}]
  /\ pc \in [Procs -> Steps]
  /\ job \in [Procs -> [goal : Goals, on : Sessions \cup {None}, plan : PlanOrNo,
                        seen : BOOLEAN, over : BOOLEAN, wish : Wishes]]
  /\ plans \in PlanOrNo /\ now \in 0..plans /\ shut \in BOOLEAN
  /\ late \subseteq Plans /\ stalled \in BOOLEAN
  /\ ops \in 0..MaxOps /\ faults \in 0..MaxFaults

Init ==
  /\ after \in BOOLEAN /\ primed = FALSE /\ plan = 0
  /\ queued = {} /\ paused = {}
  /\ running = {} /\ notes = <<>> /\ active = {}
  /\ lock = [s \in Sessions |-> None] /\ wake = {}
  /\ armed = 0 /\ loose = {} /\ firing = [k \in Plans |-> "no"]
  /\ pc = [p \in Procs |-> "idle"] /\ job = [p \in Procs |-> NoJob]
  /\ plans = 0 /\ now = 0 /\ shut = FALSE
  /\ late = {} /\ stalled = FALSE
  /\ ops = 0 /\ faults = 0

-------------------------------------------------------------------------------
Future  == plan > now
Timer   == {armed} \ {0}
Fired   == {k \in Plans : firing[k] # "no"}
Half    == {job[p].plan : p \in {q \in Procs : pc[q] \in Making \cup {"judge", "reprime"}}} \ {0}
Calling == \E p \in Procs : pc[p] = "clear" \/ (pc[p] = "prime" /\ job[p].seen)

(* The plans in `late' are those no call-off reached.  They are made on what a *)
(* scheduler saw before the work came, are known to somebody who has yet to    *)
(* record their timer when they are called off, have a timer whose handle was  *)
(* dropped or whose plan was erased by somebody else, come due during the      *)
(* call-off, or are called off by a disarm that stops half-way.                *)

\* A call that is over is forgotten; the monitor still has a lock to release.
Goes(p, step) ==
  IF step = "leave" /\ p # "monitor"
  THEN pc' = [pc EXCEPT ![p] = "idle"] /\ job' = [job EXCEPT ![p] = NoJob]
  ELSE pc' = [pc EXCEPT ![p] = step] /\ UNCHANGED job
Begins(p, step, goal, s) ==
  /\ pc' = [pc EXCEPT ![p] = step]
  /\ job' = [job EXCEPT ![p] = [NoJob EXCEPT !.goal = goal, !.on = s]]
Fault(f) == f \in Faults /\ faults < MaxFaults /\ faults' = faults + 1

\* What a process does when it has called off.
Then(g) == CASE g \in {"send", "dispatch"} -> "ask"
             [] g = "enqueue" -> "queueing"
             [] OTHER -> "leave"

\* Work appears, or the users change their mind, behind the back of a scheduler
\* that has looked already: the plan it makes comes late.
Overtaken(p, trusting) ==
  [q \in Procs |-> IF pc[q] \in trusting /\ q # p THEN [job[q] EXCEPT !.over = TRUE] ELSE job[q]]

\* Both handlers release the session's lock; turn/completed asks for a drain.
Leave ==
  LET s == job["monitor"].on
  IN  /\ pc["monitor"] = "leave"
      /\ pc' = [pc EXCEPT !["monitor"] = "idle"] /\ job' = [job EXCEPT !["monitor"] = NoJob]
      /\ lock' = [lock EXCEPT ![s] = None]
      /\ wake' = IF job["monitor"].goal = "completed" THEN wake \cup {s} ELSE wake
      /\ UNCHANGED <<disk, work, timers, time, shut, late, stalled, ops, faults>>

-------------------------------------------------------------------------------
(* cancel_scheduled_shutdown_for_activity, with clear_scheduled_shutdown.    *)

Cancel(p) ==
  LET prime == after /\ ~primed
      next  == IF prime THEN "prime" ELSE IF plan # 0 THEN "clear" ELSE Then(job[p].goal)
  IN  /\ pc[p] = "cancel"
      /\ pc' = [pc EXCEPT ![p] = next]
      /\ job' = [Overtaken(p, Trusting) EXCEPT ![p].seen = prime /\ plan # 0]
      /\ late' = late \cup Half \cup Fired
      /\ UNCHANGED <<disk, work, lock, wake, timers, time, shut, stalled, ops, faults>>

Prime(p) ==
  LET next == IF job[p].seen THEN "clear" ELSE Then(job[p].goal)
  IN  /\ pc[p] = "prime"
      /\ primed' = TRUE
      /\ pc' = [pc EXCEPT ![p] = next] /\ job' = [job EXCEPT ![p].seen = FALSE]
      /\ UNCHANGED <<after, plan, queued, paused, work, lock, wake, timers, time, shut, late,
                     stalled, ops, faults>>

ClearBug(p) ==
  /\ pc[p] = "clear"
  /\ Goes(p, "null")
  /\ UNCHANGED <<disk, work, lock, wake, armed, loose, firing, time, shut, late, stalled, ops, faults>>

Clear(p) ==
  /\ pc[p] = "clear"
  /\ armed' = 0 /\ Goes(p, "null")
  /\ UNCHANGED <<disk, work, lock, wake, loose, firing, time, shut, late, stalled, ops, faults>>

Null(p) ==
  /\ pc[p] = "null"
  /\ plan' = 0 /\ late' = late \cup Half
  /\ Goes(p, Then(job[p].goal))
  /\ UNCHANGED <<after, primed, queued, paused, work, lock, wake, timers, time, shut, stalled, ops,
                 faults>>

-------------------------------------------------------------------------------
(* maybe_schedule_global_shutdown, with arm_scheduled_shutdown.              *)

Settings(p) ==
  /\ pc[p] = "settings"
  /\ \/ /\ IF after /\ primed /\ Future
           THEN pc' = [pc EXCEPT ![p] = "stop"] /\ job' = [job EXCEPT ![p].plan = plan]
           ELSE Goes(p, IF after /\ primed THEN "work" ELSE "leave")
        /\ UNCHANGED <<stalled, faults>>
     \/ /\ Fault("check") /\ Goes(p, "leave") /\ stalled' = TRUE
  /\ UNCHANGED <<disk, work, lock, wake, timers, time, shut, late, ops>>

Work(p) ==
  /\ pc[p] = "work"
  /\ Goes(p, IF queued # {} THEN "leave" ELSE "turns")
  /\ UNCHANGED <<disk, work, lock, wake, timers, time, shut, late, stalled, ops, faults>>

Turns(p) ==
  /\ pc[p] = "turns"
  /\ Goes(p, IF active # {} THEN "leave" ELSE "threads")
  /\ UNCHANGED <<disk, work, lock, wake, timers, time, shut, late, stalled, ops, faults>>

Threads(p) ==
  /\ pc[p] = "threads"
  /\ \/ /\ Goes(p, IF running # {} \/ plans = MaxPlans THEN "leave" ELSE "write")
        /\ stalled' = (stalled \/ plans = MaxPlans)
        /\ UNCHANGED faults
     \/ /\ Fault("list") /\ Goes(p, "leave") /\ stalled' = TRUE
  /\ UNCHANGED <<disk, work, lock, wake, timers, time, shut, late, ops>>

\* A write that fails has changed what the gateway goes by (ui_state_support.rs:673).
Write(p) ==
  /\ pc[p] = "write"
  /\ IF plans = MaxPlans
     THEN Goes(p, "leave") /\ stalled' = TRUE /\ UNCHANGED <<plan, plans, late, faults>>
     ELSE /\ plans' = plans + 1 /\ plan' = plans + 1
          /\ late' = IF job[p].over THEN late \cup {plans + 1} ELSE late
          /\ \/ /\ pc' = [pc EXCEPT ![p] = "stop"] /\ job' = [job EXCEPT ![p].plan = plans + 1]
                /\ UNCHANGED <<stalled, faults>>
             \/ Fault("write") /\ Goes(p, "leave") /\ stalled' = TRUE
  /\ UNCHANGED <<after, primed, queued, paused, work, lock, wake, timers, now, shut, ops>>

\* The old timer is aborted, the new one spawned.
Stop(p) ==
  /\ pc[p] = "stop"
  /\ armed' = 0 /\ Goes(p, "start")
  /\ UNCHANGED <<disk, work, lock, wake, loose, firing, time, shut, late, stalled, ops, faults>>

\* The handle of a timer that was put there in between is dropped.  One put there
\* between a cancel's abort and its write outlives its plan.
Start(p) ==
  /\ pc[p] = "start"
  /\ armed' = job[p].plan /\ loose' = loose \cup Timer
  /\ late' = late \cup Timer \cup (IF \E q \in Procs : pc[q] = "null" THEN {job[p].plan} ELSE {})
  /\ Goes(p, "leave")
  /\ UNCHANGED <<disk, work, lock, wake, firing, time, shut, stalled, ops, faults>>

-------------------------------------------------------------------------------
(* execute_scheduled_shutdown, by a timer or by force.                       *)

Tick ==
  /\ now < plans /\ now' = now + 1
  /\ UNCHANGED <<disk, work, lock, wake, timers, pc, job, plans, shut, late, stalled, ops, faults>>

\* The timer takes the handle out of shutdown_timers, be it its own or not.
Wake(k) ==
  /\ k <= now /\ firing[k] = "no"
  /\ firing' = [firing EXCEPT ![k] = "woken"]
  /\ armed' = 0
  /\ \/ armed = k /\ UNCHANGED loose
        /\ late' = IF Calling THEN late \cup {k} ELSE late
     \/ k \in loose /\ loose' = (loose \ {k}) \cup Timer /\ late' = late \cup Timer
  /\ UNCHANGED <<disk, work, lock, wake, pc, job, time, shut, stalled, ops, faults>>

Erase(k) ==
  /\ firing[k] = "woken"
  /\ firing' = [firing EXCEPT ![k] = "erased"]
  /\ plan' = 0 /\ late' = late \cup Timer \cup Half
  /\ UNCHANGED <<after, primed, queued, paused, work, lock, wake, armed, loose, pc, job, time, shut,
                 stalled, ops, faults>>

Execute(k) ==
  /\ firing[k] = "erased"
  /\ \/ /\ firing' = [firing EXCEPT ![k] = "ran"] /\ shut' = TRUE
        /\ UNCHANGED <<stalled, faults>>
     \/ /\ Fault("command") /\ firing' = [firing EXCEPT ![k] = "no"] /\ stalled' = TRUE
        /\ UNCHANGED shut
  /\ UNCHANGED <<disk, work, lock, wake, armed, loose, pc, job, time, late, ops>>

ForceErases(u) ==
  /\ pc[u] = "erase"
  /\ plan' = 0 /\ late' = late \cup Timer \cup Half /\ Goes(u, "command")
  /\ UNCHANGED <<after, primed, queued, paused, work, lock, wake, timers, time, shut, stalled, ops,
                 faults>>

ForceExecutes(u) ==
  /\ pc[u] = "command"
  /\ Goes(u, "leave")
  /\ \/ shut' = TRUE /\ UNCHANGED <<stalled, faults>>
     \/ Fault("command") /\ stalled' = TRUE /\ UNCHANGED shut
  /\ UNCHANGED <<disk, work, lock, wake, timers, time, late, ops>>

-------------------------------------------------------------------------------
(* Turns.                                                                    *)

\* send_turn_payload, up to the call that cancels.
Sends(p, s, goal) ==
  /\ lock[s] = None /\ lock' = [lock EXCEPT ![s] = p]
  /\ active' = active \ {s}
  /\ Begins(p, "cancel", goal, s)

Ask(p) ==
  LET s == job[p].on
  IN  /\ pc[p] = "ask"
      /\ \/ /\ running' = running \cup {s}
            /\ notes' = IF s \in running THEN notes ELSE Append(notes, <<"started", s>>)
            /\ Goes(p, "answer")
            /\ UNCHANGED <<lock, wake, paused, stalled, faults>>
         \/ /\ Fault("reject") /\ Goes(p, "leave")
            /\ lock' = [lock EXCEPT ![s] = None]
            /\ IF job[p].goal = "send" THEN stalled' = TRUE /\ UNCHANGED <<paused, wake>>
               ELSE /\ \/ paused' = paused \cup {s} /\ UNCHANGED wake
                       \/ wake' = wake \cup {s} /\ UNCHANGED paused
                    /\ UNCHANGED stalled
            /\ UNCHANGED <<running, notes>>
      /\ UNCHANGED <<after, primed, plan, queued, active, timers, time, shut, late, ops>>

AnsweredBug(p) ==
  LET s == job[p].on
  IN  /\ pc[p] = "answer"
      /\ active' = active \cup {p} /\ lock' = [lock EXCEPT ![s] = None]
      /\ Goes(p, IF job[p].goal = "send" THEN "leave" ELSE "sent")
      /\ UNCHANGED <<disk, running, notes, wake, timers, time, shut, late, stalled, ops, faults>>

Answered(p) ==
  LET s == job[p].on
  IN  /\ pc[p] = "answer"
      /\ active' = active \cup {s} /\ lock' = [lock EXCEPT ![s] = None]
      /\ Goes(p, IF job[p].goal = "send" THEN "leave" ELSE "sent")
      /\ UNCHANGED <<disk, running, notes, wake, timers, time, shut, late, stalled, ops, faults>>

EndTurn(s) ==
  /\ s \in running /\ running' = running \ {s}
  /\ notes' = Append(notes, <<"completed", s>>)
  /\ UNCHANGED <<disk, active, lock, wake, timers, pc, job, time, shut, late, stalled, ops, faults>>

\* handle_session_notification holds the session's lock to its end.
HandleStarted ==
  LET s == Head(notes)[2]
  IN  /\ pc["monitor"] = "idle" /\ notes # <<>> /\ Head(notes)[1] = "started" /\ lock[s] = None
      /\ notes' = Tail(notes) /\ lock' = [lock EXCEPT ![s] = "monitor"]
      /\ active' = active \cup {s}
      /\ Begins("monitor", "cancel", "started", s)
      /\ UNCHANGED <<disk, running, wake, timers, time, shut, late, stalled, ops, faults>>

\* A turn that another has followed leaves nothing to do.
HandleCompleted ==
  LET s     == Head(notes)[2]
      newer == <<"started", s>> \in Range(Tail(notes))
  IN  /\ pc["monitor"] = "idle" /\ notes # <<>> /\ Head(notes)[1] = "completed" /\ lock[s] = None
      /\ notes' = Tail(notes)
      /\ IF newer THEN UNCHANGED <<lock, active, pc, job>>
         ELSE /\ lock' = [lock EXCEPT ![s] = "monitor"] /\ active' = active \ {s}
              /\ Begins("monitor", "settings", "completed", s)
      /\ UNCHANGED <<disk, running, wake, timers, time, shut, late, stalled, ops, faults>>

-------------------------------------------------------------------------------
(* Queues.                                                                   *)

\* The item is written after the cancel; a plan made in between stays.  A request that
\* is dropped after the write asks for no drain.
Queueing(u) ==
  /\ pc[u] = "queueing"
  /\ queued' = queued \cup {job[u].on}
  /\ \/ wake' = wake \cup {job[u].on} /\ UNCHANGED faults
     \/ Fault("drop") /\ UNCHANGED wake
  /\ pc' = [pc EXCEPT ![u] = "idle"] /\ job' = [Overtaken(u, Trusting) EXCEPT ![u] = NoJob]
  /\ late' = late \cup Timer \cup ({plan} \ {0}) \cup Half \cup Fired
  /\ UNCHANGED <<after, primed, plan, paused, work, lock, timers, time, shut, stalled, ops>>

\* A drain tries again later while the session has a turn; one that cannot read the
\* queue is over.
Drain(s) ==
  /\ pc[s] = "idle" /\ s \in wake \ active /\ wake' = wake \ {s}
  /\ \/ /\ IF s \notin queued THEN Begins(s, "settings", "drain", s)
           ELSE IF s \in paused THEN UNCHANGED <<pc, job>>
           ELSE Begins(s, "probe", "drain", s)
        /\ UNCHANGED <<stalled, faults>>
     \/ /\ Fault("read") /\ stalled' = (stalled \/ s \notin queued)
        /\ UNCHANGED <<pc, job>>
  /\ UNCHANGED <<disk, work, lock, timers, time, shut, late, ops>>

Probe(s) ==
  /\ pc[s] = "probe" /\ lock[s] = None
  /\ IF s \in active \cap running
     THEN wake' = wake \cup {s} /\ Goes(s, "leave") /\ UNCHANGED <<lock, active>>
     ELSE IF s \notin queued THEN Goes(s, "leave") /\ UNCHANGED <<lock, active, wake>>
     ELSE Sends(s, s, "dispatch") /\ UNCHANGED wake
  /\ UNCHANGED <<disk, running, notes, timers, time, shut, late, stalled, ops, faults>>

Sent(s) ==
  /\ pc[s] = "sent"
  /\ queued' = queued \ {s} /\ paused' = paused \ {s} /\ Goes(s, "leave")
  /\ UNCHANGED <<after, primed, plan, work, lock, wake, timers, time, shut, late, stalled, ops,
                 faults>>

-------------------------------------------------------------------------------
(* Users.                                                                    *)

Asks(u, op) == op \in Ops /\ ops < MaxOps /\ ops' = ops + 1 /\ pc[u] = "idle"

UserSends(u, s) ==
  /\ Asks(u, "send") /\ s \notin active \cap running
  /\ Sends(u, s, "send")
  /\ UNCHANGED <<disk, running, notes, wake, timers, time, shut, late, stalled, faults>>

Enqueue(u, s) ==
  /\ Asks(u, "enqueue") /\ s \notin queued
  /\ Begins(u, "cancel", "enqueue", s)
  /\ UNCHANGED <<disk, work, lock, wake, timers, time, shut, late, stalled, faults>>

RemoveItemBug(u, s) ==
  /\ Asks(u, "remove") /\ s \in queued /\ job[s].goal # "dispatch"
  /\ queued' = queued \ {s} /\ paused' = paused \ {s}
  /\ UNCHANGED <<after, primed, plan, work, pc, job, lock, wake, timers, time, shut, late, stalled, faults>>

\* An empty queue is deleted with its resumePending.
RemoveItem(u, s) ==
  /\ Asks(u, "remove") /\ s \in queued /\ job[s].goal # "dispatch"
  /\ queued' = queued \ {s} /\ paused' = paused \ {s}
  /\ Begins(u, "settings", "remove", s)
  /\ UNCHANGED <<after, primed, plan, work, lock, wake, timers, time, shut, late, stalled, faults>>

Resume(u, s) ==
  /\ Asks(u, "resume") /\ s \in paused
  /\ paused' = paused \ {s}
  /\ \/ wake' = wake \cup {s} /\ UNCHANGED faults
     \/ Fault("drop") /\ UNCHANGED wake
  /\ UNCHANGED <<after, primed, plan, queued, work, lock, timers, pc, job, time, shut, late, stalled>>

\* update_config_payload
ArmLooks(u) ==
  /\ Asks(u, "arm")
  /\ pc' = [pc EXCEPT ![u] = IF queued # {} THEN "arm" ELSE "survey"]
  /\ job' = [job EXCEPT ![u] = [NoJob EXCEPT !.goal = "arm", !.seen = queued # {}]]
  /\ UNCHANGED <<disk, work, lock, wake, timers, time, shut, late, stalled, faults>>

\* A failing thread/list counts as work.
Survey(u) ==
  /\ pc[u] = "survey"
  /\ pc' = [pc EXCEPT ![u] = "arm"]
  /\ \/ /\ job' = [job EXCEPT ![u].seen = active \cup running # {}]
        /\ UNCHANGED faults
     \/ Fault("list") /\ job' = [job EXCEPT ![u].seen = TRUE]
  /\ UNCHANGED <<disk, work, lock, wake, timers, time, shut, late, stalled, ops>>

\* The plan is erased, its timer is not.  A disarm on its way calls off what comes of it.
Arm(u) ==
  /\ pc[u] = "arm"
  /\ stalled' = (stalled \/ \E q \in Users : job[q].goal = "disarm")
  /\ after' = TRUE /\ primed' = job[u].seen /\ plan' = 0
  /\ late' = late \cup Timer \cup Half
  /\ Goes(u, "settings")
  /\ UNCHANGED <<queued, paused, work, lock, wake, timers, time, shut, ops, faults>>

Disarm(u) ==
  /\ Asks(u, "disarm")
  /\ after' = FALSE /\ primed' = FALSE /\ plan' = 0
  /\ pc' = [pc EXCEPT ![u] = "clear"]
  /\ job' = [Overtaken(u, Trusting \cup {"work"}) EXCEPT ![u] = [NoJob EXCEPT !.goal = "disarm"]]
  /\ late' = late \cup Half \cup Fired
  /\ UNCHANGED <<queued, paused, work, lock, wake, timers, time, shut, stalled, faults>>

ForceTakes(u) ==
  /\ Asks(u, "force")
  /\ armed' = 0 /\ loose' = loose \cup Timer /\ late' = late \cup Timer
  /\ Begins(u, "erase", "force", None)
  /\ UNCHANGED <<disk, work, lock, wake, firing, time, shut, stalled, faults>>

\* The request of p ends here and now: hyper drops its handler at an await, or a `?'
\* returns.  A timer it has spawned sleeps on; a plan it called off, or was to make, is
\* left to the next scheduler.
Drop(p) ==
  LET mine == IF pc[p] = "start" THEN {job[p].plan} \ {0} ELSE {}
      owes == \/ pc[p] \in {"settings", "work"} \cup Trusting \cup Making
              \/ job[p].goal \in {"send", "enqueue"} /\ pc[p] \notin {"cancel", "answer"}
  IN  /\ pc[p] # "idle" /\ job[p].goal # "drain" /\ Fault("drop")
      /\ pc' = [pc EXCEPT ![p] = "idle"] /\ job' = [job EXCEPT ![p] = NoJob]
      /\ lock' = [s \in Sessions |-> IF lock[s] = p THEN None ELSE lock[s]]
      /\ loose' = loose \cup mine
      /\ late' = late \cup mine
                     \cup (IF pc[p] = "clear" /\ job[p].goal = "disarm" THEN Timer ELSE {})
      /\ stalled' = (stalled \/ owes)
      /\ UNCHANGED <<disk, work, wake, armed, firing, time, shut, ops>>

-------------------------------------------------------------------------------
(* A restart: restore_runtime_profile_state runs beside the server.          *)

\* The turns of a daemon live on.
Crash ==
  /\ Fault("crash")
  /\ \E kept \in SUBSET running :
       /\ running' = kept
       /\ late' = IF kept # {} THEN late \cup ({plan} \ {0}) ELSE late
       /\ stalled' = (stalled \/ kept # {})
  /\ notes' = <<>> /\ active' = {}
  /\ lock' = [s \in Sessions |-> None] /\ wake' = {}
  /\ armed' = 0 /\ loose' = {} /\ firing' = [k \in Plans |-> "no"]
  /\ pc' = [p \in Procs |-> IF p = "restore" THEN "mark" ELSE "idle"]
  /\ job' = [p \in Procs |-> IF p = "restore" THEN [NoJob EXCEPT !.goal = "restore"] ELSE NoJob]
  /\ UNCHANGED <<disk, time, shut, ops>>

Mark ==
  /\ pc["restore"] = "mark"
  /\ paused' = queued /\ Goes("restore", "look")
  /\ UNCHANGED <<after, primed, plan, queued, work, lock, wake, timers, time, shut, late, stalled,
                 ops, faults>>

\* restore_persisted_shutdown_state goes by what it read first, however long the check
\* of the command and the look at the work take.
Look ==
  LET wish == IF ~after THEN "off" ELSE IF primed THEN "primed" ELSE "armed"
  IN  /\ pc["restore"] = "look"
      /\ \/ /\ pc' = [pc EXCEPT !["restore"] = "judge"]
            /\ job' = [job EXCEPT !["restore"].wish = wish, !["restore"].plan = plan]
            /\ UNCHANGED faults
         \/ Fault("check") /\ Goes("restore", "forget")
      /\ UNCHANGED <<disk, work, lock, wake, timers, time, shut, late, stalled, ops>>

\* Without a command everything is disarmed, but for the timers started since.
Forget ==
  /\ pc["restore"] = "forget"
  /\ after' = FALSE /\ primed' = FALSE /\ plan' = 0
  /\ pc' = [pc EXCEPT !["restore"] = "idle"]
  /\ job' = [Overtaken("restore", Trusting \cup {"work"}) EXCEPT !["restore"] = NoJob]
  /\ late' = late \cup Timer \cup Half \cup Fired
  /\ UNCHANGED <<queued, paused, work, lock, wake, timers, time, shut, stalled, ops, faults>>

\* app-server is asked only if it is running.
Judge ==
  LET wish == job["restore"].wish
  IN  /\ pc["restore"] = "judge"
      /\ \E seen \in {queued # {} \/ active # {}, queued # {} \/ active \cup running # {}} :
           Goes("restore", IF wish = "armed" /\ seen THEN "reprime"
                           ELSE IF job["restore"].plan > now THEN "stop"
                           ELSE IF wish # "off" /\ seen THEN "settings"
                           ELSE IF wish = "primed" THEN "unprime" ELSE "leave")
      /\ UNCHANGED <<disk, work, lock, wake, timers, time, shut, late, stalled, ops, faults>>

Reprime ==
  /\ pc["restore"] = "reprime"
  /\ primed' = TRUE /\ Goes("restore", IF job["restore"].plan > now THEN "stop" ELSE "settings")
  /\ UNCHANGED <<after, plan, queued, paused, work, lock, wake, timers, time, shut, late, stalled,
                 ops, faults>>

Unprime ==
  /\ pc["restore"] = "unprime"
  /\ primed' = FALSE /\ plan' = 0 /\ late' = late \cup Timer \cup Half
  /\ Goes("restore", "leave")
  /\ UNCHANGED <<after, queued, paused, work, lock, wake, timers, time, shut, stalled, ops, faults>>

-------------------------------------------------------------------------------
Continue(p) ==
  \/ Cancel(p) \/ Prime(p) \/ Clear(p) \/ Null(p)
  \/ Settings(p) \/ Work(p) \/ Turns(p) \/ Threads(p) \/ Write(p) \/ Stop(p) \/ Start(p)
  \/ Ask(p) \/ Answered(p)

Monitor == HandleStarted \/ HandleCompleted \/ Leave
Queues(s) == Drain(s) \/ Probe(s) \/ Sent(s)
User(u) == Queueing(u) \/ Survey(u) \/ Arm(u) \/ ForceErases(u) \/ ForceExecutes(u)
Restore == Mark \/ Look \/ Forget \/ Judge \/ Reprime \/ Unprime
Timers(k) == Wake(k) \/ Erase(k) \/ Execute(k)

Request(u) ==
  \/ ArmLooks(u) \/ Disarm(u) \/ ForceTakes(u)
  \/ \E s \in Sessions : UserSends(u, s) \/ Enqueue(u, s) \/ RemoveItem(u, s) \/ Resume(u, s)

\* The machine is gone once the command has run.
Next ==
  /\ ~shut
  /\ \/ \E p \in Procs : Continue(p)
     \/ \E s \in Sessions : Queues(s) \/ EndTurn(s)
     \/ \E u \in Users : User(u) \/ Request(u)
     \/ \E p \in Users \cup Sessions : Drop(p)
     \/ \E k \in Plans : Timers(k)
     \/ Monitor \/ Restore \/ Tick \/ Crash

Spec == Init /\ [][Next]_vars

-------------------------------------------------------------------------------
(* Properties.                                                               *)

\* README.md:437 promises that new work calls a pending shutdown off.  The command
\* (:228) never runs while an item waits or a turn is live, nor after the users
\* disarmed it, unless no call-off reached its plan.  A turn whose turn/started is
\* still to be handled (:1608) counts from then on: pending_turn_starts is not
\* looked at (:23).
Unheard(s) ==
  \/ <<"started", s>> \in Range(notes)
  \/ job["monitor"].goal = "started" /\ job["monitor"].on = s

ShutdownSparesWork ==
  \A k \in Plans \ late : firing[k] = "ran" =>
    after /\ \A s \in Sessions : s \notin queued /\ (s \in running => Unheard(s))

\* Nobody watches the work between two calls of maybe_schedule_global_shutdown (:310):
\* whichever ends last (a turn, a queue, a removal, a restoration) must make the
\* plan, however the schedulers and the call-offs interleave.  The exceptions are a
\* check, a listing, a send, a read, a write or a command that failed, a request that
\* was dropped before it came to the plan, turns that outlived the gateway, a disarm
\* that ends after the users armed again, and the bound on plans.
Quiet  == notes = <<>> /\ wake = {} /\ \A p \in Procs : pc[p] = "idle"
Done   == after /\ primed /\ running = {} /\ queued = {}
Coming == armed # 0 \/ loose # {} \/ \E k \in Plans : firing[k] # "no"

DoneIsScheduled == Quiet /\ Done => Coming \/ stalled

=============================================================================
