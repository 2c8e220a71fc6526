------------------------- MODULE TurnLifecycleProofs -------------------------
(* Theorems about TurnLifecycle, for every set of tasks and messages, every *)
(* choice of Kinds, Background and Faults, and every bound.                 *)
(* RecordsMatch alone restricts the faults and repairs (Faultless).         *)
EXTENDS TurnLifecycle, SequenceTheorems, TLAPS

----------------------------------------------------------------------------
(* The types, with what the steps rely on.                                  *)

Jobs == [kind : Kinds \cup {"send"}, msg : Messages \cup {NoMessage},
         turn : TurnOrNo, fence : Nat, tries : Nat, negative : BOOLEAN]

\* A task is of one of the kinds, has a message if it sends or steers, and only a
\* send may be late.
JobFits == \A t \in Tasks :
    /\ pc[t] # "idle" => job[t].kind \in Kinds
    /\ pc[t] # "idle" /\ job[t].kind # "compact" => job[t].msg \in Messages
    /\ pc[t] = "late" => job[t].kind = "send"

\* The item that the monitor looks at again is still the next notification.
PeekFits == peeked => Incoming("item")

\* The parts of the type invariant, by what disturbs them.
JobInv      == pc \in [Tasks -> Steps] /\ job \in [Tasks -> Jobs] /\ JobFits
FlagTypes   == /\ alive \in BOOLEAN /\ pending \in BOOLEAN /\ left \in BOOLEAN
               /\ peeked \in BOOLEAN
EngineTypes == /\ running \in TurnOrNo
               /\ started \in Nat
               /\ accepted \in [Messages \cup {NoMessage} -> Nat]
BoundTypes  == sends \in 0 .. MaxSends /\ faults \in 0 .. MaxFaults
InboxTypes  == inbox \subseteq Requests
EventTypes  == events \in Seq(Events) /\ PeekFits
MemoryTypes == /\ active \in TurnOrNo
               /\ terminal \subseteq Turns
               /\ recent \subseteq Messages
               /\ epoch \in Nat
               /\ status \in Statuses
LockTypes   == /\ sessionLock \in Tasks \cup {NoOne}
               /\ activeLock \in Tasks \cup {NoOne}
ViewTypes   == /\ suspect \subseteq TurnOrNo
               /\ view \in [by : {"none", "probe", "detail", "resolve"}, turn : TurnOrNo]

TypeInv == /\ JobInv /\ FlagTypes /\ EngineTypes /\ BoundTypes /\ InboxTypes
           /\ EventTypes /\ MemoryTypes /\ LockTypes /\ ViewTypes

\* The parts together say what TypeOK says, and more.
LEMMA TypeInvTypes == TypeInv => TypeOK
  BY DEF TypeInv, TypeOK, JobInv, Jobs, FlagTypes, EngineTypes, BoundTypes, InboxTypes,
     EventTypes, MemoryTypes, LockTypes, ViewTypes

LEMMA InitTypes == Init => TypeInv
<1> SUFFICES ASSUME Init PROVE TypeInv
  OBVIOUS
<1> USE TurnConstants DEF Init, NoTurn, TurnOrNo
<1>1. JobInv
  BY DEF JobInv, Jobs, JobFits, NoJob, Steps
<1>2. FlagTypes
  BY DEF FlagTypes
<1>6. BoundTypes
  BY DEF BoundTypes
<1>3. EngineTypes /\ InboxTypes /\ LockTypes
  BY DEF EngineTypes, InboxTypes, LockTypes
<1>4. EventTypes
  BY DEF EventTypes, PeekFits
<1>5. MemoryTypes /\ ViewTypes
  BY DEF MemoryTypes, Statuses, ViewTypes, NoView
<1> QED BY <1>1, <1>2, <1>3, <1>4, <1>5, <1>6 DEF TypeInv

----------------------------------------------------------------------------
(* What a task is doing.                                                    *)

\* The steps a task can go to and still fit its job, whatever that is.
Free == Steps \ {"idle", "late"}

\* Going back to idle fits.
LEMMA JobReturns ==
  ASSUME JobInv, NEW t \in Tasks, Returns(t) PROVE JobInv'
  BY TurnConstants DEF JobInv, Jobs, JobFits, Returns, NoJob, NoTurn, TurnOrNo, Steps

\* Going on, with the job as it is.
LEMMA JobGoes ==
  ASSUME JobInv, NEW t \in Tasks, pc[t] # "idle", NEW step \in Free,
         Goes(t, step), UNCHANGED job
  PROVE  JobInv'
  BY DEF JobInv, JobFits, Goes, Free

\* Going on with something learnt, for the same message.
LEMMA JobChanges ==
  ASSUME JobInv, NEW t \in Tasks, pc[t] # "idle", NEW step \in Free, Goes(t, step),
         NEW j \in Jobs, j.kind = job[t].kind, j.msg = job[t].msg,
         job' = [job EXCEPT ![t] = j]
  PROVE  JobInv'
<1>1. pc' \in [Tasks -> Steps] /\ job' \in [Tasks -> Jobs]
  BY DEF JobInv, Goes, Free
<1>2. pc'[t] = step /\ job'[t] = j
  BY DEF JobInv, Goes
<1>3. \A u \in Tasks \ {t} : pc'[u] = pc[u] /\ job'[u] = job[u]
  BY DEF JobInv, Goes
<1>4. JobFits'
  BY <1>2, <1>3 DEF JobInv, JobFits, Free
<1> QED BY <1>1, <1>4 DEF JobInv

\* Going on with another turn.
LEMMA JobLearns ==
  ASSUME JobInv, NEW t \in Tasks, pc[t] # "idle", NEW step \in Free, Goes(t, step),
         NEW turn \in TurnOrNo, job' = [job EXCEPT ![t].turn = turn]
  PROVE  JobInv'
<1> DEFINE j == [job[t] EXCEPT !.turn = turn]
<1>1. j \in Jobs /\ j.kind = job[t].kind /\ j.msg = job[t].msg
  BY DEF JobInv, Jobs
<1>2. job' = [job EXCEPT ![t] = j]
  OBVIOUS
<1> HIDE DEF j
<1> QED BY <1>1, <1>2, JobChanges

\* Going on with the count of a reconciler's attempts.
LEMMA JobCounts ==
  ASSUME JobInv, NEW t \in Tasks, pc[t] # "idle", NEW step \in Free, Goes(t, step),
         \/ job' = [job EXCEPT ![t].tries = @ + 1]
         \/ job' = [job EXCEPT ![t].negative = TRUE, ![t].tries = @ + 1]
  PROVE  JobInv'
<1>1. CASE job' = [job EXCEPT ![t].tries = @ + 1]
  <2> DEFINE j == [job[t] EXCEPT !.tries = @ + 1]
  <2>1. j \in Jobs /\ j.kind = job[t].kind /\ j.msg = job[t].msg
    BY DEF JobInv, Jobs
  <2>2. job' = [job EXCEPT ![t] = j]
    BY <1>1
  <2> HIDE DEF j
  <2> QED BY <2>1, <2>2, JobChanges
<1>2. CASE job' = [job EXCEPT ![t].negative = TRUE, ![t].tries = @ + 1]
  <2> DEFINE k == [job[t] EXCEPT !.negative = TRUE]
             j == [k EXCEPT !.tries = @ + 1]
  <2>1. k \in Jobs /\ k.kind = job[t].kind /\ k.msg = job[t].msg
    BY DEF JobInv, Jobs
  <2>2. job' = [job EXCEPT ![t] = j]
    BY <1>2 DEF JobInv, Jobs
  <2> HIDE DEF k
  <2>3. j \in Jobs /\ j.kind = k.kind /\ j.msg = k.msg
    BY <2>1 DEF Jobs
  <2> HIDE DEF j
  <2> QED BY <2>1, <2>2, <2>3, JobChanges
<1> QED BY <1>1, <1>2

LEMMA JobStep ==
  ASSUME TypeInv, [Next]_vars
  PROVE  JobInv'
<1> USE DEF TypeInv, MemoryTypes, EngineTypes, TurnOrNo
<1> DEFINE Goal == JobInv'
<1>1. ASSUME NEW t \in Tasks, Submit(t) PROVE Goal
  <2>1. PICK k \in Kinds : \E m \in IF k = "compact" THEN {NoMessage} ELSE Messages :
          /\ job' = [job EXCEPT ![t] = [NoJob EXCEPT !.kind = k, !.msg = m]]
          /\ Goes(t, IF k = "steer" THEN "want" ELSE "sweep")
    BY <1>1 DEF Submit
  <2>2. PICK m \in IF k = "compact" THEN {NoMessage} ELSE Messages :
          job' = [job EXCEPT ![t] = [NoJob EXCEPT !.kind = k, !.msg = m]]
    BY <2>1
  <2>3. \E step \in Free : pc' = [pc EXCEPT ![t] = step]
    BY <2>1 DEF Goes, Free, Steps
  <2>4. [NoJob EXCEPT !.kind = k, !.msg = m] \in Jobs
    BY DEF NoJob, Jobs, NoTurn
  <2>5. [NoJob EXCEPT !.kind = k, !.msg = m].kind = k
        /\ [NoJob EXCEPT !.kind = k, !.msg = m].msg = m
    BY DEF NoJob
  <2> QED BY <2>2, <2>3, <2>4, <2>5 DEF JobInv, JobFits, Free
<1>2. ASSUME NEW t \in Tasks, Sweep(t) PROVE Goal
  <2>1. CASE Goes(t, "gate") /\ UNCHANGED job
    BY <1>2, <2>1, JobGoes DEF Sweep, Free, Steps
  <2>2. CASE Goes(t, "sweeping") /\ job' = [job EXCEPT ![t].turn = active]
    BY <1>2, <2>2, JobLearns DEF Sweep, Free, Steps
  <2> QED BY <1>2, <2>1, <2>2 DEF Sweep
<1>3. ASSUME NEW t \in Tasks, SweepMarks(t) PROVE Goal
  BY <1>3, JobLearns DEF SweepMarks, Free, Steps, NoTurn
<1>4. ASSUME NEW t \in Tasks, Gate(t) \/ Enter(t) \/ Recheck(t) PROVE Goal
  BY <1>4, JobReturns, JobGoes DEF Gate, Enter, Recheck, Free, Steps
<1>5. ASSUME NEW t \in Tasks, Check(t) \/ BeginStart(t) \/ Ask(t) PROVE Goal
  BY <1>5, JobGoes DEF Check, BeginStart, Ask, Free, Steps
<1>6. ASSUME NEW t \in Tasks, SteerAsks(t) PROVE Goal
  <2>1. pc[t] = "want"
    BY <1>6 DEF SteerAsks
  <2>2. Returns(t) \/ \E turn \in TurnOrNo :
          job' = [job EXCEPT ![t].turn = turn] /\ Goes(t, "asked")
    BY <1>6 DEF SteerAsks, NoTurn
  <2> QED BY <2>1, <2>2, JobReturns, JobLearns DEF Free, Steps
<1>7. ASSUME NEW t \in Tasks,
             SendSettles(t) \/ CompactSettles(t) \/ SteerSettles(t) \/ Fails(t)
             \/ ReconcilerSettles(t) \/ GivesUp(t) \/ Dropped(t)
      PROVE  Goal
  BY <1>7, JobReturns DEF SendSettles, CompactSettles, SteerSettles, Fails,
     ReconcilerSettles, GivesUp, Dropped
<1>8. ASSUME NEW t \in Tasks, Late(t) PROVE Goal
  <2>1. CASE Goes(t, "stuck") /\ UNCHANGED job
    BY <1>8, <2>1, JobGoes DEF Late, Free, Steps
  <2>2. CASE Goes(t, "recheck") /\ job' = [job EXCEPT ![t].fence = epoch]
    BY <1>8, <2>2 DEF Late, JobInv, Jobs, JobFits, Goes, Steps
  <2> QED BY <1>8, <2>1, <2>2 DEF Late
<1>9. ASSUME NEW t \in Tasks, Look(t) \/ Relock(t) PROVE Goal
  BY <1>9, JobGoes DEF Look, Relock, Free, Steps
<1>10. ASSUME NEW t \in Tasks, Read(t) PROVE Goal
  <2>1. CASE job' = [job EXCEPT ![t].turn = running] /\ Goes(t, "settle")
    BY <1>10, <2>1, JobLearns DEF Read, Free, Steps
  <2>2. CASE NextTry(t) /\ (\/ job' = [job EXCEPT ![t].tries = @ + 1]
                            \/ job' = [job EXCEPT ![t].negative = TRUE, ![t].tries = @ + 1])
    BY <1>10, <2>2, JobCounts DEF Read, NextTry, Free, Steps
  <2> QED BY <1>10, <2>1, <2>2 DEF Read
<1>11. ASSUME NEW t \in Tasks, TimesOut(t) PROVE Goal
  BY <1>11 DEF TimesOut, JobInv, JobFits, Goes, Steps
<1>12. ASSUME NEW r \in inbox, Begins(r) \/ Steers(r) \/ Refuses(r) PROVE Goal
  <2>1. r.task \in Tasks
    BY DEF InboxTypes, Requests
  <2>2. ASSUME NEW turn \in TurnOrNo, Answer(r, turn) PROVE Goal
    BY <2>1, <2>2, JobLearns DEF Answer, tasks, Free, Steps, JobInv, JobFits
  <2>3. CASE UNCHANGED job
             /\ pc' = [pc EXCEPT ![r.task] = IF @ = "asked" THEN "failing" ELSE @]
    BY <2>1, <2>3 DEF JobInv, JobFits, Steps
  <2>4. CASE Begins(r)
    BY <2>2, <2>4 DEF Begins
  <2>5. CASE Steers(r)
    BY <2>2, <2>3, <2>5 DEF Steers
  <2>6. CASE Refuses(r)
    BY <2>3, <2>6 DEF Refuses
  <2> QED BY <1>12, <2>4, <2>5, <2>6
<1>13. CASE Exits
  BY <1>13 DEF Exits, JobInv, JobFits, Steps
<1>14. CASE Monitor \/ Maintenance \/ Views \/ Works \/ Ends \/ Lags \/ UNCHANGED vars
  <2>1. UNCHANGED <<pc, job>>
    BY <1>14 DEF Monitor, Maintenance, Views, Works, Ends, Lags, HandleStarted,
       HandleCompleted, HandleItem, HandleItemLocked, HandleActive, HandleIdle, HandleExited,
       MaintenanceClears, MaintenanceReads, MaintenanceMarks, ViewReads, ResolveApplies,
       ProbeApplies, ProbeGivesUp, DetailApplies, tasks, vars
  <2> QED BY <2>1 DEF JobInv, JobFits
<1> QED
  BY <1>1, <1>2, <1>3, <1>4, <1>5, <1>6, <1>7, <1>8, <1>9, <1>10, <1>11, <1>12, <1>13, <1>14
  DEF Next, Task, AppServer

----------------------------------------------------------------------------
(* What app-server has, and what the gateway has yet to hear of it.         *)

LEMMA EngineStep ==
  ASSUME TypeInv, [Next]_vars
  PROVE  EngineTypes'
<1> USE DEF TypeInv, EngineTypes, TurnOrNo, NoTurn
<1>1. ASSUME NEW r \in inbox, Begins(r) PROVE EngineTypes'
  BY <1>1 DEF Begins, InboxTypes, Requests
<1>2. ASSUME NEW r \in inbox, Steers(r) PROVE EngineTypes'
  BY <1>2 DEF Steers
<1>3. CASE Ends \/ Exits
  BY <1>3 DEF Ends, Exits
<1>4. CASE UNCHANGED <<running, started, accepted>>
  BY <1>4
<1>5. CASE Works \/ Lags \/ Monitor \/ Maintenance \/ Views \/ UNCHANGED vars
           \/ \E r \in inbox : Refuses(r)
  BY <1>4, <1>5 DEF Monitor, Maintenance, Views, Works, Lags, Refuses, HandleStarted,
     HandleCompleted, HandleItem, HandleItemLocked, HandleActive, HandleIdle, HandleExited,
     MaintenanceClears, MaintenanceReads, MaintenanceMarks, ViewReads, ResolveApplies,
     ProbeApplies, ProbeGivesUp, DetailApplies, appServer, vars
<1>6. ASSUME NEW t \in Tasks, Submit(t) \/ Task(t) \/ TimesOut(t) \/ Dropped(t)
      PROVE  EngineTypes'
  BY <1>4, <1>6 DEF Submit, TimesOut, Dropped, Task, Sweep, SweepMarks, Gate, Enter, Check,
     BeginStart, Ask, SteerAsks, SendSettles, CompactSettles, SteerSettles, Late, Fails,
     Recheck, Look, Relock, Read, ReconcilerSettles, GivesUp, appServer
<1> QED BY <1>1, <1>2, <1>3, <1>5, <1>6 DEF Next, AppServer

LEMMA BoundStep ==
  ASSUME TypeInv, [Next]_vars
  PROVE  BoundTypes'
<1> USE TurnConstants DEF TypeInv, BoundTypes
<1>1. ASSUME NEW f \in Faults, Fault(f), UNCHANGED sends
      PROVE  BoundTypes'
  BY <1>1 DEF Fault
<1>2. CASE UNCHANGED <<sends, faults>>
  BY <1>2
<1>3. ASSUME NEW t \in Tasks, Submit(t) PROVE BoundTypes'
  BY <1>3 DEF Submit
<1>4. ASSUME NEW t \in Tasks, Task(t) \/ TimesOut(t) \/ Dropped(t) PROVE BoundTypes'
  BY <1>1, <1>2, <1>4 DEF Fault, TimesOut, Dropped, Task, Sweep, SweepMarks, Gate, Enter, Check,
     BeginStart, Ask, SteerAsks, SendSettles, CompactSettles, SteerSettles, Late, Fails,
     Recheck, Look, Relock, Read, ReconcilerSettles, GivesUp, bounds
<1>5. CASE AppServer
  BY <1>1, <1>2, <1>5 DEF Fault, AppServer, Begins, Steers, Refuses, Works, Ends, Exits,
     Lags, bounds
<1>6. CASE Monitor
  BY <1>1, <1>2, <1>6 DEF Fault, Sees, Monitor, HandleStarted, HandleCompleted, HandleItem,
     HandleItemLocked, HandleActive, HandleIdle, HandleExited, bounds
<1>7. CASE Maintenance \/ Views \/ UNCHANGED vars
  BY <1>1, <1>2, <1>7 DEF Fault, Maintenance, Views, MaintenanceClears, MaintenanceReads,
     MaintenanceMarks, ViewReads, ResolveApplies, ProbeApplies, ProbeGivesUp,
     DetailApplies, bounds, vars
<1> QED BY <1>3, <1>4, <1>5, <1>6, <1>7 DEF Next

LEMMA InboxStep ==
  ASSUME TypeInv, [Next]_vars
  PROVE  InboxTypes'
<1> USE DEF TypeInv, InboxTypes
<1>1. ASSUME NEW t \in Tasks, Ask(t) PROVE InboxTypes'
  <2>1. job[t].kind \in Kinds
    BY <1>1 DEF Ask, JobInv, JobFits
  <2> QED BY <1>1, <2>1 DEF Ask, Requests, JobInv, Jobs, TurnOrNo, NoTurn
<1>2. ASSUME NEW t \in Tasks, SteerAsks(t) PROVE InboxTypes'
  BY <1>2 DEF SteerAsks, Requests, JobInv, Jobs, TurnOrNo, NoTurn, MemoryTypes, EngineTypes
<1>3. CASE inbox' \subseteq inbox
  BY <1>3
<1>4. CASE AppServer
  BY <1>3, <1>4 DEF AppServer, Begins, Steers, Refuses, Works, Ends, Exits, Lags, appServer
<1>5. ASSUME NEW t \in Tasks, Submit(t) \/ TimesOut(t) \/ Dropped(t) \/ Task(t), ~Ask(t),
             ~SteerAsks(t)
      PROVE  InboxTypes'
  BY <1>3, <1>5 DEF Submit, TimesOut, Dropped, Task, Sweep, SweepMarks, Gate, Enter, Check,
     BeginStart, SendSettles, CompactSettles, SteerSettles, Late, Fails,
     Recheck, Look, Relock, Read, ReconcilerSettles, GivesUp, appServer
<1>6. CASE Monitor \/ Maintenance \/ Views \/ UNCHANGED vars
  BY <1>3, <1>6 DEF Monitor, Maintenance, Views, HandleStarted,
     HandleCompleted, HandleItem, HandleItemLocked, HandleActive, HandleIdle, HandleExited,
     MaintenanceClears, MaintenanceReads, MaintenanceMarks, ViewReads, ResolveApplies,
     ProbeApplies, ProbeGivesUp, DetailApplies, appServer, vars
<1> QED BY <1>1, <1>2, <1>4, <1>5, <1>6 DEF Next

----------------------------------------------------------------------------
(* The notifications.                                                       *)

\* The head of the notifications is one, and names a turn if it is about one.
LEMMA HeadTypes ==
  ASSUME EventTypes, events # <<>>
  PROVE  /\ Tail(events) \in Seq(Events)
         /\ Head(events).turn \in TurnOrNo
         /\ Incoming("started") \/ Incoming("item") \/ Incoming("completed")
            => Head(events).turn \in Turns
<1>1. Head(events) \in Events /\ Tail(events) \in Seq(Events)
  BY HeadTailProperties DEF EventTypes
<1> QED BY <1>1 DEF Events, Incoming, TurnOrNo, Turns, NoTurn

LEMMA EventStep ==
  ASSUME TypeInv, [Next]_vars
  PROVE  EventTypes'
<1> USE DEF TypeInv
<1>1. CASE UNCHANGED <<events, peeked>>
  BY <1>1 DEF EventTypes, PeekFits, Incoming
<1>2. ASSUME NEW t \in Seq(Events), events' = events \o t, UNCHANGED peeked
      PROVE  EventTypes'
  <2>1. events' \in Seq(Events)
    BY <1>2, ConcatProperties DEF EventTypes
  <2>2. events # <<>> => events' # <<>> /\ Head(events') = Head(events)
    BY <1>2, <2>1 DEF EventTypes
  <2> QED BY <1>2, <2>1, <2>2 DEF EventTypes, PeekFits, Incoming
<1>3. ASSUME events # <<>>, events' = Tail(events), ~peeked'
      PROVE  EventTypes'
  BY <1>3, HeadTypes DEF EventTypes, PeekFits
<1>4. ASSUME NEW r \in inbox, Begins(r) PROVE EventTypes'
  <2>1. started + 1 \in Turns
    BY DEF EngineTypes, Turns, NoTurn
  <2> DEFINE begun == <<[kind |-> "active", turn |-> NoTurn],
                        [kind |-> "started", turn |-> started + 1]>>
  <2>2. begun \in Seq(Events)
    BY <2>1 DEF Events
  <2>3. \/ events' = events \o begun /\ UNCHANGED peeked
        \/ UNCHANGED <<events, peeked>>
    BY <1>4 DEF Begins, watchers
  <2> QED BY <1>1, <1>2, <2>2, <2>3
<1>5. CASE Works
  <2>1. <<[kind |-> "item", turn |-> running]>> \in Seq(Events)
    BY <1>5 DEF Works, Events, EngineTypes, TurnOrNo, Turns
  <2>2. events' = events \o <<[kind |-> "item", turn |-> running]>> /\ UNCHANGED peeked
    BY <1>5 DEF Works, watchers, EventTypes
  <2> QED BY <1>2, <2>1, <2>2
<1>6. CASE Ends
  <2> DEFINE over == <<[kind |-> "completed", turn |-> running],
                       [kind |-> "idle", turn |-> NoTurn]>>
  <2>1. over \in Seq(Events)
    BY <1>6 DEF Ends, Events, EngineTypes, TurnOrNo, Turns
  <2>2. events' = events \o over /\ UNCHANGED peeked
    BY <1>6 DEF Ends, watchers
  <2> QED BY <1>2, <2>1, <2>2
<1>7. CASE Exits
  <2>1. <<[kind |-> "exited", turn |-> NoTurn]>> \in Seq(Events)
    BY DEF Events
  <2>2. events' = events \o <<[kind |-> "exited", turn |-> NoTurn]>> /\ UNCHANGED peeked
    BY <1>7 DEF Exits, watchers, EventTypes
  <2> QED BY <1>2, <2>1, <2>2
<1>8. CASE Lags
  BY <1>3, <1>8 DEF Lags, watchers
<1>9. CASE HandleStarted \/ HandleCompleted \/ HandleActive \/ HandleIdle \/ HandleExited
  <2>1. ~Incoming("item") /\ events # <<>> /\ events' = Tail(events) /\ UNCHANGED peeked
    BY <1>9 DEF HandleStarted, HandleCompleted, HandleActive, HandleIdle, HandleExited,
       Incoming, Handled, watchers
  <2> QED BY <1>3, <2>1 DEF EventTypes, PeekFits
<1>10. CASE HandleItem
  <2>1. CASE peeked' = TRUE /\ UNCHANGED events
    BY <1>10, <2>1 DEF HandleItem, EventTypes, PeekFits, Incoming
  <2>2. CASE peeked' = FALSE /\ Handled
    BY <1>3, <1>10, <2>2 DEF HandleItem, Incoming, Handled
  <2> QED BY <1>10, <2>1, <2>2 DEF HandleItem
<1>11. CASE HandleItemLocked
  BY <1>3, <1>11 DEF HandleItemLocked, EventTypes, PeekFits, Incoming, Handled
<1>12. CASE Maintenance \/ Views \/ UNCHANGED vars \/ \E r \in inbox : Steers(r) \/ Refuses(r)
  BY <1>1, <1>12 DEF Maintenance, Views, MaintenanceClears, MaintenanceReads,
     MaintenanceMarks, ViewReads, ResolveApplies, ProbeApplies, ProbeGivesUp,
     DetailApplies, Steers, Refuses, watchers, vars
<1>13. ASSUME NEW t \in Tasks, Submit(t) \/ TimesOut(t) \/ Dropped(t) \/ Task(t)
       PROVE  EventTypes'
  BY <1>1, <1>13 DEF Submit, TimesOut, Dropped, Task, Sweep, SweepMarks, Gate, Enter, Check,
     BeginStart, Ask, SteerAsks, SendSettles, CompactSettles, SteerSettles, Late, Fails,
     Recheck, Look, Relock, Read, ReconcilerSettles, GivesUp, watchers
<1> QED
  BY <1>4, <1>5, <1>6, <1>7, <1>8, <1>9, <1>10, <1>11, <1>12, <1>13
  DEF Next, AppServer, Monitor

----------------------------------------------------------------------------
(* The flags, the gateway's memory, the locks and the views.                *)

LEMMA FlagStep ==
  ASSUME TypeInv, [Next]_vars
  PROVE  FlagTypes'
<1> USE DEF TypeInv, FlagTypes
<1>1. ASSUME NEW t \in Tasks, Submit(t) \/ TimesOut(t) \/ Task(t) PROVE FlagTypes'
  BY <1>1 DEF Submit, TimesOut, Task, Sweep, SweepMarks, MarksTerminal, Unmarks, Gate, Enter,
     Check, BeginStart, Ask, SteerAsks, SendSettles, CompactSettles, SteerSettles, Settles,
     Late, Fails, Recheck, Look, Relock, Read, ReconcilerSettles, GivesUp, appServer, memory, watchers
<1>2. CASE AppServer
  BY <1>2 DEF AppServer, Begins, Steers, Refuses, Works, Ends, Exits, Lags, appServer,
     memory, watchers
<1>3. CASE Monitor
  BY <1>3 DEF Monitor, Unmarks, HandleStarted, HandleCompleted, HandleItem,
     HandleItemLocked, HandleActive, HandleIdle, HandleExited, appServer, memory, watchers
<1>4. CASE Maintenance
  <2>1. CASE MaintenanceClears \/ MaintenanceReads
    <3>1. UNCHANGED <<alive, peeked>> /\ (Unmarks \/ UNCHANGED <<pending, left>>)
      BY <2>1 DEF MaintenanceClears, MaintenanceReads, appServer, memory, watchers
    <3> QED BY <3>1 DEF Unmarks
  <2>2. CASE MaintenanceMarks
    <3>1. UNCHANGED <<alive, peeked>>
      BY <2>2 DEF MaintenanceMarks, appServer
    <3>2. \E turn \in suspect, s \in Statuses : MarksTerminal(turn, FALSE, s)
      BY <2>2 DEF MaintenanceMarks, Statuses
    <3>3. pending' \in BOOLEAN /\ left' \in BOOLEAN
      BY <3>2 DEF MarksTerminal, Unmarks
    <3> QED BY <3>1, <3>3
  <2> QED BY <1>4, <2>1, <2>2 DEF Maintenance
<1>5. CASE Views
  BY <1>5 DEF Views, Unmarks, ViewReads, ResolveApplies, ProbeApplies, ProbeGivesUp,
     DetailApplies, appServer, memory
<1>6. CASE UNCHANGED vars
  BY <1>6 DEF vars, appServer, memory, watchers
<1>7. ASSUME NEW t \in Tasks, Dropped(t) PROVE FlagTypes'
  <2>1. UNCHANGED <<alive, peeked>>
    BY <1>7 DEF Dropped, appServer, watchers
  <2>2. pending' \in BOOLEAN
    BY <1>7 DEF Dropped, Interrupted
  <2>3. left' \in BOOLEAN
    BY <1>7 DEF Dropped
  <2> QED BY <2>1, <2>2, <2>3
<1> QED BY <1>1, <1>2, <1>3, <1>4, <1>5, <1>6, <1>7 DEF Next

LEMMA LockStep ==
  ASSUME TypeInv, [Next]_vars
  PROVE  LockTypes'
<1> USE DEF TypeInv, LockTypes
<1>1. ASSUME NEW t \in Tasks, Submit(t) \/ TimesOut(t) \/ Dropped(t) \/ Task(t)
      PROVE  LockTypes'
  BY <1>1 DEF Submit, TimesOut, Dropped, Task, Sweep, SweepMarks, Gate, Enter, Check,
     BeginStart, Ask, SteerAsks, SendSettles, CompactSettles, SteerSettles, Late,
     Fails, Recheck, Look, Relock, Read, ReconcilerSettles, GivesUp, locks
<1>2. CASE AppServer \/ Monitor \/ Maintenance \/ Views \/ UNCHANGED vars
  BY <1>2 DEF AppServer, Begins, Steers, Refuses, Works, Ends, Exits, Lags, Monitor,
     HandleStarted, HandleCompleted, HandleItem, HandleItemLocked, HandleActive, HandleIdle,
     HandleExited, Maintenance, MaintenanceClears, MaintenanceReads, MaintenanceMarks, Views,
     ViewReads, ResolveApplies, ProbeApplies, ProbeGivesUp, DetailApplies, vars, locks
<1> QED BY <1>1, <1>2 DEF Next

LEMMA ViewStep ==
  ASSUME TypeInv, [Next]_vars
  PROVE  ViewTypes'
<1> USE TurnConstants DEF TypeInv, ViewTypes
<1>1. CASE MaintenanceReads
  BY <1>1 DEF MaintenanceReads, MemoryTypes
<1>2. CASE MaintenanceMarks
  BY <1>2 DEF MaintenanceMarks
<1>3. CASE ViewReads
  BY <1>3 DEF ViewReads, EngineTypes
<1>4. CASE ResolveApplies \/ ProbeApplies \/ ProbeGivesUp \/ DetailApplies
  <2>1. view' = NoView /\ suspect' = suspect
    BY <1>4 DEF ResolveApplies, ProbeApplies, ProbeGivesUp, DetailApplies
  <2> QED BY <2>1 DEF NoView, NoTurn, TurnOrNo
<1>5. CASE AppServer \/ Monitor \/ MaintenanceClears \/ UNCHANGED vars
  BY <1>5 DEF AppServer, Begins, Steers, Refuses, Works, Ends, Exits, Lags, Monitor,
     HandleStarted, HandleCompleted, HandleItem, HandleItemLocked, HandleActive, HandleIdle,
     HandleExited, MaintenanceClears, vars, watchers
<1>6. ASSUME NEW t \in Tasks, Submit(t) \/ TimesOut(t) \/ Dropped(t) \/ Task(t)
      PROVE  ViewTypes'
  BY <1>6 DEF Submit, TimesOut, Dropped, Task, Sweep, SweepMarks, Gate, Enter, Check,
     BeginStart, Ask, SteerAsks, SendSettles, CompactSettles, SteerSettles, Late,
     Fails, Recheck, Look, Relock, Read, ReconcilerSettles, GivesUp, watchers
<1> QED BY <1>1, <1>2, <1>3, <1>4, <1>5, <1>6 DEF Next, Maintenance, Views

\* Both ways to end a session in the maps keep the types.
LEMMA TerminalTypes ==
  ASSUME MemoryTypes, NEW turn \in TurnOrNo, NEW clear \in BOOLEAN, NEW s \in Statuses,
         MarksTerminal(turn, clear, s)
  PROVE  active' \in TurnOrNo /\ terminal' \subseteq Turns /\ status' \in Statuses
<1>1. CASE UNCHANGED <<active, terminal, status>>
  BY <1>1 DEF MemoryTypes
<1>2. CASE active' = NoTurn /\ terminal' = terminal \cup ({turn} \ {NoTurn}) /\ status' = s
  BY <1>2 DEF MemoryTypes, TurnOrNo, Turns, NoTurn
<1> QED BY <1>1, <1>2 DEF MarksTerminal

LEMMA MemoryStep ==
  ASSUME TypeInv, [Next]_vars
  PROVE  MemoryTypes'
<1> USE DEF TypeInv, MemoryTypes, TurnOrNo, NoTurn, Turns, Statuses
<1>1. ASSUME NEW t \in Tasks, SweepMarks(t) PROVE MemoryTypes'
  <2>1. job[t].turn \in TurnOrNo
    BY DEF JobInv, Jobs
  <2>2. active' \in TurnOrNo /\ terminal' \subseteq Turns /\ status' \in Statuses
    <3>1. MarksTerminal(job[t].turn, TRUE, "failed")
      BY <1>1 DEF SweepMarks
    <3> QED BY <2>1, <3>1, TerminalTypes
  <2>3. epoch' \in Nat /\ recent' = recent
    BY <1>1 DEF SweepMarks
  <2> QED BY <2>2, <2>3
<1>2. ASSUME NEW t \in Tasks, Check(t) \/ BeginStart(t) \/ Fails(t) \/ GivesUp(t)
      PROVE  MemoryTypes'
  <2>1. CASE Check(t) \/ BeginStart(t)
    <3>1. active' \in {active, running} /\ status' \in {status, "starting"}
      BY <2>1 DEF Check, BeginStart, memory
    <3>2. UNCHANGED <<terminal, recent, epoch>>
      BY <2>1 DEF Check, BeginStart, memory
    <3> QED BY <3>1, <3>2 DEF EngineTypes
  <2>2. CASE Fails(t) \/ GivesUp(t)
    <3>1. UNCHANGED <<active, terminal, epoch>>
      BY <2>2 DEF Fails, GivesUp
    <3>2. recent' \subseteq recent
      BY <2>2 DEF Fails, GivesUp
    <3>3. status' \in {status, "failed", "unknown"}
      BY <2>2 DEF Fails, GivesUp
    <3> QED BY <3>1, <3>2, <3>3
  <2> QED BY <1>2, <2>1, <2>2
<1>3. ASSUME NEW t \in Tasks, SteerAsks(t) PROVE MemoryTypes'
  <2>1. job[t].msg \in Messages
    BY <1>3 DEF SteerAsks, JobInv, JobFits
  <2>2. recent' \subseteq Messages
    BY <1>3, <2>1 DEF SteerAsks
  <2>3. active' \in Nat
    BY <1>3 DEF SteerAsks, EngineTypes
  <2> QED BY <1>3, <2>2, <2>3 DEF SteerAsks
<1>4. ASSUME NEW t \in Tasks, SendSettles(t) \/ CompactSettles(t) \/ SteerSettles(t)
             \/ Late(t) \/ ReconcilerSettles(t)
      PROVE  MemoryTypes'
  <2>1. job[t].turn \in Nat
    BY DEF JobInv, Jobs
  <2>2. SendSettles(t) \/ Late(t) => job[t].msg \in Messages
    BY DEF SendSettles, Late, JobInv, JobFits
  <2>3. CASE SendSettles(t) \/ ReconcilerSettles(t)
    BY <2>1, <2>2, <2>3 DEF SendSettles, ReconcilerSettles, Settles
  <2>4. CASE CompactSettles(t) \/ SteerSettles(t) \/ Late(t)
    BY <2>1, <2>2, <2>4 DEF CompactSettles, SteerSettles, Late, EngineTypes
  <2> QED BY <1>4, <2>3, <2>4
<1>5. CASE UNCHANGED <<active, terminal, recent, epoch, status>>
  BY <1>5
<1>6. ASSUME NEW t \in Tasks, Submit(t) \/ TimesOut(t) \/ Sweep(t) \/ Gate(t) \/ Enter(t)
             \/ Ask(t) \/ Recheck(t) \/ Look(t) \/ Relock(t) \/ Read(t)
      PROVE  MemoryTypes'
  BY <1>5, <1>6 DEF Submit, TimesOut, Sweep, Gate, Enter, Ask, Recheck, Look, Relock, Read,
     memory
<1>7. CASE AppServer \/ HandleItem \/ MaintenanceReads \/ ViewReads \/ UNCHANGED vars
  BY <1>5, <1>7 DEF AppServer, Begins, Steers, Refuses, Works, Ends, Exits, Lags, HandleItem,
     MaintenanceReads, ViewReads, vars, memory
<1>8. CASE HandleStarted \/ HandleCompleted \/ HandleItemLocked
  <2>1. Head(events).turn \in Turns
    BY <1>8, HeadTypes DEF HandleStarted, HandleCompleted, HandleItemLocked, Incoming,
       EventTypes, PeekFits
  <2>2. active' \in Nat /\ terminal' \subseteq terminal \cup {Head(events).turn}
    BY <1>8, <2>1 DEF HandleStarted, HandleCompleted, HandleItemLocked
  <2>3. status' \in {status, "running", "completed"}
    BY <1>8 DEF HandleStarted, HandleCompleted, HandleItemLocked
  <2>4. UNCHANGED <<recent, epoch>>
    BY <1>8 DEF HandleStarted, HandleCompleted, HandleItemLocked
  <2> QED BY <2>1, <2>2, <2>3, <2>4
<1>9. CASE HandleActive \/ HandleIdle \/ HandleExited
  <2>1. active' \in {active, running, NoTurn} /\ epoch' \in {epoch, epoch + 1}
    BY <1>9 DEF HandleActive, HandleIdle, HandleExited, Sees
  <2>2. status' \in {status, "running", "completed", "failed"}
    BY <1>9 DEF HandleActive, HandleIdle, HandleExited
  <2>3. recent' = recent /\ terminal' \subseteq terminal \cup ({active} \ {NoTurn})
    BY <1>9 DEF HandleActive, HandleIdle, HandleExited
  <2> QED BY <2>1, <2>2, <2>3 DEF EngineTypes
<1>10. CASE MaintenanceClears
  BY <1>10 DEF MaintenanceClears
<1>11. CASE MaintenanceMarks
  BY <1>11, TerminalTypes DEF MaintenanceMarks, ViewTypes
<1>12. CASE ResolveApplies \/ ProbeApplies \/ ProbeGivesUp \/ DetailApplies
  <2>1. active' \in {active, view.turn, NoTurn} /\ epoch' \in {epoch, epoch + 1}
    BY <1>12 DEF ResolveApplies, ProbeApplies, ProbeGivesUp, DetailApplies
  <2>2. status' \in {status, "completed"} /\ UNCHANGED <<recent, terminal>>
    BY <1>12 DEF ResolveApplies, ProbeApplies, ProbeGivesUp, DetailApplies
  <2> QED BY <2>1, <2>2 DEF ViewTypes
<1>13. ASSUME NEW t \in Tasks, Dropped(t) PROVE MemoryTypes'
  <2>1. UNCHANGED <<terminal, epoch, status>>
    BY <1>13 DEF Dropped
  <2>2. job[t].turn \in Nat
    BY DEF JobInv, Jobs
  <2>3. Interrupted(t)
    BY <1>13 DEF Dropped
  <2>4. active' \in {active, job[t].turn, running}
    BY <2>3 DEF Interrupted
  <2>5. job[t].msg \in Messages \cup {NoMessage}
    BY DEF JobInv, Jobs
  <2>6. pc[t] \in {"answered", "late"} /\ job[t].kind = "send" => job[t].msg \in Messages
    BY DEF JobInv, JobFits
  <2>7. recent' \subseteq Messages
    BY <2>3, <2>5, <2>6 DEF Interrupted
  <2> QED BY <2>1, <2>2, <2>4, <2>7 DEF EngineTypes
<1> QED
  BY <1>1, <1>2, <1>3, <1>4, <1>6, <1>7, <1>8, <1>9, <1>10, <1>11, <1>12, <1>13
  DEF Next, Task, Monitor, Maintenance, Views

LEMMA TypeStep ==
  ASSUME TypeInv, [Next]_vars
  PROVE  TypeInv'
  BY JobStep, FlagStep, EngineStep, BoundStep, InboxStep, EventStep, MemoryStep, LockStep,
     ViewStep DEF TypeInv

\* Every variable keeps its type.
THEOREM TurnTypesCorrect == Spec => []TypeOK
<1>1. Init => TypeInv
  BY InitTypes
<1>2. TypeInv /\ [Next]_vars => TypeInv'
  BY TypeStep
<1>3. TypeInv => TypeOK
  BY TypeInvTypes
<1> QED BY <1>1, <1>2, <1>3, PTL DEF Spec

----------------------------------------------------------------------------
(* The session's operation lock.                                            *)

\* What app-server does to a request moves the task that waits for it, if any.
LEMMA TaskAnswered ==
  ASSUME TypeInv, NEW r \in inbox, Begins(r) \/ Steers(r) \/ Refuses(r)
  PROVE  /\ r.task \in Tasks
         /\ \/ pc' = pc
            \/ /\ pc[r.task] = "asked"
               /\ \E step \in {"answered", "failing"} : pc' = [pc EXCEPT ![r.task] = step]
         /\ job' = job \/ \E turn \in TurnOrNo : job' = [job EXCEPT ![r.task].turn = turn]
<1>1. r.task \in Tasks
  BY DEF TypeInv, InboxTypes, Requests
<1>2. ASSUME NEW turn \in TurnOrNo, Answer(r, turn)
      PROVE  /\ pc' = pc \/ (pc[r.task] = "asked" /\ pc' = [pc EXCEPT ![r.task] = "answered"])
             /\ job' = job \/ job' = [job EXCEPT ![r.task].turn = turn]
  <2>1. CASE pc[r.task] = "asked"
    BY <1>2, <2>1 DEF Answer, Goes
  <2>2. CASE pc[r.task] # "asked"
    BY <1>2, <2>2 DEF Answer, tasks
  <2> QED BY <2>1, <2>2
<1>3. ASSUME pc' = [pc EXCEPT ![r.task] = IF @ = "asked" THEN "failing" ELSE @]
      PROVE  pc' = pc \/ (pc[r.task] = "asked" /\ pc' = [pc EXCEPT ![r.task] = "failing"])
  <2>1. pc \in [Tasks -> Steps]
    BY DEF TypeInv, JobInv
  <2>2. CASE pc[r.task] = "asked"
    BY <1>3, <2>2
  <2>3. CASE pc[r.task] # "asked"
    BY <1>1, <1>3, <2>1, <2>3
  <2> QED BY <2>2, <2>3
<1>4. CASE Begins(r)
  <2>1. running' \in TurnOrNo /\ Answer(r, running')
    BY <1>4 DEF Begins, TypeInv, EngineTypes, TurnOrNo
  <2> QED BY <1>1, <1>2, <2>1
<1>5. CASE Steers(r)
  <2>1. CASE Answer(r, running)
    BY <1>1, <1>2, <2>1 DEF TypeInv, EngineTypes
  <2>2. CASE pc' = [pc EXCEPT ![r.task] = IF @ = "asked" THEN "failing" ELSE @] /\ job' = job
    BY <1>1, <1>3, <2>2
  <2> QED BY <1>5, <2>1, <2>2 DEF Steers
<1>6. CASE Refuses(r)
  BY <1>1, <1>3, <1>6 DEF Refuses
<1> QED BY <1>4, <1>5, <1>6

\* A task at work on a send, a compaction or a steer has the lock.
Working == {"check", "start", "ask", "asked", "answered", "late", "failing"}
LockInv == \A t \in Tasks : pc[t] \in Working => sessionLock = t

\* A task takes the lock when it is free, goes on with what it has, or releases it
\* and is at work no more.
LEMMA LockInvStep ==
  ASSUME TypeInv, LockInv, [Next]_vars
  PROVE  LockInv'
<1> USE TurnConstants DEF TypeInv, JobInv, LockInv, Working, Steps
<1>1. ASSUME NEW t \in Tasks, NEW step \in Steps, Goes(t, step),
             \/ SessionFree /\ sessionLock' = t
             \/ sessionLock' = sessionLock /\ (step \in Working => pc[t] \in Working)
             \/ (SessionFree \/ pc[t] \in Working) /\ step \notin Working
                /\ sessionLock' \in {NoOne, sessionLock}
      PROVE  LockInv'
  BY <1>1 DEF Goes, SessionFree
<1>2. ASSUME NEW t \in Tasks, Submit(t) \/ Sweep(t) \/ SweepMarks(t) \/ Gate(t) \/ Recheck(t)
             \/ Look(t) \/ Read(t) \/ ReconcilerSettles(t) \/ GivesUp(t)
      PROVE  LockInv'
  <2>1. sessionLock' = sessionLock
    BY <1>2 DEF Submit, Sweep, SweepMarks, Gate, Recheck, Look, Read, ReconcilerSettles,
       GivesUp, locks
  <2>2. \E step \in Steps \ Working : Goes(t, step)
    BY <1>2 DEF Submit, Sweep, SweepMarks, Gate, Recheck, Look, Read, NextTry,
       ReconcilerSettles, GivesUp, Returns, Goes
  <2> QED BY <1>1, <2>1, <2>2
<1>3. ASSUME NEW t \in Tasks, Check(t) \/ BeginStart(t) \/ Ask(t) \/ TimesOut(t)
      PROVE  LockInv'
  <2>1. sessionLock' = sessionLock /\ pc[t] \in Working
    BY <1>3 DEF Check, BeginStart, Ask, TimesOut, locks
  <2>2. \E step \in Steps : Goes(t, step)
    BY <1>3 DEF Check, BeginStart, Ask, TimesOut
  <2> QED BY <1>1, <2>1, <2>2
<1>4. ASSUME NEW t \in Tasks, Enter(t) \/ SteerAsks(t) \/ Relock(t)
      PROVE  LockInv'
  <2>1. SessionFree
    BY <1>4 DEF Enter, SteerAsks, Relock
  <2>2. CASE Returns(t) /\ sessionLock' = sessionLock
    BY <2>2, <1>1 DEF Returns, Goes
  <2>3. CASE sessionLock' = t /\ (Goes(t, "check") \/ Goes(t, "asked") \/ Goes(t, "wedged"))
    BY <2>1, <2>3, <1>1
  <2>4. Enter(t) => \/ Returns(t) /\ sessionLock' = sessionLock
                    \/ sessionLock' = t /\ Goes(t, "check")
    BY DEF Enter
  <2>5. SteerAsks(t) => \/ Returns(t) /\ sessionLock' = sessionLock
                        \/ sessionLock' = t /\ Goes(t, "asked")
    BY DEF SteerAsks
  <2>6. Relock(t) => sessionLock' = t /\ Goes(t, "wedged")
    BY DEF Relock
  <2> QED BY <1>4, <2>2, <2>3, <2>4, <2>5, <2>6
<1>5. ASSUME NEW t \in Tasks, SendSettles(t) \/ CompactSettles(t) \/ SteerSettles(t)
             \/ Late(t) \/ Fails(t)
      PROVE  LockInv'
  <2>1. pc[t] \in Working /\ sessionLock' \in {NoOne, sessionLock}
    BY <1>5 DEF SendSettles, CompactSettles, SteerSettles, Late, Fails
  <2>2. \E step \in Steps \ Working : Goes(t, step)
    BY <1>5 DEF SendSettles, CompactSettles, SteerSettles, Late, Fails, Returns, Goes
  <2> QED BY <1>1, <2>1, <2>2
<1>6. ASSUME sessionLock' = sessionLock,
             \A t \in Tasks : pc'[t] \in Working => pc[t] \in Working
      PROVE  LockInv'
  BY <1>6
<1>7. ASSUME NEW r \in inbox, Begins(r) \/ Steers(r) \/ Refuses(r) PROVE LockInv'
  <2>1. r.task \in Tasks
    BY DEF InboxTypes, Requests
  <2>2. sessionLock' = sessionLock
    BY <1>7 DEF Begins, Steers, Refuses, locks
  <2>3. \/ pc' = pc
        \/ /\ pc[r.task] = "asked"
           /\ \E step \in Working : pc' = [pc EXCEPT ![r.task] = step]
    BY <1>7, <2>1, TaskAnswered
  <2> QED BY <1>6, <2>1, <2>2, <2>3
<1>8. CASE Exits
  BY <1>6, <1>8 DEF Exits, locks
<1>9. CASE Works \/ Ends \/ Lags \/ Monitor \/ Maintenance \/ Views \/ UNCHANGED vars
  <2>1. UNCHANGED <<pc, sessionLock>>
    BY <1>9 DEF Works, Ends, Lags, Monitor, HandleStarted, HandleCompleted, HandleItem,
       HandleItemLocked, HandleActive, HandleIdle, HandleExited, Maintenance,
       MaintenanceClears, MaintenanceReads, MaintenanceMarks, Views, ViewReads,
       ResolveApplies, ProbeApplies, ProbeGivesUp, DetailApplies, vars, tasks, locks
  <2> QED BY <1>6, <2>1
<1>10. ASSUME NEW t \in Tasks, Dropped(t) PROVE LockInv'
  <2>1. sessionLock' = IF sessionLock = t THEN NoOne ELSE sessionLock
    BY <1>10 DEF Dropped
  <2>2. pc' = [pc EXCEPT ![t] = "idle"]
    BY <1>10 DEF Dropped, Returns
  <2> QED BY <2>1, <2>2
<1> QED
  BY <1>2, <1>3, <1>4, <1>5, <1>7, <1>8, <1>9, <1>10 DEF Next, Task, AppServer

\* Of the sends, compactions and steers of a session one is at work at a time: they
\* share the lock, and keep it from their first look at the turn to their end.
THEOREM OneOperationAtATime == Spec => []OperationsExclude
<1>1. Init => TypeInv /\ LockInv
  BY InitTypes DEF Init, LockInv, Working
<1>2. TypeInv /\ LockInv /\ [Next]_vars => (TypeInv /\ LockInv)'
  BY TypeStep, LockInvStep
<1>3. LockInv => OperationsExclude
  BY DEF LockInv, OperationsExclude, Locked, Starting, Working
<1> QED BY <1>1, <1>2, <1>3, PTL DEF Spec

----------------------------------------------------------------------------
(* The owner of a pending start.                                            *)

\* The task that is going to clear the pending mark, or to settle it.
Owns(t) == \/ Starting(t)
           \/ Reconciling(t) /\ Current(t)
           \/ pc[t] \in {"relock", "stuck", "wedged"}

\* Unless a step clears the mark, the owner keeps being one, or the mark is new and
\* its owner is the task that set it, or the owner is dropped.
LEMMA OwnerStep ==
  ASSUME TypeInv, PendingHasOwner, [Next]_vars
  PROVE  PendingHasOwner'
<1> USE DEF TypeInv, JobInv, Jobs, Owns, Starting, Reconciling, Current
<1>1. ASSUME ~pending' PROVE PendingHasOwner'
  BY <1>1 DEF PendingHasOwner
<1>2. ASSUME UNCHANGED <<pc, job>>, UNCHANGED <<pending, left>>, epoch' = epoch
      PROVE  PendingHasOwner'
  BY <1>2 DEF PendingHasOwner
<1>3. ASSUME NEW t \in Tasks, UNCHANGED <<pending, left, epoch>>,
             \A u \in Tasks \ {t} : pc'[u] = pc[u] /\ job'[u] = job[u],
             Owns(t) => Owns(t)'
      PROVE  PendingHasOwner'
  BY <1>3 DEF PendingHasOwner
<1>4. ASSUME NEW t \in Tasks, Submit(t) \/ Sweep(t) \/ Gate(t) \/ SteerAsks(t) \/ SteerSettles(t)
      PROVE  PendingHasOwner'
  <2>1. UNCHANGED <<pending, left, epoch>> /\ ~Owns(t)
    BY <1>4 DEF Submit, Sweep, Gate, SteerAsks, SteerSettles, memory
  <2>2. \A u \in Tasks \ {t} : pc'[u] = pc[u] /\ job'[u] = job[u]
    BY <1>4 DEF Submit, Sweep, Gate, SteerAsks, SteerSettles, Goes, Returns
  <2> QED BY <1>3, <2>1, <2>2
<1>5. ASSUME NEW t \in Tasks, SweepMarks(t) PROVE PendingHasOwner'
  BY <1>1, <1>5 DEF SweepMarks, MarksTerminal, Unmarks
<1>6. ASSUME NEW t \in Tasks, Enter(t) PROVE PendingHasOwner'
  <2>1. CASE pending
    BY <1>3, <1>6, <2>1 DEF Enter, Returns
  <2>2. CASE ~pending
    BY <1>6, <2>2 DEF Enter, Goes, PendingHasOwner
  <2> QED BY <2>1, <2>2
<1>7. ASSUME NEW t \in Tasks, Check(t) \/ BeginStart(t) \/ Ask(t) \/ TimesOut(t)
      PROVE  PendingHasOwner'
  <2>1. UNCHANGED <<pending, left, epoch, job>>
    BY <1>7 DEF Check, BeginStart, Ask, TimesOut, memory
  <2>2. pc[t] \in Working /\ \E step \in Working : pc' = [pc EXCEPT ![t] = step]
    BY <1>7 DEF Check, BeginStart, Ask, TimesOut, Goes, Working
  <2> QED BY <1>3, <2>1, <2>2 DEF Working
<1>8. ASSUME NEW t \in Tasks, SendSettles(t) \/ CompactSettles(t) PROVE PendingHasOwner'
  BY <1>1, <1>8 DEF SendSettles, CompactSettles, Settles, Unmarks
<1>9. ASSUME NEW t \in Tasks, Late(t) PROVE PendingHasOwner'
  BY <1>3, <1>9 DEF Late, Goes
<1>10. ASSUME NEW t \in Tasks, Fails(t) PROVE PendingHasOwner'
  <2>1. CASE job[t].kind = "steer"
    BY <1>3, <1>10, <2>1 DEF Fails, Returns
  <2>2. CASE job[t].kind # "steer"
    BY <1>1, <1>10, <2>2 DEF Fails, Unmarks
  <2> QED BY <2>1, <2>2
<1>11. ASSUME NEW t \in Tasks, Recheck(t) PROVE PendingHasOwner'
  <2>1. CASE ~pending
    BY <1>1, <1>11, <2>1 DEF Recheck, memory
  <2>2. CASE pending
    BY <1>3, <1>11, <2>2 DEF Recheck, Goes, Returns, memory
  <2> QED BY <2>1, <2>2
<1>12. ASSUME NEW t \in Tasks, Look(t) \/ Relock(t) PROVE PendingHasOwner'
  BY <1>3, <1>12 DEF Look, Relock, Goes, memory
<1>13. ASSUME NEW t \in Tasks, Read(t) PROVE PendingHasOwner'
  <2>1. UNCHANGED <<pending, left, epoch>> /\ pc[t] = "read"
    BY <1>13 DEF Read, memory
  <2>2. \E step \in {"settle", "giveup", "recheck"} : pc' = [pc EXCEPT ![t] = step]
    BY <1>13 DEF Read, NextTry, Goes
  <2>3. job'[t].fence = job[t].fence /\ \A u \in Tasks \ {t} : job'[u] = job[u]
    BY <1>13 DEF Read
  <2> QED BY <1>3, <2>1, <2>2, <2>3
<1>14. ASSUME NEW t \in Tasks, ReconcilerSettles(t) \/ GivesUp(t) PROVE PendingHasOwner'
  <2>1. CASE Current(t)
    BY <1>1, <1>14, <2>1 DEF ReconcilerSettles, GivesUp, Settles, Unmarks
  <2>2. CASE ~Current(t)
    BY <1>3, <1>14, <2>2 DEF ReconcilerSettles, GivesUp, Returns
  <2> QED BY <2>1, <2>2
<1>15. ASSUME NEW r \in inbox, Begins(r) \/ Steers(r) \/ Refuses(r) PROVE PendingHasOwner'
  <2>1. UNCHANGED <<pending, left, epoch>>
    BY <1>15 DEF Begins, Steers, Refuses, memory
  <2>2. r.task \in Tasks /\ \A u \in Tasks \ {r.task} : pc'[u] = pc[u] /\ job'[u] = job[u]
    BY <1>15, TaskAnswered
  <2>3. \/ pc'[r.task] = pc[r.task]
        \/ pc[r.task] = "asked" /\ pc'[r.task] \in {"answered", "failing"}
    BY <1>15, TaskAnswered
  <2>4. job'[r.task].kind = job[r.task].kind /\ job'[r.task].fence = job[r.task].fence
    <3>1. CASE job' = job
      BY <3>1
    <3>2. ASSUME NEW turn \in TurnOrNo, job' = [job EXCEPT ![r.task].turn = turn]
          PROVE  /\ job'[r.task].kind = job[r.task].kind
                 /\ job'[r.task].fence = job[r.task].fence
      BY <2>2, <3>2
    <3> QED BY <1>15, <3>1, <3>2, TaskAnswered
  <2> QED BY <1>3, <2>1, <2>2, <2>3, <2>4
<1>16. CASE Exits
  <2>1. UNCHANGED <<pending, left, epoch, job>>
    BY <1>16 DEF Exits, memory
  <2>2. \A t \in Tasks : Owns(t) => Owns(t)'
    BY <1>16, <2>1 DEF Exits
  <2> QED BY <2>1, <2>2 DEF PendingHasOwner
<1>17. CASE Works \/ Ends \/ Lags \/ HandleCompleted \/ HandleItem \/ HandleItemLocked
            \/ HandleActive \/ MaintenanceReads \/ ViewReads \/ ResolveApplies
            \/ ProbeApplies \/ UNCHANGED vars
  <2>1. UNCHANGED <<pc, job, pending, left, epoch>>
    BY <1>17 DEF Works, Ends, Lags, HandleCompleted, HandleItem, HandleItemLocked,
       HandleActive, MaintenanceReads, ViewReads, ResolveApplies, ProbeApplies, vars, tasks,
       memory
  <2> QED BY <1>2, <2>1
<1>18. CASE HandleStarted \/ HandleExited \/ MaintenanceClears \/ ProbeGivesUp
  BY <1>1, <1>18 DEF HandleStarted, HandleExited, MaintenanceClears, ProbeGivesUp, Unmarks
<1>19. CASE HandleIdle \/ MaintenanceMarks \/ DetailApplies
  <2>1. UNCHANGED <<pc, job, epoch>>
    BY <1>19 DEF HandleIdle, MaintenanceMarks, DetailApplies, tasks
  <2>2. Unmarks \/ UNCHANGED <<pending, left>>
    <3>1. CASE HandleIdle
      BY <3>1 DEF HandleIdle
    <3>2. CASE MaintenanceMarks
      BY <3>2 DEF MaintenanceMarks, MarksTerminal
    <3>3. CASE DetailApplies
      BY <3>3 DEF DetailApplies
    <3> QED BY <1>19, <3>1, <3>2, <3>3
  <2> QED BY <1>1, <1>2, <2>1, <2>2 DEF Unmarks
<1>20. ASSUME NEW t \in Tasks, Dropped(t) PROVE PendingHasOwner'
  <2>1. /\ pending' = pending \/ pending' = FALSE
        /\ epoch' = epoch /\ pc[t] \in RequestSteps
    <3>1. Interrupted(t)
      BY <1>20 DEF Dropped
    <3>2. pending' = pending \/ pending' = FALSE
      BY <3>1 DEF Interrupted
    <3>3. epoch' = epoch /\ pc[t] \in RequestSteps
      BY <1>20, Zenon DEF Dropped
    <3> QED BY <3>2, <3>3
  <2>2. \A u \in Tasks \ {t} : pc'[u] = pc[u] /\ job'[u] = job[u]
    BY <1>20 DEF Dropped, Returns
  <2>3. Owns(t) => Starting(t) \/ pc[t] = "stuck"
    BY <2>1 DEF RequestSteps
  <2>4. (left => left') /\ (pending' /\ (Starting(t) \/ pc[t] = "stuck") => left')
    BY <1>20, Zenon DEF Dropped
  <2> QED BY <2>1, <2>2, <2>3, <2>4 DEF PendingHasOwner
<1> QED
  BY <1>4, <1>5, <1>6, <1>7, <1>8, <1>9, <1>10, <1>11, <1>12, <1>13, <1>14, <1>15,
     <1>16, <1>17, <1>18, <1>19, <1>20
  DEF Next, Task, AppServer, Monitor, Maintenance, Views

\* A pending start is left to nobody by a dropped handler only, whatever exits,
\* time-outs, views and maintenance do to it: else a session is not blocked by a mark
\* that no task will clear.
THEOREM PendingStartIsOwned == Spec => []PendingHasOwner
<1>1. Init => TypeInv /\ PendingHasOwner
  BY InitTypes DEF Init, PendingHasOwner
<1>2. TypeInv /\ PendingHasOwner /\ [Next]_vars => (TypeInv /\ PendingHasOwner)'
  BY TypeStep, OwnerStep
<1> QED BY <1>1, <1>2, PTL DEF Spec

----------------------------------------------------------------------------
(* A late item and a turn that is over.                                     *)

\* The item handler's second check, with the lock, is what decides, and it asks again
\* whether the turn is over: no step between the two checks makes it take a turn that
\* is known to be over.
THEOREM ItemsBringNothingBack == Spec => NoResurrection
<1>1. ASSUME [Next]_vars, peeked, ~peeked' PROVE active' = active \/ active' \notin terminal
  <2>1. ASSUME NEW t \in Tasks, Submit(t) \/ Task(t) \/ TimesOut(t) \/ Dropped(t)
        PROVE  peeked' = peeked
    <3>1. CASE Submit(t)
      BY <3>1, Zenon DEF Submit, watchers
    <3>2. CASE Task(t) \/ TimesOut(t) \/ Dropped(t)
      BY <3>2 DEF Task, TimesOut, Dropped, Sweep, SweepMarks, Gate, Enter, Check, BeginStart, Ask,
         SteerAsks, SendSettles, CompactSettles, SteerSettles, Late, Fails, Recheck, Look,
         Relock, Read, ReconcilerSettles, GivesUp, watchers
    <3> QED BY <2>1, <3>1, <3>2
  <2>2. ASSUME AppServer \/ UNCHANGED vars PROVE peeked' = peeked
    BY <2>2 DEF AppServer, Begins, Steers, Refuses, Works, Ends, Exits, Lags, watchers, vars
  <2>3. ASSUME Maintenance \/ Views PROVE peeked' = peeked
    BY <2>3 DEF Maintenance, Views, MaintenanceClears, MaintenanceReads, MaintenanceMarks,
       ViewReads, ResolveApplies, ProbeApplies, ProbeGivesUp, DetailApplies, watchers
  <2>4. ASSUME HandleStarted \/ HandleCompleted \/ HandleActive \/ HandleIdle \/ HandleExited
        PROVE  peeked' = peeked
    BY <2>4 DEF HandleStarted, HandleCompleted, HandleActive, HandleIdle, HandleExited, watchers
  <2>5. ~HandleItem
    BY <1>1 DEF HandleItem
  <2>6. HandleItemLocked
    <3>1. ~UNCHANGED vars /\ ~AppServer /\ ~Maintenance /\ ~Views
      BY <1>1, <2>2, <2>3, Zenon
    <3>2. \A t \in Tasks : ~(Submit(t) \/ Task(t) \/ TimesOut(t) \/ Dropped(t))
      BY <1>1, <2>1, Zenon
    <3>3. ~(HandleStarted \/ HandleCompleted \/ HandleActive \/ HandleIdle \/ HandleExited)
      BY <1>1, <2>4, Zenon
    <3> QED BY <1>1, <2>5, <3>1, <3>2, <3>3, Zenon DEF Next, Monitor
  <2>7. HandleItemLocked => active' = active \/ active' \notin terminal
    BY DEF HandleItemLocked
  <2> QED BY <2>6, <2>7
<1> QED BY <1>1, PTL DEF Spec, NoResurrection

----------------------------------------------------------------------------
(* What the gateway has once all is quiet, where requests are answered,     *)
(* processes live, no notification is lost, and nothing but maintenance     *)
(* repairs.                                                                 *)

Faultless == Faults \subseteq {"reject"} /\ Background \subseteq {"maintenance"}

\* Nothing is under way that only exits, time-outs, drops and views lead to.
SteadyInv ==
  /\ alive = TRUE
  /\ left = FALSE
  /\ view = NoView
  /\ \A t \in Tasks : pc[t] \in {"idle", "sweep", "gate", "want", "check", "start", "ask",
                                 "asked", "answered", "failing"}
  /\ \A i \in DOMAIN events : events[i].kind # "exited"

\* No turn is named that has not begun, and what maintenance suspects does not run.
NumbersInv ==
  /\ running <= started
  /\ active <= started
  /\ \A i \in DOMAIN events : events[i].turn <= started
  /\ \A t \in Tasks : job[t].turn <= started
  /\ \A x \in suspect : x <= started /\ (x # NoTurn => x # running)

\* The notifications come in order: before those of the running turn is its start, and
\* the last of a thread at rest is "idle".
Begun == [kind |-> "started", turn |-> running]
Item  == [kind |-> "item", turn |-> running]
Before(i)  == \E j \in DOMAIN events : i < j /\ events[j] = Begun
FlowInv ==
  /\ running # NoTurn => \A i \in DOMAIN events : events[i] \in {Begun, Item} \/ Before(i)
  /\ running = NoTurn /\ events # <<>> => events[Len(events)].kind = "idle"

\* A start at work has its mark, it and nobody else leaves the session at `starting',
\* and an answered task has heard of a turn whose end has not been handled.
Announced  == \E i \in DOMAIN events : events[i] = Begun
Ending     == \E i \in DOMAIN events : events[i].kind = "completed"
Informed(t) == (running # NoTurn /\ job[t].turn = running) \/ Ending
Launching(t) == job[t].kind # "steer" /\ pc[t] \in {"ask", "asked", "answered", "failing"}
TaskInv ==
  /\ \A t \in Tasks : Starting(t) => pending
  /\ \A t \in Tasks : pc[t] = "start" => active = NoTurn
  /\ \A t \in Tasks : pc[t] = "answered" /\ job[t].kind # "compact" => Informed(t)
  /\ status = "starting" => \E t \in Tasks : Launching(t)

\* Only a steer names a turn, and it does not pass the steps of a start.
KindInv ==
  /\ \A t \in Tasks : pc[t] \in {"sweep", "gate", "check", "start", "ask"} => job[t].kind # "steer"
  /\ \A r \in inbox : r.kind = "steer" => r.turn # NoTurn

\* A turn that runs is known, or its start is still to be handled; a turn that does not
\* is not, once all is handled.
TruthInv ==
  /\ running # NoTurn => Announced \/ (active = running /\ status = "running")
  /\ running = NoTurn /\ events = <<>> => active = NoTurn /\ status # "running"

AgreeInv == SteadyInv /\ NumbersInv /\ FlowInv /\ TaskInv /\ KindInv /\ TruthInv

LEMMA InitAgrees == Init => AgreeInv
  BY DEF Init, AgreeInv, SteadyInv, NumbersInv, FlowInv, TaskInv, KindInv, TruthInv, NoJob, NoTurn,
     Starting, Launching

\* The steps that are left.
CalmTask(t) ==
  \/ Submit(t) \/ Gate(t) \/ Enter(t) \/ Check(t) \/ BeginStart(t) \/ Ask(t) \/ SteerAsks(t)
  \/ SendSettles(t) \/ CompactSettles(t) \/ SteerSettles(t) \/ Fails(t)
  \/ Sweep(t) /\ Goes(t, "gate") /\ UNCHANGED job

CalmMonitor == HandleStarted \/ HandleCompleted \/ HandleItem \/ HandleItemLocked
               \/ HandleActive \/ HandleIdle

CalmNext == \/ \E t \in Tasks : CalmTask(t)
            \/ CalmMonitor \/ MaintenanceReads \/ MaintenanceMarks
            \/ \E r \in inbox : Begins(r) \/ Steers(r) \/ Refuses(r)
            \/ Works \/ Ends

LEMMA CalmIsNext == CalmNext => Next
  BY DEF CalmNext, CalmTask, CalmMonitor, Next, Task, Monitor, Maintenance, AppServer

LEMMA CalmSteps ==
  ASSUME Faultless, TypeInv, SteadyInv, Next
  PROVE  CalmNext
<1>1. \A f \in {"timeout", "exit", "lag", "drop"} : ~Fault(f)
  BY DEF Faultless, Fault
<1>2. ASSUME NEW t \in Tasks
      PROVE /\ ~SweepMarks(t) /\ ~Late(t) /\ ~Recheck(t) /\ ~Look(t) /\ ~Relock(t)
            /\ ~Read(t) /\ ~ReconcilerSettles(t) /\ ~GivesUp(t)
  BY DEF SteadyInv, SweepMarks, Late, Recheck, Look, Relock, Read, ReconcilerSettles, GivesUp
<1>3. ASSUME NEW t \in Tasks, Sweep(t) PROVE CalmTask(t)
  BY <1>3 DEF Sweep, SteadyInv, CalmTask
<1>4. ASSUME NEW t \in Tasks PROVE ~TimesOut(t) /\ ~Dropped(t)
  BY <1>1 DEF TimesOut, Dropped
<1>5. ~Exits /\ ~Lags /\ ~ProbeGivesUp
  BY <1>1 DEF Exits, Lags, ProbeGivesUp
<1>6. ~MaintenanceClears
  BY DEF MaintenanceClears, SteadyInv
<1>7. ~ViewReads
  BY DEF ViewReads, Faultless
<1>8. ~ResolveApplies /\ ~ProbeApplies /\ ~DetailApplies
  BY DEF ResolveApplies, ProbeApplies, DetailApplies, SteadyInv, NoView
<1>9. ~HandleExited
  <2>1. events # <<>> => 1 \in DOMAIN events /\ Head(events) = events[1]
    BY DEF TypeInv, EventTypes
  <2> QED BY <2>1 DEF HandleExited, Incoming, SteadyInv
<1>10. ASSUME NEW t \in Tasks, Task(t) PROVE CalmTask(t)
  BY <1>2, <1>3, <1>10 DEF Task, CalmTask
<1> QED
  BY <1>4, <1>5, <1>6, <1>7, <1>8, <1>9, <1>10
  DEF Next, Monitor, Maintenance, Views, AppServer, CalmNext, CalmTask, CalmMonitor

----------------------------------------------------------------------------
(* The notifications.                                                       *)

\* What is left when the first is handled.
LEMMA TailIs ==
  ASSUME EventTypes, events # <<>>
  PROVE  /\ 1 \in DOMAIN events /\ Head(events) = events[1]
         /\ Len(events) \in DOMAIN events
         /\ \A i \in DOMAIN events : i # 1 => i - 1 \in DOMAIN Tail(events)
                                              /\ Tail(events)[i - 1] = events[i]
         /\ \A i \in DOMAIN Tail(events) : i \in Nat /\ i + 1 \in DOMAIN events
                                           /\ Tail(events)[i] = events[i + 1]
         /\ DOMAIN events \subseteq Nat
         /\ Tail(events) # <<>> => Len(Tail(events)) \in DOMAIN Tail(events)
                                   /\ Tail(events)[Len(Tail(events))] = events[Len(events)]
         /\ Tail(events) = <<>> => Len(events) = 1
<1>1. /\ Tail(events) \in Seq(Events) /\ Len(Tail(events)) = Len(events) - 1
      /\ \A i \in 1 .. Len(Tail(events)) : Tail(events)[i] = events[i + 1]
  BY HeadTailProperties DEF EventTypes
<1>2. /\ DOMAIN events = 1 .. Len(events) /\ Len(events) \in Nat /\ Len(events) # 0
      /\ DOMAIN Tail(events) = 1 .. Len(events) - 1
  BY <1>1, LenProperties, EmptySeq DEF EventTypes
<1>3. Tail(events) = <<>> <=> Len(Tail(events)) = 0
  BY <1>1, EmptySeq
<1>4. Head(events) = events[1]
  OBVIOUS
<1>5. 1 \in DOMAIN events /\ Len(events) \in DOMAIN events /\ DOMAIN events \subseteq Nat
  BY <1>2
<1>6. \A i \in DOMAIN Tail(events) : i \in Nat /\ i + 1 \in DOMAIN events
                                    /\ Tail(events)[i] = events[i + 1]
  BY <1>1, <1>2
<1>7. \A i \in DOMAIN events : i # 1 => i - 1 \in DOMAIN Tail(events)
                                       /\ Tail(events)[i - 1] = events[i]
  BY <1>1, <1>2
<1>8. Tail(events) # <<>> => Len(Tail(events)) \in DOMAIN Tail(events)
                             /\ Tail(events)[Len(Tail(events))] = events[Len(events)]
  BY <1>1, <1>2, <1>3
<1>9. Tail(events) = <<>> => Len(events) = 1
  BY <1>1, <1>2, <1>3
<1> QED BY <1>4, <1>5, <1>6, <1>7, <1>8, <1>9

\* What is there when some are appended.
LEMMA LongerIs ==
  ASSUME EventTypes, NEW s \in Seq(Events), s # <<>>
  PROVE  /\ \A i \in DOMAIN events : i \in Nat /\ i \in DOMAIN (events \o s) /\ (events \o s)[i] = events[i]
         /\ \A i \in DOMAIN s : /\ Len(events) + i \in DOMAIN (events \o s)
                                /\ (events \o s)[Len(events) + i] = s[i]
                                /\ \A k \in DOMAIN events : k < Len(events) + i
         /\ \A i \in DOMAIN (events \o s) :
               i \in DOMAIN events \/ \E k \in DOMAIN s : i = Len(events) + k
         /\ Len(events \o s) = Len(events) + Len(s) /\ events \o s # <<>>
         /\ Len(events) \in Nat
<1>1. /\ events \o s \in Seq(Events) /\ Len(events \o s) = Len(events) + Len(s)
      /\ \A i \in 1 .. Len(events) + Len(s) :
            (events \o s)[i] = IF i <= Len(events) THEN events[i] ELSE s[i - Len(events)]
  BY ConcatProperties DEF EventTypes
<1>2. /\ DOMAIN events = 1 .. Len(events) /\ DOMAIN s = 1 .. Len(s)
      /\ Len(events) \in Nat /\ Len(s) \in Nat /\ Len(s) # 0
      /\ DOMAIN (events \o s) = 1 .. Len(events) + Len(s)
  BY <1>1, LenProperties, EmptySeq DEF EventTypes
<1>3. events \o s # <<>>
  <2>1. Len(events \o s) # 0
    BY <1>1, <1>2
  <2> QED BY <2>1
<1>4. ASSUME NEW i \in DOMAIN (events \o s), i \notin DOMAIN events
      PROVE  \E k \in DOMAIN s : i = Len(events) + k
  <2>1. i - Len(events) \in DOMAIN s
    BY <1>2, <1>4
  <2> QED BY <1>2, <2>1
<1>5. \A i \in DOMAIN events : /\ i \in Nat /\ i \in DOMAIN (events \o s)
                              /\ (events \o s)[i] = events[i]
  BY <1>1, <1>2
<1>6. \A i \in DOMAIN s : /\ Len(events) + i \in DOMAIN (events \o s)
                         /\ (events \o s)[Len(events) + i] = s[i]
                         /\ \A k \in DOMAIN events : k < Len(events) + i
  <2> SUFFICES ASSUME NEW i \in DOMAIN s
               PROVE  /\ Len(events) + i \in DOMAIN (events \o s)
                      /\ (events \o s)[Len(events) + i] = s[i]
                      /\ \A k \in DOMAIN events : k < Len(events) + i
    OBVIOUS
  <2>1. i \in Nat /\ i # 0 /\ Len(events) + i \in 1 .. Len(events) + Len(s)
        /\ ~(Len(events) + i <= Len(events)) /\ (Len(events) + i) - Len(events) = i
    BY <1>2
  <2>2. (events \o s)[Len(events) + i] = s[i]
    BY <1>1, <2>1
  <2> QED BY <1>2, <2>1, <2>2
<1> QED BY <1>1, <1>2, <1>3, <1>4, <1>5, <1>6

StartsWith(n) == <<[kind |-> "active", turn |-> NoTurn], [kind |-> "started", turn |-> n]>>
EndsWith(n)   == <<[kind |-> "completed", turn |-> n], [kind |-> "idle", turn |-> NoTurn]>>

\* What a step makes of app-server's turn and of the notifications.
Rests      == UNCHANGED <<running, started, events>>
Handles    == events # <<>> /\ events' = Tail(events) /\ UNCHANGED <<running, started>>
BeginsTurn == /\ running = NoTurn /\ running' = started + 1 /\ started' = started + 1
              /\ events' = events \o StartsWith(started + 1)
ShowsItem  == /\ running # NoTurn /\ UNCHANGED <<running, started>>
              /\ events' = events \o <<Item>>
EndsTurn   == /\ running # NoTurn /\ running' = NoTurn /\ started' = started
              /\ events' = events \o EndsWith(running)

LEMMA WorksShows ==
  ASSUME TypeInv, Works
  PROVE  ShowsItem
<1>1. events' = Append(events, Item) /\ running # NoTurn /\ UNCHANGED <<running, started>>
  BY Zenon DEF Works, appServer, Item
<1>2. Item \in Events
  BY <1>1 DEF Item, Events, TypeInv, EngineTypes, TurnOrNo, Turns
<1>3. Append(events, Item) = events \o <<Item>>
  BY <1>2, AppendIsConcat DEF TypeInv, EventTypes
<1> QED BY <1>1, <1>3, Zenon DEF ShowsItem

LEMMA FlowMoves ==
  ASSUME TypeInv, CalmNext
  PROVE  /\ Rests \/ Handles \/ BeginsTurn \/ ShowsItem \/ EndsTurn
         /\ CalmMonitor => Rests \/ Handles
         /\ (\E t \in Tasks : CalmTask(t)) \/ MaintenanceReads \/ MaintenanceMarks => Rests
         /\ (\E r \in inbox : Begins(r)) => Rests \/ BeginsTurn
         /\ (\E r \in inbox : Steers(r) \/ Refuses(r)) => Rests
<1>1. ASSUME NEW t \in Tasks, CalmTask(t) PROVE Rests
  <2>1. CASE Gate(t) \/ Enter(t) \/ Check(t) \/ BeginStart(t) \/ Ask(t) \/ Sweep(t)
    BY <2>1 DEF Gate, Enter, Check, BeginStart, Ask, Sweep, Rests, appServer
  <2>2. CASE SteerAsks(t)
    BY <2>2 DEF SteerAsks, Rests
  <2>3. CASE SendSettles(t) \/ CompactSettles(t) \/ SteerSettles(t) \/ Fails(t)
    BY <2>3 DEF SendSettles, CompactSettles, SteerSettles, Fails, Rests, appServer
  <2>4. CASE Submit(t)
    <3>1. UNCHANGED <<appServer, events>>
      BY <2>4, Zenon DEF Submit
    <3> QED BY <3>1 DEF Rests, appServer
  <2> QED BY <1>1, <2>1, <2>2, <2>3, <2>4, Zenon DEF CalmTask
<1>2. ASSUME MaintenanceReads \/ MaintenanceMarks PROVE Rests
  BY <1>2 DEF MaintenanceReads, MaintenanceMarks, Rests, appServer
<1>3. ASSUME CalmMonitor PROVE Rests \/ Handles
  <2>1. CASE HandleStarted \/ HandleCompleted \/ HandleActive \/ HandleIdle
    BY <2>1 DEF HandleStarted, HandleCompleted, HandleActive, HandleIdle, Handles, Handled,
       Incoming, appServer
  <2>2. CASE HandleItem
    BY <2>2, Zenon DEF HandleItem, Rests, Handles, Handled, Incoming, appServer
  <2>3. CASE HandleItemLocked
    <3>1. events # <<>>
      BY <2>3, Zenon DEF HandleItemLocked, TypeInv, EventTypes, PeekFits, Incoming
    <3> QED BY <2>3, <3>1 DEF HandleItemLocked, Handles, Handled
  <2> QED BY <1>3, <2>1, <2>2, <2>3 DEF CalmMonitor
<1>4. ASSUME NEW r \in inbox, Steers(r) \/ Refuses(r) PROVE Rests
  BY <1>4 DEF Steers, Refuses, Rests
<1>5. ASSUME NEW r \in inbox, Begins(r) PROVE Rests \/ BeginsTurn
  BY <1>5 DEF Begins, Rests, BeginsTurn, StartsWith
<1>6. ASSUME Works PROVE ShowsItem
  BY <1>6, WorksShows
<1>7. ASSUME Ends PROVE EndsTurn
  BY <1>7 DEF Ends, EndsTurn, EndsWith
<1> QED BY <1>1, <1>2, <1>3, <1>4, <1>5, <1>6, <1>7 DEF CalmNext

\* The order of the notifications is kept.
LEMMA FlowStep ==
  ASSUME TypeInv, FlowInv, CalmNext
  PROVE  FlowInv'
<1> USE DEF TypeInv
<1>1. CASE Rests
  BY <1>1 DEF Rests, FlowInv, Before, Begun, Item
<1>2. CASE Handles
  <2>1. ASSUME running' # NoTurn, NEW i \in DOMAIN events' PROVE events'[i] \in {Begun, Item}' \/ Before(i)'
    <3>1. running # NoTurn /\ i + 1 \in DOMAIN events /\ events'[i] = events[i + 1] /\ i \in Nat
      BY <1>2, <2>1, TailIs DEF Handles
    <3>2. CASE Before(i + 1)
      <4>1. PICK j \in DOMAIN events : i + 1 < j /\ events[j] = Begun
        BY <3>2 DEF Before
      <4>2. j \in Nat /\ j # 1
        BY <1>2, <3>1, <4>1, TailIs DEF Handles
      <4>3. j - 1 \in DOMAIN events' /\ events'[j - 1] = Begun
        BY <1>2, <4>1, <4>2, TailIs DEF Handles
      <4>4. i < j - 1 /\ Begun' = Begun
        BY <1>2, <3>1, <4>1, <4>2 DEF Handles, Begun
      <4> QED BY <4>3, <4>4 DEF Before
    <3>3. CASE events[i + 1] \in {Begun, Item}
      BY <1>2, <3>1, <3>3 DEF Handles, Begun, Item
    <3> QED BY <3>1, <3>2, <3>3 DEF FlowInv
  <2>2. ASSUME running' = NoTurn, events' # <<>> PROVE events'[Len(events')].kind = "idle"
    <3>1. events'[Len(events')] = events[Len(events)]
      BY <1>2, <2>2, TailIs DEF Handles
    <3> QED BY <1>2, <2>2, <3>1 DEF Handles, FlowInv
  <2> QED BY <2>1, <2>2 DEF FlowInv
<1>3. CASE BeginsTurn
  <2> DEFINE s == StartsWith(started + 1)
  <2>1. started + 1 \in Turns
    BY DEF EngineTypes, Turns, NoTurn
  <2>2. s \in Seq(Events) /\ s # <<>> /\ DOMAIN s = {1, 2} /\ s[2] = [kind |-> "started", turn |-> started + 1]
    BY <2>1 DEF StartsWith, Events
  <2> HIDE DEF s
  <2>3. events' = events \o s /\ running' = started + 1 /\ running' # NoTurn
    BY <1>3, <2>1 DEF BeginsTurn, s, Turns
  <2>4. events'[Len(events) + 2] = Begun' /\ Len(events) + 2 \in DOMAIN events'
    BY <2>2, <2>3, LongerIs DEF Begun
  <2>5. ASSUME NEW i \in DOMAIN events' PROVE i = Len(events) + 2 \/ Before(i)'
    <3>1. i \in DOMAIN events \/ i = Len(events) + 1 \/ i = Len(events) + 2
      BY <2>2, <2>3, <2>5, LongerIs
    <3>2. i \in DOMAIN events => i < Len(events) + 2
      BY <2>2, <2>3, LongerIs
    <3>3. i = Len(events) + 1 => i < Len(events) + 2
      BY <2>2, LongerIs
    <3> QED BY <2>4, <3>1, <3>2, <3>3 DEF Before
  <2> QED BY <2>3, <2>4, <2>5 DEF FlowInv
<1>4. CASE ShowsItem
  <2>1. <<Item>> \in Seq(Events) /\ <<Item>> # <<>> /\ DOMAIN <<Item>> = {1} /\ <<Item>>[1] = Item
    BY <1>4 DEF ShowsItem, Item, Events, EngineTypes, TurnOrNo, Turns
  <2>2. running # NoTurn /\ running' = running /\ Begun' = Begun /\ Item' = Item
    BY <1>4 DEF ShowsItem, Begun, Item
  <2>3. ASSUME NEW i \in DOMAIN events' PROVE events'[i] \in {Begun, Item}' \/ Before(i)'
    <3>1. CASE i \in DOMAIN events
      <4>1. events'[i] = events[i]
        BY <1>4, <2>1, <3>1, LongerIs DEF ShowsItem
      <4>2. Before(i) => Before(i)'
        BY <1>4, <2>1, <2>2, LongerIs DEF ShowsItem, Before
      <4> QED BY <2>2, <3>1, <4>1, <4>2 DEF FlowInv
    <3>2. CASE i = Len(events) + 1
      BY <1>4, <2>1, <2>2, <3>2, LongerIs DEF ShowsItem
    <3> QED BY <1>4, <2>1, <2>3, <3>1, <3>2, LongerIs DEF ShowsItem
  <2> QED BY <2>2, <2>3 DEF FlowInv
<1>5. CASE EndsTurn
  <2> DEFINE s == EndsWith(running)
  <2>1. s \in Seq(Events) /\ s # <<>> /\ DOMAIN s = {1, 2} /\ Len(s) = 2 /\ s[2] = [kind |-> "idle", turn |-> NoTurn]
    BY <1>5 DEF EndsTurn, EndsWith, Events, EngineTypes, TurnOrNo, Turns
  <2> HIDE DEF s
  <2>2. events' = events \o s /\ running' = NoTurn
    BY <1>5 DEF EndsTurn, s
  <2>3. Len(events') = Len(events) + 2 /\ events'[Len(events) + 2] = s[2]
    BY <2>1, <2>2, LongerIs
  <2> QED BY <2>1, <2>2, <2>3 DEF FlowInv
<1> QED BY <1>1, <1>2, <1>3, <1>4, <1>5, FlowMoves

\* What a step makes of a task that waits for the answer of app-server.
LEMMA AnsweredIs ==
  ASSUME TypeInv, KindInv, NEW r \in inbox, Begins(r) \/ Steers(r) \/ Refuses(r)
  PROVE  /\ r.task \in Tasks
         /\ \A u \in Tasks \ {r.task} : pc'[u] = pc[u] /\ job'[u] = job[u]
         /\ job'[r.task].kind = job[r.task].kind
         /\ \/ pc'[r.task] = pc[r.task] /\ job'[r.task] = job[r.task]
            \/ /\ pc[r.task] = "asked" /\ pc'[r.task] = "answered"
               /\ running' # NoTurn /\ job'[r.task].turn = running'
            \/ pc[r.task] = "asked" /\ pc'[r.task] = "failing" /\ job'[r.task] = job[r.task]
<1> DEFINE Goal == /\ \A u \in Tasks \ {r.task} : pc'[u] = pc[u] /\ job'[u] = job[u]
                   /\ job'[r.task].kind = job[r.task].kind
                   /\ \/ pc'[r.task] = pc[r.task] /\ job'[r.task] = job[r.task]
                      \/ /\ pc[r.task] = "asked" /\ pc'[r.task] = "answered"
                         /\ running' # NoTurn /\ job'[r.task].turn = running'
                      \/ /\ pc[r.task] = "asked" /\ pc'[r.task] = "failing"
                         /\ job'[r.task] = job[r.task]
<1>1. r.task \in Tasks /\ r.turn \in TurnOrNo
  BY DEF TypeInv, InboxTypes, Requests
<1>2. ASSUME Answer(r, running'), running' # NoTurn PROVE Goal
  <2>1. CASE pc[r.task] = "asked"
    BY <1>1, <1>2, <2>1 DEF Answer, Goes, TypeInv, JobInv, Jobs
  <2>2. CASE pc[r.task] # "asked"
    BY <1>2, <2>2 DEF Answer, tasks
  <2> QED BY <2>1, <2>2
<1>3. ASSUME job' = job, pc' = [pc EXCEPT ![r.task] = IF @ = "asked" THEN "failing" ELSE @] PROVE Goal
  BY <1>1, <1>3 DEF TypeInv, JobInv
<1>4. CASE Begins(r)
  <2>1. running' # NoTurn /\ Answer(r, running')
    BY <1>4 DEF Begins, TypeInv, EngineTypes, TurnOrNo, NoTurn
  <2> QED BY <1>1, <1>2, <2>1
<1>5. CASE Steers(r)
  <2>1. CASE Answer(r, running) /\ r.turn = running
    <3>1. running' = running /\ r.turn # NoTurn
      BY <1>5 DEF Steers, KindInv
    <3> QED BY <1>1, <1>2, <2>1, <3>1
  <2>2. CASE job' = job /\ pc' = [pc EXCEPT ![r.task] = IF @ = "asked" THEN "failing" ELSE @]
    BY <1>1, <1>3, <2>2
  <2> QED BY <1>5, <2>1, <2>2 DEF Steers
<1>6. CASE Refuses(r)
  BY <1>1, <1>3, <1>6 DEF Refuses
<1> QED BY <1>4, <1>5, <1>6

----------------------------------------------------------------------------
(* The tasks.                                                               *)

\* Where a task of its own accord goes from and to, and what turn it then has.
CalmPlaces == {"idle", "sweep", "gate", "want", "check", "start", "ask", "asked", "answered", "failing"}

LEMMA TaskMoves ==
  ASSUME TypeInv, NumbersInv, KindInv, NEW t \in Tasks, CalmTask(t)
  PROVE  /\ \A u \in Tasks \ {t} : pc'[u] = pc[u] /\ job'[u] = job[u]
         /\ pc'[t] \in CalmPlaces \ {"answered"}
         /\ job'[t].turn \in Nat /\ job'[t].turn <= started
         /\ pc'[t] \in {"sweep", "gate", "check", "start", "ask"} => job'[t].kind # "steer"
<1> USE DEF TypeInv, JobInv, Jobs
<1> DEFINE Goal == /\ \A u \in Tasks \ {t} : pc'[u] = pc[u] /\ job'[u] = job[u]
                   /\ pc'[t] \in CalmPlaces \ {"answered"}
                   /\ job'[t].turn \in Nat /\ job'[t].turn <= started
                   /\ pc'[t] \in {"sweep", "gate", "check", "start", "ask"} => job'[t].kind # "steer"
<1>0. job[t].turn \in Nat /\ job[t].turn <= started /\ started \in Nat /\ active \in Nat
      /\ active <= started /\ running \in Nat /\ running <= started
  BY DEF NumbersInv, EngineTypes, MemoryTypes, TurnOrNo
<1>1. ASSUME Returns(t) PROVE Goal
  BY <1>0, <1>1 DEF Returns, NoJob, NoTurn, CalmPlaces
<1>2. ASSUME NEW s \in CalmPlaces \ {"answered"}, Goes(t, s), job' = job,
             s \in {"sweep", "gate", "check", "start", "ask"} => job[t].kind # "steer"
      PROVE  Goal
  BY <1>0, <1>2 DEF Goes
<1>3. CASE Submit(t)
  <2>1. PICK k \in Kinds : \E m \in IF k = "compact" THEN {NoMessage} ELSE Messages :
          /\ job' = [job EXCEPT ![t] = [NoJob EXCEPT !.kind = k, !.msg = m]]
          /\ Goes(t, IF k = "steer" THEN "want" ELSE "sweep")
    BY <1>3, Zenon DEF Submit
  <2>2. PICK m : job' = [job EXCEPT ![t] = [NoJob EXCEPT !.kind = k, !.msg = m]]
    BY <2>1, Zenon
  <2>3. [NoJob EXCEPT !.kind = k, !.msg = m].kind = k
        /\ [NoJob EXCEPT !.kind = k, !.msg = m].turn = NoTurn
    BY DEF NoJob
  <2>4. job'[t].kind = k /\ job'[t].turn = NoTurn /\ \A u \in Tasks \ {t} : job'[u] = job[u]
    BY <2>2, <2>3
  <2>5. pc'[t] = (IF k = "steer" THEN "want" ELSE "sweep") /\ \A u \in Tasks \ {t} : pc'[u] = pc[u]
    BY <2>1 DEF Goes
  <2> QED BY <1>0, <2>4, <2>5 DEF NoTurn, CalmPlaces
<1>4. CASE Gate(t)
  BY <1>1, <1>2, <1>4 DEF Gate, CalmPlaces
<1>5. CASE Enter(t)
  BY <1>1, <1>2, <1>5 DEF Enter, CalmPlaces
<1>6. CASE Check(t)
  <2>1. (Goes(t, "start") \/ Goes(t, "failing")) /\ job' = job /\ pc[t] = "check"
    BY <1>6 DEF Check
  <2> QED BY <1>2, <2>1 DEF CalmPlaces, KindInv
<1>7. CASE BeginStart(t)
  <2>1. Goes(t, "ask") /\ job' = job /\ pc[t] = "start"
    BY <1>7 DEF BeginStart
  <2> QED BY <1>2, <2>1 DEF CalmPlaces, KindInv
<1>8. CASE Ask(t)
  BY <1>2, <1>8 DEF Ask, CalmPlaces
<1>9. CASE SteerAsks(t)
  <2>1. Returns(t) \/ \E turn \in Nat : turn <= started /\ job' = [job EXCEPT ![t].turn = turn] /\ Goes(t, "asked")
    BY <1>0, <1>9 DEF SteerAsks
  <2>2. ASSUME NEW turn \in Nat, turn <= started, job' = [job EXCEPT ![t].turn = turn], Goes(t, "asked")
        PROVE  Goal
    BY <2>2 DEF Goes, CalmPlaces
  <2> QED BY <1>1, <2>1, <2>2
<1>10. CASE SendSettles(t) \/ CompactSettles(t) \/ SteerSettles(t) \/ Fails(t)
  BY <1>1, <1>10 DEF SendSettles, CompactSettles, SteerSettles, Fails
<1>11. CASE Sweep(t) /\ Goes(t, "gate") /\ UNCHANGED job
  <2>1. pc[t] = "sweep"
    BY <1>11 DEF Sweep
  <2> QED BY <1>2, <1>11, <2>1 DEF CalmPlaces, KindInv
<1> QED BY <1>3, <1>4, <1>5, <1>6, <1>7, <1>8, <1>9, <1>10, <1>11 DEF CalmTask

\* A step that is nobody's of the tasks leaves them alone.
LEMMA TasksRest ==
  ASSUME CalmMonitor \/ MaintenanceReads \/ MaintenanceMarks \/ Works \/ Ends
  PROVE  pc' = pc /\ job' = job /\ sessionLock' = sessionLock /\ inbox' = inbox
<1> USE DEF tasks, locks, appServer
<1>1. CASE HandleStarted \/ HandleCompleted
  BY <1>1 DEF HandleStarted, HandleCompleted
<1>2. CASE HandleItem
  BY <1>2, Zenon DEF HandleItem
<1>3. CASE HandleItemLocked
  BY <1>3 DEF HandleItemLocked
<1>4. CASE HandleActive \/ HandleIdle
  BY <1>4 DEF HandleActive, HandleIdle
<1>5. CASE MaintenanceReads \/ MaintenanceMarks \/ Works \/ Ends
  BY <1>5 DEF MaintenanceReads, MaintenanceMarks, Works, Ends
<1> QED BY <1>1, <1>2, <1>3, <1>4, <1>5 DEF CalmMonitor

LEMMA KindStep ==
  ASSUME TypeInv, NumbersInv, KindInv, CalmNext
  PROVE  KindInv'
<1> DEFINE Tk == \A t \in Tasks : pc'[t] \in {"sweep", "gate", "check", "start", "ask"} => job'[t].kind # "steer"
           Rq == \A r \in inbox' : r.kind = "steer" => r.turn # NoTurn
<1>1. ASSUME NEW t \in Tasks, CalmTask(t) PROVE Tk /\ Rq
  <2>1. Tk
    BY <1>1, TaskMoves DEF KindInv
  <2>2. CASE Ask(t)
    <3>1. inbox' = inbox \/ inbox' = inbox \cup {[task |-> t, kind |-> job[t].kind, msg |-> job[t].msg, turn |-> NoTurn]}
      BY <2>2 DEF Ask
    <3>2. job[t].kind # "steer"
      BY <2>2 DEF Ask, KindInv
    <3> QED BY <2>1, <3>1, <3>2 DEF KindInv
  <2>3. CASE SteerAsks(t)
    <3>1. inbox' = inbox \/ \E turn : turn # NoTurn /\ inbox' = inbox \cup {[task |-> t, kind |-> "steer", msg |-> job[t].msg, turn |-> turn]}
      BY <2>3 DEF SteerAsks
    <3> QED BY <2>1, <3>1 DEF KindInv
  <2>4. CASE Submit(t)
    <3>1. inbox' = inbox
      BY <2>4, Zenon DEF Submit, appServer
    <3> QED BY <2>1, <3>1 DEF KindInv
  <2>5. CASE ~Ask(t) /\ ~SteerAsks(t) /\ ~Submit(t)
    <3>1. inbox' = inbox
      BY <1>1, <2>5 DEF CalmTask, Sweep, Gate, Enter, Check, BeginStart, SendSettles,
         CompactSettles, SteerSettles, Fails, appServer
    <3> QED BY <2>1, <3>1 DEF KindInv
  <2> QED BY <2>2, <2>3, <2>4, <2>5
<1>2. ASSUME NEW r \in inbox, Begins(r) \/ Steers(r) \/ Refuses(r) PROVE Tk /\ Rq
  <2>1. Rq
    BY <1>2 DEF Begins, Steers, Refuses, KindInv
  <2>2. Tk
    BY <1>2, AnsweredIs DEF KindInv
  <2> QED BY <2>1, <2>2
<1>3. ASSUME CalmMonitor \/ MaintenanceReads \/ MaintenanceMarks \/ Works \/ Ends PROVE Tk /\ Rq
  BY <1>3, TasksRest DEF KindInv
<1>4. Tk /\ Rq
  BY <1>1, <1>2, <1>3 DEF CalmNext
<1> QED BY <1>4 DEF KindInv

\* Processes live, nobody looks at the session, and nobody waits in vain.
LEMMA SteadyStep ==
  ASSUME Faultless, TypeInv, SteadyInv, NumbersInv, KindInv, CalmNext
  PROVE  SteadyInv'
<1>1. \A t \in Tasks : pc'[t] \in CalmPlaces
  <2>1. \A t \in Tasks : pc[t] \in CalmPlaces
    BY DEF SteadyInv, CalmPlaces
  <2>2. ASSUME NEW t \in Tasks, CalmTask(t) PROVE \A u \in Tasks : pc'[u] \in CalmPlaces
    BY <2>1, <2>2, TaskMoves
  <2>3. ASSUME NEW r \in inbox, Begins(r) \/ Steers(r) \/ Refuses(r) PROVE \A u \in Tasks : pc'[u] \in CalmPlaces
    BY <2>1, <2>3, AnsweredIs DEF CalmPlaces
  <2>4. ASSUME CalmMonitor \/ MaintenanceReads \/ MaintenanceMarks \/ Works \/ Ends PROVE \A u \in Tasks : pc'[u] \in CalmPlaces
    BY <2>1, <2>4, TasksRest
  <2> QED BY <2>2, <2>3, <2>4 DEF CalmNext
<1>2. \A i \in DOMAIN events' : events'[i].kind # "exited"
  <2> USE DEF TypeInv, SteadyInv
  <2>1. CASE Rests
    BY <2>1 DEF Rests
  <2>2. CASE Handles
    BY <2>2, TailIs DEF Handles
  <2>3. ASSUME NEW s \in Seq(Events), s # <<>>, \A i \in DOMAIN s : s[i].kind # "exited", events' = events \o s
        PROVE  \A i \in DOMAIN events' : events'[i].kind # "exited"
    BY <2>3, LongerIs
  <2>4. CASE BeginsTurn
    <3>1. StartsWith(started + 1) \in Seq(Events) /\ StartsWith(started + 1) # <<>>
          /\ \A i \in DOMAIN StartsWith(started + 1) : StartsWith(started + 1)[i].kind # "exited"
      BY DEF StartsWith, Events, EngineTypes, Turns, NoTurn
    <3> QED BY <2>3, <2>4, <3>1 DEF BeginsTurn
  <2>5. CASE ShowsItem
    <3>1. <<Item>> \in Seq(Events) /\ <<Item>> # <<>> /\ \A i \in DOMAIN <<Item>> : <<Item>>[i].kind # "exited"
      BY <2>5 DEF ShowsItem, Item, Events, EngineTypes, TurnOrNo, Turns
    <3> QED BY <2>3, <2>5, <3>1 DEF ShowsItem
  <2>6. CASE EndsTurn
    <3>1. EndsWith(running) \in Seq(Events) /\ EndsWith(running) # <<>>
          /\ \A i \in DOMAIN EndsWith(running) : EndsWith(running)[i].kind # "exited"
      BY <2>6 DEF EndsTurn, EndsWith, Events, EngineTypes, TurnOrNo, Turns
    <3> QED BY <2>3, <2>6, <3>1 DEF EndsTurn
  <2> QED BY <2>1, <2>2, <2>4, <2>5, <2>6, FlowMoves
<1>3. alive' = TRUE /\ view' = view
  <2> USE DEF SteadyInv
  <2>1. ASSUME NEW t \in Tasks, CalmTask(t) PROVE alive' = TRUE /\ view' = view
    <3>1. CASE Submit(t)
      BY <3>1, Zenon DEF Submit, appServer, watchers
    <3>2. CASE Sweep(t) \/ Gate(t) \/ Enter(t) \/ BeginStart(t)
      BY <3>2 DEF Sweep, Gate, Enter, BeginStart, appServer, watchers
    <3>3. CASE Check(t) \/ Ask(t)
      BY <3>3 DEF Check, Ask, watchers
    <3>4. CASE SteerAsks(t)
      BY <3>4 DEF SteerAsks, watchers
    <3>5. CASE SendSettles(t) \/ CompactSettles(t) \/ SteerSettles(t) \/ Fails(t)
      BY <3>5 DEF SendSettles, CompactSettles, SteerSettles, Fails, appServer, watchers
    <3> QED BY <2>1, <3>1, <3>2, <3>3, <3>4, <3>5, Zenon DEF CalmTask
  <2>2. ASSUME NEW r \in inbox, Begins(r) \/ Steers(r) \/ Refuses(r) PROVE alive' = TRUE /\ view' = view
    BY <2>2 DEF Begins, Steers, Refuses, watchers
  <2>3. CASE CalmMonitor
    <3>1. CASE HandleStarted \/ HandleCompleted
      BY <3>1 DEF HandleStarted, HandleCompleted, appServer, watchers
    <3>2. CASE HandleItem
      BY <3>2, Zenon DEF HandleItem, appServer
    <3>3. CASE HandleItemLocked
      BY <3>3 DEF HandleItemLocked
    <3>4. CASE HandleActive \/ HandleIdle
      BY <3>4 DEF HandleActive, HandleIdle, watchers
    <3> QED BY <2>3, <3>1, <3>2, <3>3, <3>4 DEF CalmMonitor
  <2>4. CASE MaintenanceReads \/ MaintenanceMarks \/ Works \/ Ends
    BY <2>4 DEF MaintenanceReads, MaintenanceMarks, Works, Ends, appServer, watchers
  <2> QED BY <2>1, <2>2, <2>3, <2>4 DEF CalmNext
<1>4. left' \in {left, FALSE}
  <2>1. ASSUME NEW t \in Tasks, CalmTask(t) PROVE left' \in {left, FALSE}
    <3>1. CASE Submit(t)
      BY <3>1, Zenon DEF Submit, memory
    <3>2. CASE Sweep(t) \/ Gate(t) \/ Enter(t) \/ BeginStart(t) \/ Check(t) \/ Ask(t)
               \/ SteerAsks(t)
      BY <3>2 DEF Sweep, Gate, Enter, BeginStart, Check, Ask, SteerAsks, memory
    <3>3. CASE SendSettles(t) \/ CompactSettles(t) \/ SteerSettles(t) \/ Fails(t)
      BY <3>3 DEF SendSettles, CompactSettles, SteerSettles, Fails, Settles, Unmarks
    <3> QED BY <2>1, <3>1, <3>2, <3>3, Zenon DEF CalmTask
  <2>2. ASSUME NEW r \in inbox, Begins(r) \/ Steers(r) \/ Refuses(r) PROVE left' \in {left, FALSE}
    BY <2>2 DEF Begins, Steers, Refuses, memory
  <2>3. CASE CalmMonitor
    <3>1. CASE HandleStarted \/ HandleCompleted \/ HandleItem
      BY <3>1 DEF HandleStarted, HandleCompleted, HandleItem, Unmarks, memory
    <3>2. CASE HandleItemLocked \/ HandleActive \/ HandleIdle
      BY <3>2 DEF HandleItemLocked, HandleActive, HandleIdle, Unmarks
    <3> QED BY <2>3, <3>1, <3>2 DEF CalmMonitor
  <2>4. CASE MaintenanceReads \/ MaintenanceMarks \/ Works \/ Ends
    BY <2>4 DEF MaintenanceReads, MaintenanceMarks, MarksTerminal, Unmarks, Works, Ends, memory
  <2> QED BY <2>1, <2>2, <2>3, <2>4 DEF CalmNext
<1> QED BY <1>1, <1>2, <1>3, <1>4 DEF SteadyInv, CalmPlaces

\* What maintenance suspects has been over since it looked.
LEMMA NumbersStep ==
  ASSUME Faultless, TypeInv, NumbersInv, KindInv, CalmNext
  PROVE  NumbersInv'
<1> USE DEF TypeInv
<1>0. /\ running \in Nat /\ started \in Nat /\ active \in Nat
      /\ running <= started /\ active <= started
  BY DEF EngineTypes, MemoryTypes, TurnOrNo, NumbersInv
<1>1. /\ running' \in Nat /\ started' \in Nat /\ running' <= started' /\ started <= started'
      /\ running' \in {running, NoTurn, started + 1}
  BY <1>0, FlowMoves DEF Rests, Handles, BeginsTurn, ShowsItem, EndsTurn, NoTurn
<1>2. \A i \in DOMAIN events' : events'[i].turn <= started'
  <2>1. \A i \in DOMAIN events : events[i].turn \in Nat /\ events[i].turn <= started
    <3>1. \A i \in DOMAIN events : events[i] \in Events
      BY DEF EventTypes
    <3> QED BY <3>1 DEF NumbersInv, Events, Turns, NoTurn
  <2>2. CASE Rests
    BY <2>1, <2>2 DEF Rests
  <2>3. CASE Handles
    BY <2>1, <2>3, TailIs DEF Handles
  <2>4. ASSUME NEW s \in Seq(Events), s # <<>>, \A i \in DOMAIN s : s[i].turn <= started', events' = events \o s
        PROVE  \A i \in DOMAIN events' : events'[i].turn <= started'
    <3>1. \A i \in DOMAIN events : events[i].turn <= started'
      BY <1>0, <1>1, <2>1
    <3> QED BY <2>4, <3>1, LongerIs
  <2>5. CASE BeginsTurn
    <3>1. StartsWith(started + 1) \in Seq(Events) /\ StartsWith(started + 1) # <<>>
          /\ \A i \in DOMAIN StartsWith(started + 1) : StartsWith(started + 1)[i].turn <= started'
      BY <1>0, <2>5 DEF BeginsTurn, StartsWith, Events, Turns, NoTurn
    <3> QED BY <2>4, <2>5, <3>1 DEF BeginsTurn
  <2>6. CASE ShowsItem
    <3>1. <<Item>> \in Seq(Events) /\ <<Item>> # <<>> /\ \A i \in DOMAIN <<Item>> : <<Item>>[i].turn <= started'
      BY <1>0, <2>6 DEF ShowsItem, Item, Events, Turns
    <3> QED BY <2>4, <2>6, <3>1 DEF ShowsItem
  <2>7. CASE EndsTurn
    <3>1. EndsWith(running) \in Seq(Events) /\ EndsWith(running) # <<>>
          /\ \A i \in DOMAIN EndsWith(running) : EndsWith(running)[i].turn <= started'
      BY <1>0, <2>7 DEF EndsTurn, EndsWith, Events, Turns, NoTurn
    <3> QED BY <2>4, <2>7, <3>1 DEF EndsTurn
  <2> QED BY <2>2, <2>3, <2>5, <2>6, <2>7, FlowMoves
<1>3. \A t \in Tasks : job'[t].turn <= started'
  <2>1. \A t \in Tasks : job[t].turn \in Nat /\ job[t].turn <= started
    BY DEF JobInv, Jobs, TurnOrNo, NumbersInv
  <2>2. ASSUME NEW t \in Tasks, CalmTask(t) PROVE \A u \in Tasks : job'[u].turn <= started'
    <3>1. started' = started
      BY <2>2, FlowMoves DEF Rests
    <3> QED BY <2>1, <2>2, <3>1, TaskMoves
  <2>3. ASSUME NEW r \in inbox, Begins(r) \/ Steers(r) \/ Refuses(r) PROVE \A u \in Tasks : job'[u].turn <= started'
    BY <1>0, <1>1, <2>1, <2>3, AnsweredIs
  <2>4. ASSUME CalmMonitor \/ MaintenanceReads \/ MaintenanceMarks \/ Works \/ Ends PROVE \A u \in Tasks : job'[u].turn <= started'
    BY <1>0, <1>1, <2>1, <2>4, TasksRest
  <2> QED BY <2>2, <2>3, <2>4 DEF CalmNext
<1>4. active' <= started'
  <2>1. ASSUME NEW t \in Tasks, CalmTask(t) PROVE active' <= started
    <3>1. job[t].turn <= started /\ NoTurn <= started
      BY <1>0 DEF NumbersInv, NoTurn
    <3>2. CASE Submit(t)
      <4>1. active' = active
        BY <3>2, Zenon DEF Submit, memory
      <4> QED BY <1>0, <4>1
    <3>3. CASE Sweep(t) \/ Gate(t) \/ Enter(t) \/ BeginStart(t) \/ Ask(t) \/ Fails(t)
      BY <1>0, <3>3 DEF Sweep, Gate, Enter, BeginStart, Ask, Fails, memory
    <3>4. CASE Check(t)
      BY <1>0, <3>4 DEF Check
    <3>5. CASE SteerAsks(t)
      BY <1>0, <3>5 DEF SteerAsks
    <3>6. CASE SendSettles(t) \/ SteerSettles(t)
      BY <1>0, <3>1, <3>6 DEF SendSettles, SteerSettles, Settles
    <3>7. CASE CompactSettles(t)
      BY <1>0, <3>1, <3>7 DEF CompactSettles
    <3> QED BY <2>1, <3>2, <3>3, <3>4, <3>5, <3>6, <3>7, Zenon DEF CalmTask
  <2>2. CASE CalmMonitor
    <3>1. events # <<>> => Head(events).turn <= started
      BY TailIs DEF NumbersInv
    <3>2. started' = started
      BY <2>2, FlowMoves DEF Rests, Handles
    <3>3. CASE HandleStarted \/ HandleCompleted
      BY <1>0, <3>1, <3>2, <3>3 DEF HandleStarted, HandleCompleted, Incoming, NoTurn
    <3>4. CASE HandleItem
      <4>1. active' = active
        BY <3>4, Zenon DEF HandleItem, memory
      <4> QED BY <1>0, <3>2, <4>1
    <3>5. CASE HandleItemLocked
      <4>1. Head(events).turn <= started
        BY <3>1, <3>5, Zenon DEF HandleItemLocked, EventTypes, PeekFits, Incoming
      <4>2. active' \in {active, Head(events).turn}
        BY <3>5 DEF HandleItemLocked
      <4> QED BY <1>0, <3>2, <4>1, <4>2
    <3>6. CASE HandleActive \/ HandleIdle
      <4>1. active' \in {active, running, NoTurn}
        BY <3>6 DEF HandleActive, HandleIdle
      <4> QED BY <1>0, <3>2, <4>1 DEF NoTurn
    <3> QED BY <2>2, <3>3, <3>4, <3>5, <3>6 DEF CalmMonitor
  <2>3. CASE MaintenanceReads \/ MaintenanceMarks
    <3>1. active' \in {active, NoTurn} /\ started' = started
      BY <2>3 DEF MaintenanceReads, MaintenanceMarks, MarksTerminal, memory, appServer
    <3> QED BY <1>0, <3>1 DEF NoTurn
  <2>4. ASSUME Works \/ Ends \/ \E r \in inbox : Begins(r) \/ Steers(r) \/ Refuses(r) PROVE active' = active
    BY <2>4 DEF Works, Ends, Begins, Steers, Refuses, memory
  <2>5. ASSUME active' <= started PROVE active' <= started'
    <3>1. active' \in Nat
      BY MemoryStep, CalmIsNext DEF MemoryTypes, TurnOrNo
    <3> QED BY <1>0, <1>1, <2>5, <3>1
  <2> QED BY <1>0, <2>1, <2>2, <2>3, <2>4, <2>5 DEF CalmNext
<1>5. \A x \in suspect' : x <= started' /\ (x # NoTurn => x # running')
  <2>1. suspect' \in {suspect, {}} \/ (running = NoTurn /\ running' = NoTurn /\ suspect' = {active})
    <3>1. ASSUME NEW t \in Tasks, CalmTask(t) PROVE suspect' = suspect
      <4>1. CASE Submit(t)
        BY <4>1, Zenon DEF Submit, watchers
      <4>2. CASE ~Submit(t)
        BY <3>1, <4>2 DEF CalmTask, Sweep, Gate, Enter, Check, BeginStart, Ask, SteerAsks,
           SendSettles, CompactSettles, SteerSettles, Fails, watchers
      <4> QED BY <4>1, <4>2
    <3>2. CASE CalmMonitor
      <4>1. CASE HandleItem
        BY <4>1, Zenon DEF HandleItem
      <4>2. CASE ~HandleItem
        BY <3>2, <4>2 DEF CalmMonitor, HandleStarted, HandleCompleted, HandleItemLocked,
           HandleActive, HandleIdle, watchers
      <4> QED BY <4>1, <4>2
    <3>3. CASE MaintenanceReads \/ MaintenanceMarks
      BY <3>3 DEF MaintenanceReads, MaintenanceMarks, appServer
    <3>4. CASE Works \/ Ends \/ \E r \in inbox : Begins(r) \/ Steers(r) \/ Refuses(r)
      BY <3>4 DEF Works, Ends, Begins, Steers, Refuses, watchers
    <3> QED BY <3>1, <3>2, <3>3, <3>4 DEF CalmNext
  <2>2. \A x \in suspect : x \in Nat /\ x <= started /\ (x # NoTurn => x # running)
    BY DEF NumbersInv, ViewTypes, TurnOrNo
  <2> QED BY <1>0, <1>1, <2>1, <2>2
<1> QED BY <1>1, <1>2, <1>3, <1>4, <1>5 DEF NumbersInv

\* What an answered task has heard stays true, or the end of its turn is on its way.
LEMMA InformedStays ==
  ASSUME TypeInv, CalmNext, NEW u \in Tasks, Informed(u), job'[u].turn = job[u].turn,
         Rests \/ BeginsTurn \/ ShowsItem \/ EndsTurn
         \/ (Handles /\ Head(events).kind # "completed")
  PROVE  Informed(u)'
<1> USE DEF TypeInv
<1>1. CASE Rests
  BY <1>1 DEF Rests, Informed, Ending
<1>2. ASSUME NEW s \in Seq(Events), s # <<>>, events' = events \o s, Ending PROVE Ending'
  BY <1>2, LongerIs DEF Ending
<1>3. CASE BeginsTurn
  <2>1. StartsWith(started + 1) \in Seq(Events) /\ StartsWith(started + 1) # <<>>
    BY DEF StartsWith, Events, EngineTypes, Turns, NoTurn
  <2>2. Ending
    BY <1>3 DEF BeginsTurn, Informed
  <2> QED BY <1>2, <1>3, <2>1, <2>2 DEF BeginsTurn, Informed
<1>4. CASE ShowsItem
  <2>1. <<Item>> \in Seq(Events) /\ <<Item>> # <<>>
    BY <1>4 DEF ShowsItem, Item, Events, EngineTypes, TurnOrNo, Turns
  <2>2. running' = running /\ events' = events \o <<Item>>
    BY <1>4 DEF ShowsItem
  <2>3. Ending => Ending'
    BY <1>2, <2>1, <2>2
  <2> QED BY <2>2, <2>3 DEF Informed
<1>5. CASE EndsTurn
  <2> DEFINE s == EndsWith(running)
  <2>1. s \in Seq(Events) /\ s # <<>> /\ 1 \in DOMAIN s /\ s[1].kind = "completed"
    BY <1>5 DEF EndsTurn, EndsWith, Events, EngineTypes, TurnOrNo, Turns
  <2> HIDE DEF s
  <2>2. events' = events \o s
    BY <1>5 DEF EndsTurn, s
  <2>3. Len(events) + 1 \in DOMAIN events' /\ events'[Len(events) + 1] = s[1]
    BY <2>1, <2>2, LongerIs
  <2> QED BY <2>1, <2>3 DEF Informed, Ending
<1>6. CASE Handles /\ Head(events).kind # "completed"
  <2>1. running' = running /\ events # <<>> /\ events' = Tail(events)
    BY <1>6 DEF Handles
  <2>2. ASSUME Ending PROVE Ending'
    <3>1. PICK i \in DOMAIN events : events[i].kind = "completed"
      BY <2>2 DEF Ending
    <3>2. i # 1
      BY <1>6, <2>1, <3>1, TailIs
    <3>3. i - 1 \in DOMAIN Tail(events) /\ Tail(events)[i - 1] = events[i]
      BY <2>1, <3>1, <3>2, TailIs
    <3> QED BY <2>1, <3>1, <3>3 DEF Ending
  <2> QED BY <2>1, <2>2 DEF Informed
<1> QED BY <1>1, <1>3, <1>4, <1>5, <1>6

\* While nobody has the lock, no start is at work.
LEMMA NobodyWorks ==
  ASSUME LockInv, TaskInv, SessionFree
  PROVE  /\ \A t \in Tasks : pc[t] \notin Working
         /\ status # "starting"
<1>1. \A t \in Tasks : pc[t] \notin Working
  BY TurnConstants DEF LockInv, SessionFree
<1> QED BY <1>1 DEF TaskInv, Launching, Working

\* Who works has the lock alone.
LEMMA AloneAtWork ==
  ASSUME LockInv, NEW t \in Tasks, pc[t] \in Working
  PROVE  \A u \in Tasks \ {t} : pc[u] \notin Working
BY DEF LockInv

LEMMA TaskStep ==
  ASSUME Faultless, TypeInv, LockInv, NumbersInv, KindInv, SteadyInv, TaskInv, CalmNext
  PROVE  TaskInv'
<1> USE DEF Starting, Launching, Working
\* A step under the free lock.
<1>1. ASSUME SessionFree, pc' = pc, job' = job, status' # "starting" PROVE TaskInv'
  BY <1>1, NobodyWorks DEF TaskInv
\* A step of a task that does not work, of a session that is left as it is.
<1>2. ASSUME NEW t \in Tasks, CalmTask(t), pc[t] \notin Working, pc'[t] \notin Working,
             UNCHANGED <<active, pending, status>>
      PROVE  TaskInv'
  <2>1. \A u \in Tasks \ {t} : pc'[u] = pc[u] /\ job'[u] = job[u]
    BY <1>2, TaskMoves
  <2>2. \A u \in Tasks : Informed(u)' <=> ((running # NoTurn /\ job'[u].turn = running) \/ Ending)
    BY <1>2, FlowMoves DEF Informed, Rests, Ending
  <2>3. \A u \in Tasks : pc'[u] = "answered" /\ job'[u].kind # "compact" => Informed(u)'
    BY <1>2, <2>1, <2>2 DEF TaskInv, Informed
  <2>4. \A u \in Tasks : Starting(u)' => pending'
    BY <1>2, <2>1 DEF TaskInv
  <2>5. \A u \in Tasks : pc'[u] = "start" => active' = NoTurn
    BY <1>2, <2>1 DEF TaskInv
  <2>6. status' = "starting" => \E u \in Tasks : Launching(u)'
    BY <1>2, <2>1 DEF TaskInv
  <2> QED BY <2>3, <2>4, <2>5, <2>6 DEF TaskInv
\* A step after which one task at most is at work.
<1>3. ASSUME NEW t \in Tasks, CalmTask(t), \A u \in Tasks \ {t} : pc[u] \notin Working,
             Starting(t)' => pending', pc'[t] = "start" => active' = NoTurn,
             status' = "starting" => Launching(t)'
      PROVE  TaskInv'
  <2>1. \A u \in Tasks \ {t} : pc'[u] \notin Working
    BY <1>3, TaskMoves
  <2>2. pc'[t] # "answered"
    BY <1>3, TaskMoves
  <2> QED BY <1>3, <2>1, <2>2 DEF TaskInv
<1>4. ASSUME NEW t \in Tasks, Submit(t) \/ (Sweep(t) /\ Goes(t, "gate") /\ UNCHANGED job) \/ Gate(t)
      PROVE  TaskInv'
  <2>1. CalmTask(t)
    BY <1>4 DEF CalmTask
  <2>2. pc[t] \in {"idle", "sweep", "gate"}
    BY <1>4, Zenon DEF Submit, Sweep, Gate
  <2>3. \E s \in {"idle", "sweep", "gate", "want"} : pc' = [pc EXCEPT ![t] = s]
    <3>1. CASE Submit(t)
      <4>1. \E k : Goes(t, IF k = "steer" THEN "want" ELSE "sweep")
        BY <3>1, Zenon DEF Submit
      <4> QED BY <4>1 DEF Goes
    <3>2. CASE Sweep(t) /\ Goes(t, "gate")
      BY <3>2 DEF Goes
    <3>3. CASE Gate(t)
      BY <3>3 DEF Gate, Goes, Returns
    <3> QED BY <1>4, <3>1, <3>2, <3>3
  <2>4. UNCHANGED <<active, pending, status>>
    <3>1. CASE Submit(t)
      BY <3>1, Zenon DEF Submit, memory
    <3>2. CASE Sweep(t) \/ Gate(t)
      BY <3>2 DEF Sweep, Gate, memory
    <3> QED BY <1>4, <3>1, <3>2
  <2>5. pc'[t] \notin Working
    BY <2>3 DEF TypeInv, JobInv
  <2> QED BY <1>2, <2>1, <2>2, <2>4, <2>5
<1>5. ASSUME NEW t \in Tasks, Enter(t) \/ SteerAsks(t) PROVE TaskInv'
  <2>1. CalmTask(t) /\ SessionFree /\ UNCHANGED status
    BY <1>5 DEF CalmTask, Enter, SteerAsks
  <2>2. \A u \in Tasks : pc[u] \notin Working
    BY <2>1, NobodyWorks
  <2>3. status' # "starting"
    BY <2>1, NobodyWorks
  <2>4. (Starting(t)' => pending') /\ pc'[t] # "start"
    <3>1. ASSUME Returns(t) PROVE ~Starting(t)' /\ pc'[t] # "start"
      BY <3>1 DEF Returns, TypeInv, JobInv
    <3>2. ASSUME Enter(t), ~Returns(t) PROVE pending' = TRUE /\ pc'[t] # "start"
      BY <3>2 DEF Enter, Goes, TypeInv, JobInv
    <3>3. ASSUME SteerAsks(t), ~Returns(t) PROVE ~Starting(t)' /\ pc'[t] # "start"
      BY <3>3 DEF SteerAsks, Goes, TypeInv, JobInv, Jobs
    <3> QED BY <1>5, <3>1, <3>2, <3>3
  <2> QED BY <1>3, <2>1, <2>2, <2>3, <2>4
<1>6. ASSUME NEW t \in Tasks, Check(t) \/ BeginStart(t) \/ Ask(t) PROVE TaskInv'
  <2>1. CalmTask(t) /\ pc[t] \in {"check", "start", "ask"} /\ job' = job /\ pending' = pending
    BY <1>6 DEF CalmTask, Check, BeginStart, Ask, memory
  <2>2. \A u \in Tasks \ {t} : pc[u] \notin Working
    BY <2>1, AloneAtWork
  <2>3. Starting(t) /\ pending /\ job[t].kind # "steer"
    BY <2>1 DEF KindInv, TaskInv
  <2>4. pc[t] # "ask" => status # "starting"
    BY <2>1, <2>2 DEF TaskInv
  <2>5. CASE Check(t)
    <3>1. pc'[t] = "start" => active' = NoTurn
      BY <2>5 DEF Check, Goes, TypeInv, JobInv
    <3>2. status' = status /\ pc[t] # "ask"
      BY <2>5 DEF Check
    <3> QED BY <1>3, <2>1, <2>2, <2>3, <2>4, <3>1, <3>2
  <2>6. CASE BeginStart(t)
    <3>1. pc'[t] = "ask"
      BY <2>6 DEF BeginStart, Goes, TypeInv, JobInv
    <3> QED BY <1>3, <2>1, <2>2, <2>3, <3>1
  <2>7. CASE Ask(t)
    <3>1. pc'[t] \in {"asked", "failing"}
      BY <2>7 DEF Ask, Goes, TypeInv, JobInv
    <3> QED BY <1>3, <2>1, <2>2, <2>3, <3>1
  <2> QED BY <1>6, <2>5, <2>6, <2>7
<1>7. ASSUME NEW t \in Tasks, SendSettles(t) \/ CompactSettles(t) \/ SteerSettles(t) \/ Fails(t)
      PROVE  TaskInv'
  <2>1. CalmTask(t) /\ pc[t] \in {"answered", "failing"} /\ Returns(t)
    BY <1>7 DEF CalmTask, SendSettles, CompactSettles, SteerSettles, Fails
  <2>2. \A u \in Tasks \ {t} : pc[u] \notin Working
    BY <2>1, AloneAtWork
  <2>3. pc'[t] = "idle"
    BY <2>1 DEF Returns, TypeInv, JobInv
  <2>4. job[t].kind = "steer" => status # "starting"
    BY <2>2 DEF TaskInv
  <2>5. job[t].kind # "steer" => pending
    BY <2>1 DEF TaskInv
  <2>6. status' # "starting"
    <3>1. CASE SendSettles(t) \/ CompactSettles(t)
      BY <3>1 DEF SendSettles, CompactSettles, Settles
    <3>2. CASE SteerSettles(t)
      BY <2>4, <3>2 DEF SteerSettles
    <3>3. CASE Fails(t)
      BY <2>4, <2>5, <3>3 DEF Fails
    <3> QED BY <1>7, <3>1, <3>2, <3>3
  <2> QED BY <1>3, <2>1, <2>2, <2>3, <2>6
<1>8. ASSUME NEW r \in inbox, Begins(r) \/ Steers(r) \/ Refuses(r) PROVE TaskInv'
  <2> DEFINE t == r.task
  <2>1. /\ t \in Tasks
        /\ \A u \in Tasks \ {t} : pc'[u] = pc[u] /\ job'[u] = job[u]
        /\ job'[t].kind = job[t].kind
        /\ \/ pc'[t] = pc[t] /\ job'[t] = job[t]
           \/ pc[t] = "asked" /\ pc'[t] = "answered" /\ running' # NoTurn /\ job'[t].turn = running'
           \/ pc[t] = "asked" /\ pc'[t] = "failing" /\ job'[t] = job[t]
    BY <1>8, AnsweredIs
  <2> HIDE DEF t
  <2>2. UNCHANGED <<active, pending, status>>
    BY <1>8 DEF Begins, Steers, Refuses, memory
  <2>3. \A u \in Tasks : Starting(u)' => Starting(u)
    BY <2>1
  <2>4. \A u \in Tasks : Launching(u) => Launching(u)'
    BY <2>1
  <2>5. \A u \in Tasks : pc'[u] = "start" => pc[u] = "start"
    BY <2>1
  <2>6. Rests \/ BeginsTurn
    BY <1>8, FlowMoves
  <2>7. ASSUME NEW u \in Tasks, pc'[u] = "answered", job'[u].kind # "compact" PROVE Informed(u)'
    <3>1. CASE pc[u] = "answered"
      <4>1. job'[u] = job[u] /\ Informed(u)
        BY <2>1, <2>7, <3>1 DEF TaskInv
      <4> QED BY <2>6, <4>1, InformedStays
    <3>2. CASE pc[u] # "answered"
      BY <2>1, <2>7, <3>2 DEF Informed
    <3> QED BY <3>1, <3>2
  <2> QED BY <2>2, <2>3, <2>4, <2>5, <2>7 DEF TaskInv
<1>9. ASSUME pc' = pc, job' = job, UNCHANGED <<active, pending, status>>,
             \A u \in Tasks : Informed(u) => Informed(u)'
      PROVE  TaskInv'
  BY <1>9 DEF TaskInv
<1>10. CASE Works \/ Ends
  <2>1. Works => ShowsItem
    BY FlowMoves, WorksShows
  <2>2. Ends => EndsTurn
    BY DEF Ends, EndsTurn, EndsWith
  <2>3. pc' = pc /\ job' = job
    BY <1>10, TasksRest
  <2>4. UNCHANGED <<active, pending, status>>
    BY <1>10 DEF Works, Ends, memory
  <2> QED BY <1>9, <1>10, <2>1, <2>2, <2>3, <2>4, InformedStays
<1>11. CASE HandleItem
  <2>1. pc' = pc /\ job' = job
    BY <1>11, TasksRest DEF CalmMonitor
  <2>2. UNCHANGED <<active, pending, status>>
    BY <1>11, Zenon DEF HandleItem, memory
  <2>3. Rests \/ (Handles /\ Head(events).kind # "completed")
    <3>1. Head(events).kind = "item"
      BY <1>11, Zenon DEF HandleItem, Incoming
    <3> QED BY <1>11, <3>1, FlowMoves DEF CalmMonitor
  <2> QED BY <1>9, <2>1, <2>2, <2>3, InformedStays
<1>12. CASE MaintenanceReads
  <2>1. pc' = pc /\ job' = job
    BY <1>12, TasksRest
  <2>2. UNCHANGED <<active, pending, status>>
    BY <1>12 DEF MaintenanceReads, memory
  <2>3. Rests
    BY <1>12, FlowMoves
  <2> QED BY <1>9, <2>1, <2>2, <2>3, InformedStays
<1>13. CASE HandleStarted \/ HandleCompleted \/ HandleItemLocked \/ HandleActive \/ HandleIdle \/ MaintenanceMarks
  <2>1. pc' = pc /\ job' = job
    BY <1>13, TasksRest DEF CalmMonitor
  <2>2. SessionFree
    BY <1>13 DEF HandleStarted, HandleCompleted, HandleItemLocked, HandleActive, HandleIdle, MaintenanceMarks
  <2>3. status' \in {status, "running", "completed", "failed", "stopped"}
    BY <1>13 DEF HandleStarted, HandleCompleted, HandleItemLocked, HandleActive, HandleIdle,
       MaintenanceMarks, MarksTerminal
  <2>4. status # "starting"
    BY <2>2, NobodyWorks
  <2> QED BY <1>1, <2>1, <2>2, <2>3, <2>4
<1> QED BY <1>4, <1>5, <1>6, <1>7, <1>8, <1>10, <1>11, <1>12, <1>13 DEF CalmNext, CalmTask, CalmMonitor

----------------------------------------------------------------------------
(* What the gateway has, and what is so.                                    *)

\* Handling another notification than a start leaves the start to be handled, and at
\* rest "idle" is what is handled last.
LEMMA HandledHead ==
  ASSUME TypeInv, FlowInv, Handles
  PROVE  /\ Head(events).kind # "started" /\ Announced => Announced'
         /\ running # NoTurn /\ Head(events) \notin {Begun, Item} => Announced'
         /\ running = NoTurn /\ Head(events).kind # "idle" => events' # <<>>
<1> USE DEF TypeInv
<1>0. events # <<>> /\ events' = Tail(events) /\ running' = running /\ Begun' = Begun
      /\ Head(events) = events[1] /\ 1 \in DOMAIN events
  BY TailIs DEF Handles, Begun
<1>1. ASSUME NEW j \in DOMAIN events, j # 1, events[j] = Begun PROVE Announced'
  <2>1. j - 1 \in DOMAIN events' /\ events'[j - 1] = events[j]
    BY <1>0, <1>1, TailIs
  <2> QED BY <1>0, <1>1, <2>1 DEF Announced
<1>2. ASSUME Head(events).kind # "started", Announced PROVE Announced'
  <2>1. PICK j \in DOMAIN events : events[j] = Begun
    BY <1>2 DEF Announced
  <2>2. j # 1
    BY <1>0, <1>2, <2>1 DEF Begun
  <2> QED BY <1>1, <2>1, <2>2
<1>3. ASSUME running # NoTurn, Head(events) \notin {Begun, Item} PROVE Announced'
  <2>1. Before(1)
    BY <1>0, <1>3 DEF FlowInv
  <2>2. PICK j \in DOMAIN events : 1 < j /\ events[j] = Begun
    BY <2>1 DEF Before
  <2>3. j # 1
    BY <2>2
  <2> QED BY <1>1, <2>2, <2>3
<1>4. ASSUME running = NoTurn, Head(events).kind # "idle", events' = <<>> PROVE FALSE
  <2>1. Len(events) = 1
    BY <1>0, <1>4, TailIs
  <2> QED BY <1>0, <1>4, <2>1 DEF FlowInv
<1> QED BY <1>2, <1>3, <1>4

LEMMA TruthStep ==
  ASSUME Faultless, TypeInv, NumbersInv, FlowInv, KindInv, TaskInv, TruthInv, CalmNext
  PROVE  TruthInv'
<1> USE DEF TypeInv
<1>0. /\ running # NoTurn => Announced \/ (active = running /\ status = "running")
      /\ running = NoTurn /\ events = <<>> => active = NoTurn /\ status # "running"
  BY DEF TruthInv
\* A step that leaves app-server and the notifications alone.
<1>1. ASSUME Rests,
             running # NoTurn /\ ~Announced => active' = running /\ status' = "running",
             running = NoTurn /\ events = <<>> => active' = NoTurn /\ status' # "running"
      PROVE  TruthInv'
  BY <1>1 DEF Rests, TruthInv, Announced, Begun
<1>2. ASSUME Rests, UNCHANGED <<active, status>> PROVE TruthInv'
  BY <1>0, <1>1, <1>2
\* The end of an answered task is what it has heard of.
<1>3. ASSUME NEW t \in Tasks, pc[t] = "answered", job[t].kind # "compact", ~Announced, running # NoTurn
      PROVE  job[t].turn = running
  <2>1. CASE Ending
    <3>1. PICK i \in DOMAIN events : events[i].kind = "completed"
      BY <2>1 DEF Ending
    <3>2. Before(i)
      BY <1>3, <3>1 DEF FlowInv, Begun, Item
    <3> QED BY <1>3, <3>2 DEF Before, Announced
  <2> QED BY <1>3, <2>1 DEF TaskInv, Informed
<1>4. ASSUME NEW t \in Tasks, pc[t] = "answered", job[t].kind # "compact", events = <<>>
      PROVE  running # NoTurn
  <2>1. ~Ending
    BY <1>4 DEF Ending
  <2> QED BY <1>4, <2>1 DEF TaskInv, Informed
<1>5. ASSUME NEW t \in Tasks, CalmTask(t) PROVE TruthInv'
  <2>0. Rests
    BY <1>5, FlowMoves
  <2>1. CASE Submit(t)
    <3>1. UNCHANGED <<active, status>>
      BY <2>1, Zenon DEF Submit, memory
    <3> QED BY <1>2, <2>0, <3>1
  <2>2. CASE Sweep(t) \/ Gate(t) \/ Enter(t) \/ Ask(t)
    <3>1. UNCHANGED <<active, status>>
      BY <2>2 DEF Sweep, Gate, Enter, Ask, memory
    <3> QED BY <1>2, <2>0, <3>1
  <2>3. CASE Check(t)
    <3>1. active' \in {active, running} /\ status' = status
      BY <2>3 DEF Check
    <3> QED BY <1>0, <1>1, <2>0, <3>1
  <2>4. CASE BeginStart(t)
    <3>1. active = NoTurn /\ active' = active /\ status' = "starting"
      BY <2>4 DEF BeginStart, memory, TaskInv
    <3> QED BY <1>0, <1>1, <2>0, <3>1
  <2>5. CASE SteerAsks(t)
    <3>1. active' \in {active, running} /\ status' = status
      BY <2>5 DEF SteerAsks
    <3> QED BY <1>0, <1>1, <2>0, <3>1
  <2>6. CASE SendSettles(t)
    <3>1. pc[t] = "answered" /\ job[t].kind # "compact" /\ status' = "running"
          /\ (job[t].turn # NoTurn => active' = job[t].turn)
      BY <2>6 DEF SendSettles, Settles
    <3> QED BY <1>1, <1>3, <1>4, <2>0, <3>1
  <2>7. CASE CompactSettles(t)
    <3>1. /\ active' = IF running # NoTurn THEN running ELSE active
          /\ status' = IF running # NoTurn THEN "running" ELSE "completed"
      BY <2>7 DEF CompactSettles, Unread, Faultless
    <3> QED BY <1>0, <1>1, <2>0, <3>1
  <2>8. CASE SteerSettles(t)
    <3>1. pc[t] = "answered" /\ job[t].kind # "compact" /\ status' = status /\ active' = job[t].turn
      BY <2>8 DEF SteerSettles
    <3> QED BY <1>0, <1>1, <1>3, <1>4, <2>0, <3>1
  <2>9. CASE Fails(t)
    <3>1. active' = active /\ (status' = status \/ (status = "starting" /\ status' = "failed"))
      BY <2>9 DEF Fails
    <3> QED BY <1>0, <1>1, <2>0, <3>1
  <2> QED BY <1>5, <2>1, <2>2, <2>3, <2>4, <2>5, <2>6, <2>7, <2>8, <2>9, Zenon DEF CalmTask
<1>6. ASSUME NEW r \in inbox, Begins(r) \/ Steers(r) \/ Refuses(r) PROVE TruthInv'
  <2>1. UNCHANGED <<active, status>>
    BY <1>6 DEF Begins, Steers, Refuses, memory
  <2>2. Rests \/ BeginsTurn
    BY <1>6, FlowMoves
  <2>3. CASE BeginsTurn
    <3> DEFINE s == StartsWith(started + 1)
    <3>1. started + 1 \in Turns
      BY DEF EngineTypes, Turns, NoTurn
    <3>2. s \in Seq(Events) /\ s # <<>> /\ 2 \in DOMAIN s /\ s[2] = [kind |-> "started", turn |-> started + 1]
      BY <3>1 DEF StartsWith, Events
    <3> HIDE DEF s
    <3>3. events' = events \o s /\ running' = started + 1 /\ running' # NoTurn
      BY <2>3, <3>1 DEF BeginsTurn, s, Turns
    <3>4. Len(events) + 2 \in DOMAIN events' /\ events'[Len(events) + 2] = s[2]
      BY <3>2, <3>3, LongerIs
    <3> QED BY <3>2, <3>3, <3>4 DEF TruthInv, Announced, Begun
  <2> QED BY <1>2, <2>1, <2>2, <2>3
<1>7. CASE Works
  <2>1. ShowsItem /\ <<Item>> \in Seq(Events) /\ <<Item>> # <<>>
    <3>1. ShowsItem
      BY <1>7, WorksShows
    <3> QED BY <3>1 DEF ShowsItem, Item, Events, EngineTypes, TurnOrNo, Turns
  <2>2. Announced => Announced'
    BY <2>1, LongerIs DEF ShowsItem, Announced, Begun
  <2>3. UNCHANGED <<active, status>> /\ running' = running /\ running # NoTurn
    BY <1>7 DEF Works, memory, appServer
  <2> QED BY <1>0, <2>2, <2>3 DEF TruthInv
<1>8. CASE Ends
  <2>1. EndsTurn /\ EndsWith(running) \in Seq(Events) /\ EndsWith(running) # <<>>
    BY <1>8 DEF Ends, EndsTurn, EndsWith, Events, EngineTypes, TurnOrNo, Turns
  <2>2. events' # <<>> /\ running' = NoTurn
    BY <2>1, LongerIs DEF EndsTurn
  <2> QED BY <2>2 DEF TruthInv
<1>9. CASE MaintenanceReads
  <2>1. Rests /\ UNCHANGED <<active, status>>
    BY <1>9, FlowMoves DEF MaintenanceReads, memory
  <2> QED BY <1>2, <2>1
<1>10. CASE MaintenanceMarks
  <2>1. Rests
    BY <1>10, FlowMoves
  <2>2. \/ UNCHANGED <<active, status>>
        \/ active \in suspect /\ active' = NoTurn /\ status' \in {"completed", "failed", "stopped"}
    BY <1>10 DEF MaintenanceMarks, MarksTerminal
  <2>3. active \in suspect /\ active # NoTurn => active # running
    BY DEF NumbersInv
  <2> QED BY <1>0, <1>1, <1>2, <2>1, <2>2, <2>3
\* A step that handles a notification.
<1>11. ASSUME Handles,
              running # NoTurn => Announced' \/ (active' = running /\ status' = "running"),
              running = NoTurn => events' # <<>> \/ (active' = NoTurn /\ status' # "running")
       PROVE  TruthInv'
  BY <1>11 DEF Handles, TruthInv
<1>12. CASE HandleStarted
  <2>1. Handles /\ Head(events).kind = "started" /\ active' = Head(events).turn /\ status' = "running"
    BY <1>12 DEF HandleStarted, Handles, Handled, Incoming, appServer
  <2>2. Head(events) = Begun => active' = running
    BY <2>1 DEF Begun
  <2>3. Head(events) # Item
    BY <2>1 DEF Item
  <2> QED BY <1>11, <2>1, <2>2, <2>3, HandledHead
<1>13. CASE HandleCompleted
  <2>1. Handles /\ Head(events).kind = "completed"
    BY <1>13 DEF HandleCompleted, Handles, Handled, Incoming, appServer
  <2>2. Head(events) \notin {Begun, Item}
    BY <2>1 DEF Begun, Item
  <2> QED BY <1>11, <2>1, <2>2, HandledHead
<1>14. CASE HandleItem
  <2>1. UNCHANGED <<active, status>> /\ Head(events).kind = "item"
    BY <1>14, Zenon DEF HandleItem, memory, Incoming
  <2>2. Rests \/ Handles
    BY <1>14, FlowMoves DEF CalmMonitor
  <2> QED BY <1>0, <1>2, <1>11, <2>1, <2>2, HandledHead
<1>15. CASE HandleItemLocked
  <2>1. events # <<>> /\ Head(events).kind = "item"
    BY <1>15, Zenon DEF HandleItemLocked, EventTypes, PeekFits, Incoming
  <2>2. Handles
    BY <1>15, <2>1 DEF HandleItemLocked, Handles, Handled
  <2>3. active = running /\ running # NoTurn => active' = active /\ status' = status
    BY <1>15 DEF HandleItemLocked
  <2> QED BY <1>0, <1>11, <2>1, <2>2, <2>3, HandledHead
<1>16. CASE HandleActive
  <2>1. Handles /\ Head(events).kind = "active"
    BY <1>16 DEF HandleActive, Handles, Handled, Incoming
  <2>2. active = running /\ running # NoTurn => active' = active /\ status' = "running"
    BY <1>16 DEF HandleActive
  <2> QED BY <1>0, <1>11, <2>1, <2>2, HandledHead
<1>17. CASE HandleIdle
  <2>1. Handles /\ Head(events).kind = "idle" /\ ~Fault("timeout") /\ ~Fault("misread")
    BY <1>17 DEF HandleIdle, Handles, Handled, Incoming, Faultless, Fault
  <2>2. active = running /\ running # NoTurn => active' = running /\ status' = "running"
    BY <1>17, <2>1 DEF HandleIdle
  <2>3. running = NoTurn => active' = NoTurn /\ status' # "running"
    BY <1>17, <2>1 DEF HandleIdle
  <2> QED BY <1>0, <1>11, <2>1, <2>2, <2>3, HandledHead
<1> QED
  BY <1>5, <1>6, <1>7, <1>8, <1>9, <1>10, <1>12, <1>13, <1>14, <1>15, <1>16, <1>17
  DEF CalmNext, CalmMonitor

\* Once all is quiet, whatever users, app-server and maintenance have done: map, mark
\* and stored status of the session say what app-server does. Requests may be refused,
\* but are answered; no process exits, no notification is lost, and no view repairs.
THEOREM RecordsMatch == ASSUME Faultless PROVE Spec => []RecordsAgree
<1> DEFINE Inv == TypeInv /\ LockInv /\ PendingHasOwner /\ AgreeInv
<1>1. Init => Inv
  <2>1. Init => LockInv
    BY DEF Init, LockInv, Working
  <2>2. Init => PendingHasOwner
    BY DEF Init, PendingHasOwner
  <2> QED BY <2>1, <2>2, InitTypes, InitAgrees
<1>2. Inv /\ [Next]_vars => Inv'
  <2> SUFFICES ASSUME Inv, [Next]_vars PROVE Inv'
    OBVIOUS
  <2>1. TypeInv' /\ LockInv' /\ PendingHasOwner'
    BY TypeStep, LockInvStep, OwnerStep
  <2>2. CASE Next
    <3>1. CalmNext
      BY <2>2, CalmSteps DEF AgreeInv
    <3>2. SteadyInv' /\ NumbersInv' /\ FlowInv'
      BY <3>1, SteadyStep, NumbersStep, FlowStep DEF AgreeInv
    <3>3. KindInv' /\ TaskInv' /\ TruthInv'
      BY <3>1, KindStep, TaskStep, TruthStep DEF AgreeInv
    <3> QED BY <2>1, <3>2, <3>3 DEF AgreeInv
  <2>3. CASE UNCHANGED vars
    <3>1. AgreeInv'
      BY <2>3 DEF vars, appServer, memory, locks, tasks, watchers, bounds, AgreeInv, SteadyInv,
         NumbersInv, FlowInv, Before, Begun, Item, TaskInv, Starting, Informed, Ending,
         Launching, KindInv, TruthInv, Announced
    <3> QED BY <2>1, <3>1
  <2> QED BY <2>2, <2>3
<1>3. Inv => RecordsAgree
  <2> SUFFICES ASSUME Inv, Quiet PROVE (active = running /\ ~pending)
                 /\ Live(status) = (running # NoTurn) /\ status # "starting"
    BY DEF RecordsAgree, TurnAgrees, StatusAgrees
  <2>1. events = <<>> /\ \A t \in Tasks : pc[t] = "idle"
    BY DEF Quiet
  <2>2. ~pending
    <3>1. ~left
      BY DEF AgreeInv, SteadyInv
    <3>2. \A t \in Tasks : ~Starting(t) /\ ~Reconciling(t)
                          /\ pc[t] \notin {"relock", "stuck", "wedged"}
      BY <2>1 DEF Starting, Reconciling
    <3> QED BY <3>1, <3>2 DEF PendingHasOwner
  <2>3. status # "starting"
    BY <2>1 DEF AgreeInv, TaskInv, Launching
  <2>4. ~Announced
    BY <2>1 DEF Announced
  <2>5. active = running /\ (status = "running" <=> running # NoTurn)
    BY <2>1, <2>4 DEF AgreeInv, TruthInv
  <2> QED BY <2>2, <2>3, <2>5 DEF Live
<1> QED BY <1>1, <1>2, <1>3, PTL DEF Spec
=============================================================================
