------------------------ MODULE ShutdownScheduleProofs -------------------------
(***************************************************************************)
(* Theorems about the scheduled shutdown (ShutdownSchedule.tla), for any   *)
(* sets of sessions and of users, any faults and any bounds.               *)
(*                                                                         *)
(* CalmInv is the invariant that spares the work: a plan that no call-off  *)
(* reached, held by the disk (PlanCalm), by a process (HalfCalm), by the   *)
(* timer (ArmedCalm) or by its execution (FiredCalm), was made after a     *)
(* look that found nothing (LookInv), and nothing has come since.  While   *)
(* the monitor calls off for a turn (ToldInv), no plan is believed.        *)
(*                                                                         *)
(* DoneInv is the invariant that gets the machine shut down: while all is  *)
(* done, somebody is on the way to the plan (DueInv), since a turn that is *)
(* listed runs or its end is still to be handled (TurnInv).                *)
(***************************************************************************)
EXTENDS ShutdownSchedule, SequenceTheorems, TLAPS

----------------------------------------------------------------------------
(* What the variables are.                                                 *)

Job == [goal : Goals, on : Sessions \cup {None}, plan : PlanOrNo, seen : BOOLEAN, over : BOOLEAN,
        wish : Wishes]

ProcTypes == pc \in [Procs -> Steps] /\ job \in [Procs -> Job]
PlanTypes ==
  /\ plan \in PlanOrNo /\ armed \in PlanOrNo /\ loose \subseteq Plans /\ late \subseteq Plans
  /\ firing \in [Plans -> {"no", "woken", "erased", "ran"}]
  /\ plans \in PlanOrNo /\ now \in 0..plans
WorkTypes ==
  /\ queued \subseteq Sessions /\ paused \subseteq Sessions /\ wake \subseteq Sessions
  /\ running \subseteq Sessions /\ active \subseteq Sessions /\ notes \in Seq(Notes)
  /\ lock \in [Sessions -> Procs \cup {None}]
Flags  == after \in BOOLEAN /\ primed \in BOOLEAN /\ shut \in BOOLEAN /\ stalled \in BOOLEAN
Bounds == ops \in 0..MaxOps /\ faults \in 0..MaxFaults

\* What a process is about is a session in all that concerns one.
Aimed == {"send", "enqueue", "started", "completed", "drain", "dispatch", "remove"}
GoalOf(p) ==
  /\ job[p].goal \in Aimed => job[p].on \in Sessions
  /\ pc[p] \in {"ask", "answer"} => job[p].goal \in {"send", "dispatch"}
  /\ pc[p] = "queueing" => job[p].goal = "enqueue"
  /\ pc[p] = "sent" => job[p].goal = "dispatch"
  /\ pc[p] \in Making => job[p].plan # 0
  /\ pc[p] = "idle" => job[p].goal = "none"
  /\ p = "monitor" /\ pc[p] # "idle" => job[p].goal \in {"started", "completed"}
GoalInv == \A p \in Procs : GoalOf(p)

Base == ProcTypes /\ PlanTypes /\ WorkTypes /\ Flags /\ Bounds /\ GoalInv

\* Sessions, users, the monitor and the restoration are different processes.
LEMMA Names ==
  /\ Sessions \subseteq Procs /\ Users \subseteq Procs /\ "monitor" \in Procs /\ "restore" \in Procs
  /\ "monitor" # "restore" /\ None \notin Procs
  /\ \A s \in Sessions : s \notin Users /\ s # "monitor" /\ s # "restore" /\ s # None
  /\ \A u \in Users : u \notin Sessions /\ u # "monitor" /\ u # "restore" /\ u # None
  BY ShutdownConstants DEF Procs

\* Plans have numbers of plans.
LEMMA PlanSets ==
  ASSUME ProcTypes, PlanTypes
  PROVE  Timer \subseteq Plans /\ Half \subseteq Plans /\ Fired \subseteq Plans /\ plan \in Plans \cup {0}
<1>1. \A k \in PlanOrNo : k # 0 => k \in Plans
  BY ShutdownConstants DEF PlanOrNo, Plans
<1>2. \A p \in Procs : job[p].plan \in PlanOrNo
  BY DEF ProcTypes, Job
<1> QED BY <1>1, <1>2 DEF Timer, Half, Fired, PlanTypes

\* A job stays one when a part of it changes.
LEMMA JobEdits ==
  \A j \in Job :
    /\ \A k \in PlanOrNo : [j EXCEPT !.plan = k] \in Job
    /\ \A k \in PlanOrNo, w \in Wishes : [j EXCEPT !.wish = w, !.plan = k] \in Job
    /\ \A b \in BOOLEAN : [j EXCEPT !.seen = b] \in Job
    /\ [j EXCEPT !.seen = FALSE] \in Job
    /\ [j EXCEPT !.over = TRUE] \in Job
<1> TAKE j \in Job
<1>1. /\ \A k \in PlanOrNo : [j EXCEPT !.plan = k] \in Job
      /\ \A k \in PlanOrNo, w \in Wishes : [j EXCEPT !.wish = w, !.plan = k] \in Job
  BY DEF Job
<1>2. \A b \in BOOLEAN : [j EXCEPT !.seen = b] \in Job
  BY Zenon DEF Job
<1>3. [j EXCEPT !.seen = FALSE] \in Job
  BY Zenon DEF Job
<1>4. [j EXCEPT !.over = TRUE] \in Job
  BY Zenon DEF Job
<1> QED BY <1>1, <1>2, <1>3, <1>4

\* What a process begins with is a job.
LEMMA NewJobs ==
  /\ NoJob \in Job
  /\ \A g \in Goals : [NoJob EXCEPT !.goal = g] \in Job
  /\ \A g \in Goals, s \in Sessions \cup {None} : [NoJob EXCEPT !.goal = g, !.on = s] \in Job
  /\ \A g \in Goals, b \in BOOLEAN : [NoJob EXCEPT !.goal = g, !.seen = b] \in Job
<1>1. NoJob \in Job
  <2>1. "none" \in Goals /\ 0 \in PlanOrNo /\ "off" \in Wishes
    BY ShutdownConstants DEF Goals, PlanOrNo, Wishes
  <2> QED BY <2>1 DEF Job, NoJob
<1> HIDE DEF NoJob
<1>2. \A g \in Goals : [NoJob EXCEPT !.goal = g] \in Job
  BY <1>1 DEF Job
<1>3. \A g \in Goals, s \in Sessions \cup {None} : [NoJob EXCEPT !.goal = g, !.on = s] \in Job
  BY <1>1 DEF Job
<1>4. \A g \in Goals, b \in BOOLEAN : [NoJob EXCEPT !.goal = g, !.seen = b] \in Job
  BY <1>1, Zenon DEF Job
<1> QED BY <1>1, <1>2, <1>3, <1>4

\* The steps, by name.
LEMMA StepNames ==
  /\ {"idle", "cancel", "prime", "clear", "null", "settings", "work", "ask", "answer", "sent"} \subseteq Steps
  /\ {"queueing", "probe", "survey", "arm", "mark", "look", "forget", "judge", "reprime"} \subseteq Steps
  /\ {"unprime", "erase", "command", "leave", "turns", "threads", "write", "stop", "start"} \subseteq Steps
  BY DEF Steps, Trusting, Making

\* Being overtaken changes no more than what a job says of it.
LEMMA OvertakenType ==
  ASSUME ProcTypes, NEW p \in Procs, NEW trusting
  PROVE  /\ Overtaken(p, trusting) \in [Procs -> Job]
         /\ \A q \in Procs : Overtaken(p, trusting)[q] =
              IF pc[q] \in trusting /\ q # p THEN [job[q] EXCEPT !.over = TRUE] ELSE job[q]
<1>1. ASSUME NEW q \in Procs PROVE [job[q] EXCEPT !.over = TRUE] \in Job /\ job[q] \in Job
  BY JobEdits DEF ProcTypes
<1> QED BY <1>1 DEF Overtaken

\* The rest of an overtaken job stays, and its own is not overtaken.
LEMMA OvertakenKeeps ==
  ASSUME ProcTypes, NEW p \in Procs, NEW trusting, NEW q \in Procs
  PROVE  LET j == Overtaken(p, trusting)[q]
         IN  /\ j.goal = job[q].goal /\ j.on = job[q].on /\ j.plan = job[q].plan
             /\ j.seen = job[q].seen /\ j.wish = job[q].wish
             /\ job[q].over \/ (pc[q] \in trusting /\ q # p) => j.over
             /\ q = p => j = job[q]
<1> DEFINE j == Overtaken(p, trusting)[q]
<1>1. job[q] \in Job /\ j = IF pc[q] \in trusting /\ q # p THEN [job[q] EXCEPT !.over = TRUE] ELSE job[q]
  BY OvertakenType DEF ProcTypes
<1> HIDE DEF j
<1>2. /\ j.goal = job[q].goal /\ j.on = job[q].on /\ j.plan = job[q].plan /\ j.seen = job[q].seen
      /\ j.wish = job[q].wish
      /\ q = p => j = job[q]
  BY <1>1 DEF Job
<1>3. job[q].over \/ (pc[q] \in trusting /\ q # p) => j.over
  <2>1. [job[q] EXCEPT !.over = TRUE].over
    BY <1>1, Zenon DEF Job
  <2> QED BY <1>1, <2>1, Zenon
<1> QED BY <1>2, <1>3 DEF j

\* Who is overtaken stays where it is.
Overtakes(p, trusting, q) ==
  /\ pc'[q] = pc[q] /\ job'[q].goal = job[q].goal /\ job'[q].on = job[q].on
  /\ job'[q].plan = job[q].plan /\ job'[q].seen = job[q].seen /\ job'[q].wish = job[q].wish
  /\ job[q].over \/ pc[q] \in trusting => job'[q].over

\* What a step does that overtakes others.
LEMMA Overtaking ==
  ASSUME ProcTypes, NEW p \in Procs, NEW q \in Procs, NEW trusting, NEW step, NEW j,
         pc' = [pc EXCEPT ![p] = step], job' = [Overtaken(p, trusting) EXCEPT ![p] = j]
  PROVE  /\ q = p => pc'[q] = step /\ job'[q] = j
         /\ q # p => Overtakes(p, trusting, q)
<1> DEFINE O == Overtaken(p, trusting)
<1>1. O \in [Procs -> Job] /\ pc \in [Procs -> Steps]
  BY OvertakenType DEF ProcTypes
<1>2. job' = [O EXCEPT ![p] = j]
  OBVIOUS
<1> HIDE DEF O
<1>3. q = p => pc'[q] = step /\ job'[q] = j
  BY <1>1, <1>2
<1>4. ASSUME q # p PROVE Overtakes(p, trusting, q)
  <2>1. pc'[q] = pc[q] /\ job'[q] = O[q]
    BY <1>1, <1>2, <1>4
  <2>2. /\ O[q].goal = job[q].goal /\ O[q].on = job[q].on /\ O[q].plan = job[q].plan
        /\ O[q].seen = job[q].seen /\ O[q].wish = job[q].wish /\ (job[q].over \/ pc[q] \in trusting => O[q].over)
    BY <1>4, OvertakenKeeps DEF O
  <2> QED BY <2>1, <2>2, Zenon DEF Overtakes
<1> QED BY <1>3, <1>4

\* A process begins, the others go on.
LEMMA BegunJob ==
  ASSUME ProcTypes, NEW p \in Procs, NEW step, NEW g, NEW s, Begins(p, step, g, s)
  PROVE  /\ pc'[p] = step /\ job'[p].goal = g /\ job'[p].on = s /\ job'[p].plan = 0
         /\ \A q \in Procs : q # p => pc'[q] = pc[q] /\ job'[q] = job[q]
  BY DEF Begins, NoJob, ProcTypes

\* The four steps that overtake others.
LEMMA CancelMoves ==
  ASSUME ProcTypes, NEW p \in Procs, NEW q \in Procs, Cancel(p)
  PROVE  /\ q # p => Overtakes(p, Trusting, q)
         /\ q = p => /\ pc[q] = "cancel" /\ job'[q].goal = job[q].goal /\ job'[q].on = job[q].on
                     /\ job'[q].plan = job[q].plan /\ job'[q].over = job[q].over
                     /\ \/ pc'[q] = "prime" /\ (job'[q].seen <=> plan # 0)
                        \/ pc'[q] = "clear"
                        \/ pc'[q] = Then(job[q].goal) /\ plan = 0
<1> DEFINE b == after /\ ~primed /\ plan # 0  O == Overtaken(p, Trusting)
           next == IF after /\ ~primed THEN "prime" ELSE IF plan # 0 THEN "clear"
                   ELSE Then(job[p].goal)
<1>1. pc' = [pc EXCEPT ![p] = next]
  BY Zenon DEF Cancel
<1>2. job' = [O EXCEPT ![p].seen = b]
  BY Zenon DEF Cancel
<1>3. O \in [Procs -> Job] /\ O[p] = job[p] /\ job[p] \in Job
  <2>1. O \in [Procs -> Job] /\ job[p] \in Job
    BY OvertakenType DEF ProcTypes
  <2>2. O[p] = job[p]
    BY OvertakenKeeps
  <2> QED BY <2>1, <2>2
<1>4. job' = [O EXCEPT ![p] = [job[p] EXCEPT !.seen = b]]
  BY <1>2, <1>3
<1> DEFINE j == [job[p] EXCEPT !.seen = b]
<1>5. job' = [Overtaken(p, Trusting) EXCEPT ![p] = j]
  BY <1>4
<1> HIDE DEF j, next
<1>6. (q # p => Overtakes(p, Trusting, q)) /\ (q = p => pc'[q] = next /\ job'[q] = j)
  BY <1>1, <1>5, Overtaking
<1> USE DEF j, next
<1>7. q # p => Overtakes(p, Trusting, q)
  BY <1>6
<1>8. q = p => pc'[q] = next /\ job'[q] = [job[p] EXCEPT !.seen = b]
  BY <1>6
<1>9. ASSUME q = p
      PROVE  /\ pc[q] = "cancel" /\ job'[q].goal = job[q].goal /\ job'[q].on = job[q].on
             /\ job'[q].plan = job[q].plan /\ job'[q].over = job[q].over
  <2>1. pc[q] = "cancel"
    BY <1>9 DEF Cancel
  <2> HIDE DEF b
  <2> QED BY <1>3, <1>8, <1>9, <2>1 DEF Job
<1>10. ASSUME q = p PROVE job'[q].seen <=> b
  <2>1. [job[p] EXCEPT !.seen = b].seen = b
    BY <1>3, Zenon DEF Job
  <2> QED BY <1>8, <1>10, <2>1, Zenon
<1>11. ASSUME q = p
      PROVE  \/ pc'[q] = "prime" /\ (job'[q].seen <=> plan # 0)
             \/ pc'[q] = "clear"
             \/ pc'[q] = Then(job[q].goal) /\ plan = 0
  BY <1>8, <1>10, <1>11, Zenon
<1> QED BY <1>7, <1>9, <1>11

\* An item is queued: a call ends.
LEMMA QueueingMoves ==
  ASSUME ProcTypes, NEW u \in Users, NEW q \in Procs, Queueing(u)
  PROVE  (q # u => Overtakes(u, Trusting, q)) /\ (q = u => pc'[q] = "idle" /\ job'[q] = NoJob)
  BY Overtaking, Names DEF Queueing

\* A disarm begins its call-off.
LEMMA DisarmMoves ==
  ASSUME ProcTypes, NEW u \in Users, NEW q \in Procs, Disarm(u)
  PROVE  /\ q # u => Overtakes(u, Trusting \cup {"work"}, q)
         /\ q = u => pc'[q] = "clear" /\ job'[q].goal = "disarm"
<1> DEFINE j == [NoJob EXCEPT !.goal = "disarm"]  T == Trusting \cup {"work"}
<1>1. pc' = [pc EXCEPT ![u] = "clear"] /\ job' = [Overtaken(u, T) EXCEPT ![u] = j] /\ u \in Procs
  BY Names DEF Disarm
<1> HIDE DEF j, T
<1>2. (q # u => Overtakes(u, T, q)) /\ (q = u => pc'[q] = "clear" /\ job'[q] = j)
  BY <1>1, Overtaking
<1>3. j.goal = "disarm"
  BY DEF j, NoJob
<1> QED BY <1>2, <1>3 DEF T

\* A restoration without a command ends.
LEMMA ForgetMoves ==
  ASSUME ProcTypes, NEW q \in Procs, Forget
  PROVE  /\ q # "restore" => Overtakes("restore", Trusting \cup {"work"}, q)
         /\ q = "restore" => pc'[q] = "idle" /\ job'[q] = NoJob
  BY Overtaking, Names DEF Forget

\* A survey goes on to the write.
LEMMA SurveyMoves ==
  ASSUME ProcTypes, NEW u \in Users, NEW q \in Procs, Survey(u)
  PROVE  /\ pc' \in [Procs -> Steps] /\ job' \in [Procs -> Job]
         /\ q # u => pc'[q] = pc[q] /\ job'[q] = job[q]
         /\ q = u => /\ pc[q] = "survey" /\ pc'[q] = "arm" /\ job'[q].goal = job[q].goal
                     /\ job'[q].on = job[q].on /\ job'[q].plan = job[q].plan
                     /\ job'[q].over = job[q].over /\ job'[q].wish = job[q].wish
<1>1. PICK b \in BOOLEAN : job' = [job EXCEPT ![u].seen = b]
  <2>1. (active \cup running # {}) \in BOOLEAN
    BY Zenon
  <2> QED BY <2>1, Zenon DEF Survey
<1>2. u \in Procs /\ pc[u] = "survey" /\ pc' = [pc EXCEPT ![u] = "arm"]
  BY Names DEF Survey
<1>3. job[u] \in Job /\ [job[u] EXCEPT !.seen = b] \in Job
  BY <1>2, JobEdits DEF ProcTypes
<1>4. job' = [job EXCEPT ![u] = [job[u] EXCEPT !.seen = b]]
  BY <1>1, <1>2 DEF ProcTypes
<1>5. pc' \in [Procs -> Steps] /\ job' \in [Procs -> Job]
  BY <1>2, <1>3, <1>4, StepNames DEF ProcTypes
<1>6. q # u => pc'[q] = pc[q] /\ job'[q] = job[q]
  BY <1>2, <1>4 DEF ProcTypes
<1>7. q = u => pc'[q] = "arm" /\ job'[q] = [job[q] EXCEPT !.seen = b]
  BY <1>2, <1>4 DEF ProcTypes
<1> QED BY <1>2, <1>3, <1>5, <1>6, <1>7 DEF Job

\* A request that is dropped is over, the others go on.
LEMMA DropMoves ==
  ASSUME ProcTypes, NEW p \in Users \cup Sessions, NEW q \in Procs, Drop(p)
  PROVE  /\ pc' \in [Procs -> Steps] /\ job' \in [Procs -> Job]
         /\ p \in Procs /\ p # "monitor" /\ p # "restore"
         /\ q # p => pc'[q] = pc[q] /\ job'[q] = job[q]
         /\ q = p => pc'[q] = "idle" /\ job'[q] = NoJob
<1>1. p \in Procs /\ p # "monitor" /\ p # "restore"
  BY Names
<1>2. pc' = [pc EXCEPT ![p] = "idle"] /\ job' = [job EXCEPT ![p] = NoJob]
  BY DEF Drop
<1>3. NoJob \in Job
  BY NewJobs
<1> HIDE DEF NoJob
<1> QED BY <1>1, <1>2, <1>3, StepNames DEF ProcTypes

\* A process is at one of its steps.
LEMMA PcSteps ==
  ASSUME ProcTypes, Next
  PROVE  pc' \in [Procs -> Steps]
<1>1. ASSUME NEW p \in Procs, Cancel(p) PROVE pc' \in [Procs -> Steps]
  BY <1>1, StepNames DEF Cancel, Then, Procs, ProcTypes
<1>2. ASSUME NEW p \in Procs, Prime(p) PROVE pc' \in [Procs -> Steps]
  BY <1>2, StepNames DEF Prime, Then, Procs, ProcTypes
<1>3. ASSUME NEW p \in Procs, Clear(p) PROVE pc' \in [Procs -> Steps]
  BY <1>3, StepNames DEF Clear, Goes, Procs, ProcTypes
<1>4. ASSUME NEW p \in Procs, Null(p) PROVE pc' \in [Procs -> Steps]
  BY <1>4, StepNames DEF Null, Goes, Then, Procs, ProcTypes
<1>5. ASSUME NEW p \in Procs, Settings(p) PROVE pc' \in [Procs -> Steps]
  BY <1>5, StepNames DEF Settings, Goes, Procs, ProcTypes
<1>6. ASSUME NEW p \in Procs, Work(p) PROVE pc' \in [Procs -> Steps]
  BY <1>6, StepNames DEF Work, Goes, Procs, ProcTypes
<1>7. ASSUME NEW p \in Procs, Turns(p) PROVE pc' \in [Procs -> Steps]
  BY <1>7, StepNames DEF Turns, Goes, Procs, ProcTypes
<1>8. ASSUME NEW p \in Procs, Threads(p) PROVE pc' \in [Procs -> Steps]
  BY <1>8, StepNames DEF Threads, Goes, Procs, ProcTypes
<1>9. ASSUME NEW p \in Procs, Write(p) PROVE pc' \in [Procs -> Steps]
  BY <1>9, StepNames DEF Write, Goes, Procs, ProcTypes
<1>10. ASSUME NEW p \in Procs, Stop(p) PROVE pc' \in [Procs -> Steps]
  BY <1>10, StepNames DEF Stop, Goes, Procs, ProcTypes
<1>11. ASSUME NEW p \in Procs, Start(p) PROVE pc' \in [Procs -> Steps]
  BY <1>11, StepNames DEF Start, Goes, Procs, ProcTypes
<1>12. ASSUME NEW p \in Procs, Ask(p) PROVE pc' \in [Procs -> Steps]
  BY <1>12, StepNames DEF Ask, Goes, Procs, ProcTypes
<1>13. ASSUME NEW p \in Procs, Answered(p) PROVE pc' \in [Procs -> Steps]
  BY <1>13, StepNames DEF Answered, Goes, Procs, ProcTypes
<1>14. ASSUME NEW s \in Sessions, Drain(s) PROVE pc' \in [Procs -> Steps]
  BY <1>14, StepNames DEF Drain, Begins, Procs, ProcTypes
<1>15. ASSUME NEW s \in Sessions, Probe(s) PROVE pc' \in [Procs -> Steps]
  BY <1>15, StepNames DEF Probe, Goes, Sends, Begins, Procs, ProcTypes
<1>16. ASSUME NEW s \in Sessions, Sent(s) PROVE pc' \in [Procs -> Steps]
  BY <1>16, StepNames DEF Sent, Goes, Procs, ProcTypes
<1>17. ASSUME NEW u \in Users, Queueing(u) PROVE pc' \in [Procs -> Steps]
  BY <1>17, StepNames DEF Queueing, Procs, ProcTypes
<1>18. ASSUME NEW u \in Users, Arm(u) PROVE pc' \in [Procs -> Steps]
  BY <1>18, StepNames DEF Arm, Goes, Procs, ProcTypes
<1>19. ASSUME NEW u \in Users, ForceErases(u) PROVE pc' \in [Procs -> Steps]
  BY <1>19, StepNames DEF ForceErases, Goes, Procs, ProcTypes
<1>20. ASSUME NEW u \in Users, ForceExecutes(u) PROVE pc' \in [Procs -> Steps]
  BY <1>20, StepNames DEF ForceExecutes, Goes, Procs, ProcTypes
<1>21. ASSUME NEW u \in Users, ArmLooks(u) PROVE pc' \in [Procs -> Steps]
  BY <1>21, StepNames DEF ArmLooks, Procs, ProcTypes
<1>22. ASSUME NEW u \in Users, Disarm(u) PROVE pc' \in [Procs -> Steps]
  BY <1>22, StepNames DEF Disarm, Procs, ProcTypes
<1>23. ASSUME NEW u \in Users, ForceTakes(u) PROVE pc' \in [Procs -> Steps]
  BY <1>23, StepNames DEF ForceTakes, Begins, Procs, ProcTypes
<1>24. ASSUME NEW u \in Users, NEW s \in Sessions, UserSends(u, s) PROVE pc' \in [Procs -> Steps]
  BY <1>24, StepNames DEF UserSends, Sends, Begins, Procs, ProcTypes
<1>25. ASSUME NEW u \in Users, NEW s \in Sessions, Enqueue(u, s) PROVE pc' \in [Procs -> Steps]
  BY <1>25, StepNames DEF Enqueue, Begins, Procs, ProcTypes
<1>26. ASSUME NEW u \in Users, NEW s \in Sessions, RemoveItem(u, s) PROVE pc' \in [Procs -> Steps]
  BY <1>26, StepNames DEF RemoveItem, Begins, Procs, ProcTypes
<1>27. ASSUME HandleStarted PROVE pc' \in [Procs -> Steps]
  BY <1>27, StepNames DEF HandleStarted, Begins, Procs, ProcTypes
<1>28. ASSUME HandleCompleted PROVE pc' \in [Procs -> Steps]
  BY <1>28, StepNames DEF HandleCompleted, Begins, Procs, ProcTypes
<1>29. ASSUME Leave PROVE pc' \in [Procs -> Steps]
  BY <1>29, StepNames DEF Leave, Procs, ProcTypes
<1>30. ASSUME Mark PROVE pc' \in [Procs -> Steps]
  BY <1>30, StepNames DEF Mark, Goes, Procs, ProcTypes
<1>31. ASSUME Look PROVE pc' \in [Procs -> Steps]
  BY <1>31, StepNames DEF Look, Goes, Procs, ProcTypes
<1>32. ASSUME Forget PROVE pc' \in [Procs -> Steps]
  BY <1>32, StepNames DEF Forget, Procs, ProcTypes
<1>33. ASSUME Judge PROVE pc' \in [Procs -> Steps]
  BY <1>33, StepNames DEF Judge, Goes, Procs, ProcTypes
<1>34. ASSUME Reprime PROVE pc' \in [Procs -> Steps]
  BY <1>34, StepNames DEF Reprime, Goes, Procs, ProcTypes
<1>35. ASSUME Unprime PROVE pc' \in [Procs -> Steps]
  BY <1>35, StepNames DEF Unprime, Goes, Procs, ProcTypes
<1>36. ASSUME Crash PROVE pc' \in [Procs -> Steps]
  BY <1>36, StepNames DEF Crash, Procs, ProcTypes
<1>37. ASSUME UNCHANGED pc PROVE pc' \in [Procs -> Steps]
  BY <1>37, StepNames DEF Procs, ProcTypes
<1>38. ASSUME
       Tick
      PROVE pc' \in [Procs -> Steps]
  BY <1>38, <1>37 DEF Tick
<1>39. ASSUME NEW s \in Sessions,
       EndTurn(s)
      PROVE pc' \in [Procs -> Steps]
  BY <1>39, <1>37 DEF EndTurn
<1>40. ASSUME NEW u \in Users, NEW s \in Sessions,
       Resume(u, s)
      PROVE pc' \in [Procs -> Steps]
  BY <1>40, <1>37 DEF Resume
<1>41. ASSUME NEW k \in Plans,
       Wake(k) \/ Erase(k) \/ Execute(k)
      PROVE pc' \in [Procs -> Steps]
  BY <1>41, <1>37 DEF Wake, Erase, Execute
<1>42. ASSUME NEW u \in Users, Survey(u) PROVE pc' \in [Procs -> Steps]
  BY <1>42, SurveyMoves, Names
<1>43. ASSUME NEW p \in Users \cup Sessions, Drop(p) PROVE pc' \in [Procs -> Steps]
  BY <1>43, DropMoves, Names
<1> QED BY <1>1, <1>2, <1>3, <1>4, <1>5, <1>6, <1>7, <1>8, <1>9, <1>10, <1>11, <1>12, <1>13,
           <1>14, <1>15, <1>16, <1>17, <1>18, <1>19, <1>20, <1>21, <1>22, <1>23, <1>24,
           <1>25, <1>26, <1>27, <1>28, <1>29, <1>30, <1>31, <1>32, <1>33, <1>34, <1>35,
           <1>36, <1>37, <1>38, <1>39, <1>40, <1>41, <1>42, <1>43
     DEF Next, vars, Continue, Queues, User, Request, Timers, Monitor, Restore

\* What a process knows is a job.
LEMMA JobSteps ==
  ASSUME ProcTypes, PlanTypes, WorkTypes, Next
  PROVE  job' \in [Procs -> Job]
<1>1. ASSUME NEW p \in Procs, Cancel(p) PROVE job' \in [Procs -> Job]
  <2> DEFINE b == after /\ ~primed /\ plan # 0  O == Overtaken(p, Trusting)
  <2>1. b \in BOOLEAN
    OBVIOUS
  <2>2. O \in [Procs -> Job]
    BY OvertakenType
  <2>3. job' = [O EXCEPT ![p].seen = b]
    BY <1>1, Zenon DEF Cancel
  <2> HIDE DEF b, O
  <2>4. [O[p] EXCEPT !.seen = b] \in Job
    BY <2>1, <2>2, JobEdits
  <2> QED BY <2>2, <2>3, <2>4
<1>2. ASSUME NEW p \in Procs, Prime(p) PROVE job' \in [Procs -> Job]
  <2>1. [job[p] EXCEPT !.seen = FALSE] \in Job
    BY JobEdits DEF ProcTypes
  <2> QED BY <1>2, <2>1 DEF Prime, ProcTypes
<1>3. ASSUME NEW p \in Procs, Clear(p) PROVE job' \in [Procs -> Job]
  BY <1>3, NewJobs DEF Clear, Goes, Procs, ProcTypes
<1>4. ASSUME NEW p \in Procs, Null(p) PROVE job' \in [Procs -> Job]
  BY <1>4, NewJobs DEF Null, Goes, Then, Procs, ProcTypes
<1>5. ASSUME NEW p \in Procs, Settings(p) PROVE job' \in [Procs -> Job]
  <2>1. [job[p] EXCEPT !.plan = plan] \in Job
    BY JobEdits DEF ProcTypes, PlanTypes
  <2> QED BY <1>5, <2>1, NewJobs DEF Settings, Goes, ProcTypes
<1>6. ASSUME NEW p \in Procs, Work(p) PROVE job' \in [Procs -> Job]
  BY <1>6, NewJobs DEF Work, Goes, Procs, ProcTypes
<1>7. ASSUME NEW p \in Procs, Turns(p) PROVE job' \in [Procs -> Job]
  BY <1>7, NewJobs DEF Turns, Goes, Procs, ProcTypes
<1>8. ASSUME NEW p \in Procs, Threads(p) PROVE job' \in [Procs -> Job]
  BY <1>8, NewJobs DEF Threads, Goes, Procs, ProcTypes
<1>9. ASSUME NEW p \in Procs, Write(p) PROVE job' \in [Procs -> Job]
  <2>1. ASSUME plans # MaxPlans PROVE [job[p] EXCEPT !.plan = plans + 1] \in Job
    <3>1. plans + 1 \in PlanOrNo
      BY <2>1, ShutdownConstants DEF PlanTypes, PlanOrNo
    <3> QED BY <3>1, JobEdits DEF ProcTypes
  <2> QED BY <1>9, <2>1, NewJobs DEF Write, Goes, ProcTypes
<1>10. ASSUME NEW p \in Procs, Stop(p) PROVE job' \in [Procs -> Job]
  BY <1>10, NewJobs DEF Stop, Goes, Procs, ProcTypes
<1>11. ASSUME NEW p \in Procs, Start(p) PROVE job' \in [Procs -> Job]
  BY <1>11, NewJobs DEF Start, Goes, Procs, ProcTypes
<1>12. ASSUME NEW p \in Procs, Ask(p) PROVE job' \in [Procs -> Job]
  BY <1>12, NewJobs DEF Ask, Goes, Procs, ProcTypes
<1>13. ASSUME NEW p \in Procs, Answered(p) PROVE job' \in [Procs -> Job]
  BY <1>13, NewJobs DEF Answered, Goes, Procs, ProcTypes
<1>14. ASSUME NEW s \in Sessions, Drain(s) PROVE job' \in [Procs -> Job]
  <2>1. [NoJob EXCEPT !.goal = "drain", !.on = s] \in Job
    BY NewJobs DEF Goals
  <2> QED BY <1>14, <2>1 DEF Drain, Begins, Procs, ProcTypes
<1>15. ASSUME NEW s \in Sessions, Probe(s) PROVE job' \in [Procs -> Job]
  <2>1. [NoJob EXCEPT !.goal = "dispatch", !.on = s] \in Job
    BY NewJobs DEF Goals
  <2> QED BY <1>15, <2>1, NewJobs DEF Probe, Sends, Goes, Begins, Procs, ProcTypes
<1>16. ASSUME NEW s \in Sessions, Sent(s) PROVE job' \in [Procs -> Job]
  BY <1>16, NewJobs DEF Sent, Goes, Procs, ProcTypes
<1>17. ASSUME NEW u \in Users, Queueing(u) PROVE job' \in [Procs -> Job]
  <2>1. Overtaken(u, Trusting) \in [Procs -> Job] /\ NoJob \in Job
    BY OvertakenType, NewJobs DEF Procs
  <2> QED BY <1>17, <2>1 DEF Queueing, Procs
<1>18. ASSUME NEW u \in Users, Arm(u) PROVE job' \in [Procs -> Job]
  BY <1>18, NewJobs DEF Arm, Goes, Procs, ProcTypes
<1>19. ASSUME NEW u \in Users, ForceErases(u) PROVE job' \in [Procs -> Job]
  BY <1>19, NewJobs DEF ForceErases, Goes, Procs, ProcTypes
<1>20. ASSUME NEW u \in Users, ForceExecutes(u) PROVE job' \in [Procs -> Job]
  BY <1>20, NewJobs DEF ForceExecutes, Goes, Procs, ProcTypes
<1>21. ASSUME NEW u \in Users, ArmLooks(u) PROVE job' \in [Procs -> Job]
  <2> DEFINE b == queued # {}
  <2>1. [NoJob EXCEPT !.goal = "arm", !.seen = b] \in Job
    BY NewJobs DEF Goals
  <2>2. job' = [job EXCEPT ![u] = [NoJob EXCEPT !.goal = "arm", !.seen = b]]
    BY <1>21, Zenon DEF ArmLooks
  <2> HIDE DEF b
  <2> QED BY <2>1, <2>2 DEF Procs, ProcTypes
<1>22. ASSUME NEW u \in Users, Disarm(u) PROVE job' \in [Procs -> Job]
  <2>1. Overtaken(u, Trusting \cup {"work"}) \in [Procs -> Job]
    BY OvertakenType DEF Procs
  <2>2. [NoJob EXCEPT !.goal = "disarm"] \in Job
    BY NewJobs DEF Goals
  <2> QED BY <1>22, <2>1, <2>2 DEF Disarm, Procs
<1>23. ASSUME NEW u \in Users, ForceTakes(u) PROVE job' \in [Procs -> Job]
  <2>1. [NoJob EXCEPT !.goal = "force", !.on = None] \in Job
    BY NewJobs DEF Goals
  <2> QED BY <1>23, <2>1 DEF ForceTakes, Begins, Procs, ProcTypes
<1>24. ASSUME NEW u \in Users, NEW s \in Sessions, UserSends(u, s) PROVE job' \in [Procs -> Job]
  <2>1. [NoJob EXCEPT !.goal = "send", !.on = s] \in Job
    BY NewJobs DEF Goals
  <2> QED BY <1>24, <2>1 DEF UserSends, Sends, Begins, Procs, ProcTypes
<1>25. ASSUME NEW u \in Users, NEW s \in Sessions, Enqueue(u, s) PROVE job' \in [Procs -> Job]
  <2>1. [NoJob EXCEPT !.goal = "enqueue", !.on = s] \in Job
    BY NewJobs DEF Goals
  <2> QED BY <1>25, <2>1 DEF Enqueue, Begins, Procs, ProcTypes
<1>26. ASSUME NEW u \in Users, NEW s \in Sessions, RemoveItem(u, s) PROVE job' \in [Procs -> Job]
  <2>1. [NoJob EXCEPT !.goal = "remove", !.on = s] \in Job
    BY NewJobs DEF Goals
  <2> QED BY <1>26, <2>1 DEF RemoveItem, Begins, Procs, ProcTypes
<1>27. ASSUME HandleStarted PROVE job' \in [Procs -> Job]
  <2>1. notes # <<>> /\ notes \in Seq(Notes)
    BY <1>27 DEF HandleStarted, WorkTypes
  <2>2. Head(notes)[2] \in Sessions
    BY <2>1, HeadTailProperties DEF Notes
  <2>3. [NoJob EXCEPT !.goal = "started", !.on = Head(notes)[2]] \in Job
    BY <2>2, NewJobs DEF Goals
  <2> QED BY <1>27, <2>3 DEF HandleStarted, Begins, Procs, ProcTypes
<1>28. ASSUME HandleCompleted PROVE job' \in [Procs -> Job]
  <2>1. notes # <<>> /\ notes \in Seq(Notes)
    BY <1>28 DEF HandleCompleted, WorkTypes
  <2>2. Head(notes)[2] \in Sessions
    BY <2>1, HeadTailProperties DEF Notes
  <2>3. [NoJob EXCEPT !.goal = "completed", !.on = Head(notes)[2]] \in Job
    BY <2>2, NewJobs DEF Goals
  <2> QED BY <1>28, <2>3 DEF HandleCompleted, Begins, Procs, ProcTypes
<1>29. ASSUME Leave PROVE job' \in [Procs -> Job]
  BY <1>29, NewJobs DEF Leave, Procs, ProcTypes
<1>30. ASSUME Mark PROVE job' \in [Procs -> Job]
  BY <1>30, NewJobs DEF Mark, Goes, Procs, ProcTypes
<1>31. ASSUME Look PROVE job' \in [Procs -> Job]
  <2> DEFINE w == IF ~after THEN "off" ELSE IF primed THEN "primed" ELSE "armed"
              r == "restore"  j == job[r]
  <2>1. w \in Wishes
    BY DEF Wishes
  <2>2. j \in Job /\ r \in Procs
    BY DEF ProcTypes, Procs
  <2>3. CASE job' = [job EXCEPT !["restore"].wish = w, !["restore"].plan = plan]
    <3> HIDE DEF w
    <3>1. [[j EXCEPT !.wish = w] EXCEPT !.plan = plan] \in Job
      BY <2>1, <2>2, JobEdits DEF PlanTypes
    <3> QED BY <2>2, <2>3, <3>1 DEF ProcTypes
  <2> QED BY <1>31, <2>3, NewJobs DEF Look, Goes, ProcTypes
<1>32. ASSUME Forget PROVE job' \in [Procs -> Job]
  <2>1. Overtaken("restore", Trusting \cup {"work"}) \in [Procs -> Job] /\ NoJob \in Job
    BY OvertakenType, NewJobs DEF Procs
  <2> QED BY <1>32, <2>1 DEF Forget, Procs
<1>33. ASSUME Judge PROVE job' \in [Procs -> Job]
  BY <1>33, NewJobs DEF Judge, Goes, Procs, ProcTypes
<1>34. ASSUME Reprime PROVE job' \in [Procs -> Job]
  BY <1>34, NewJobs DEF Reprime, Goes, Procs, ProcTypes
<1>35. ASSUME Unprime PROVE job' \in [Procs -> Job]
  BY <1>35, NewJobs DEF Unprime, Goes, Procs, ProcTypes
<1>36. ASSUME Crash PROVE job' \in [Procs -> Job]
  <2>1. [NoJob EXCEPT !.goal = "restore"] \in Job
    BY NewJobs DEF Goals
  <2> QED BY <1>36, <2>1, NewJobs DEF Crash
<1>37. ASSUME UNCHANGED job PROVE job' \in [Procs -> Job]
  BY <1>37, NewJobs DEF Procs, ProcTypes
<1>38. ASSUME
       Tick
      PROVE job' \in [Procs -> Job]
  BY <1>38, <1>37 DEF Tick
<1>39. ASSUME NEW s \in Sessions,
       EndTurn(s)
      PROVE job' \in [Procs -> Job]
  BY <1>39, <1>37 DEF EndTurn
<1>40. ASSUME NEW u \in Users, NEW s \in Sessions,
       Resume(u, s)
      PROVE job' \in [Procs -> Job]
  BY <1>40, <1>37 DEF Resume
<1>41. ASSUME NEW k \in Plans,
       Wake(k) \/ Erase(k) \/ Execute(k)
      PROVE job' \in [Procs -> Job]
  BY <1>41, <1>37 DEF Wake, Erase, Execute
<1>42. ASSUME NEW u \in Users, Survey(u) PROVE job' \in [Procs -> Job]
  BY <1>42, SurveyMoves, Names
<1>43. ASSUME NEW p \in Users \cup Sessions, Drop(p) PROVE job' \in [Procs -> Job]
  BY <1>43, DropMoves, Names
<1> QED BY <1>1, <1>2, <1>3, <1>4, <1>5, <1>6, <1>7, <1>8, <1>9, <1>10, <1>11, <1>12, <1>13,
           <1>14, <1>15, <1>16, <1>17, <1>18, <1>19, <1>20, <1>21, <1>22, <1>23, <1>24,
           <1>25, <1>26, <1>27, <1>28, <1>29, <1>30, <1>31, <1>32, <1>33, <1>34, <1>35,
           <1>36, <1>37, <1>38, <1>39, <1>40, <1>41, <1>42, <1>43
     DEF Next, vars, Continue, Queues, User, Request, Timers, Monitor, Restore

\* A process that begins something.
LEMMA BegunGoal ==
  ASSUME ProcTypes, GoalInv, NEW q \in Procs, NEW p \in Procs, NEW step \in Steps, NEW g \in Goals,
         NEW s \in Sessions \cup {None}, Begins(p, step, g, s),
         g \in Aimed => s \in Sessions, step \notin {"idle", "ask", "answer", "queueing", "sent"} \cup Making,
         p = "monitor" => g \in {"started", "completed"}
  PROVE  GoalOf(q)'
<1>1. CASE q = p
  BY <1>1 DEF Begins, ProcTypes, GoalOf, NoJob, Job
<1>2. CASE q # p
  <2>1. pc'[q] = pc[q] /\ job'[q] = job[q]
    BY <1>2 DEF Begins, ProcTypes
  <2> QED BY <2>1 DEF GoalInv, GoalOf
<1> QED BY <1>1, <1>2

\* What a process is about fits where it is.
LEMMA GoalOfStep ==
  ASSUME ProcTypes, PlanTypes, WorkTypes, GoalInv, Next, NEW q \in Procs
  PROVE  GoalOf(q)'
<1>1. ASSUME NEW p \in Procs, Cancel(p) PROVE GoalOf(q)'
  BY <1>1, Names DEF Cancel, Overtaken, Then, ProcTypes, Job, GoalInv, NoJob, Aimed, GoalOf,
                     Making
<1>2. ASSUME NEW p \in Procs, Prime(p) PROVE GoalOf(q)'
  BY <1>2, Names DEF Prime, Then, ProcTypes, Job, GoalInv, NoJob, Aimed, GoalOf, Making
<1>3. ASSUME NEW p \in Procs, Clear(p) PROVE GoalOf(q)'
  BY <1>3, Names DEF Clear, Goes, ProcTypes, Job, GoalInv, NoJob, Aimed, GoalOf, Making
<1>4. ASSUME NEW p \in Procs, Null(p) PROVE GoalOf(q)'
  BY <1>4, Names DEF Null, Goes, Then, ProcTypes, Job, GoalInv, NoJob, Aimed, GoalOf, Making
<1>5. ASSUME NEW p \in Procs, Settings(p) PROVE GoalOf(q)'
  BY <1>5, Names DEF Settings, Goes, Future, PlanTypes, PlanOrNo, ProcTypes, Job, GoalInv,
                     NoJob, Aimed, GoalOf, Making
<1>6. ASSUME NEW p \in Procs, Work(p) PROVE GoalOf(q)'
  BY <1>6, Names DEF Work, Goes, ProcTypes, Job, GoalInv, NoJob, Aimed, GoalOf, Making
<1>7. ASSUME NEW p \in Procs, Turns(p) PROVE GoalOf(q)'
  BY <1>7, Names DEF Turns, Goes, ProcTypes, Job, GoalInv, NoJob, Aimed, GoalOf, Making
<1>8. ASSUME NEW p \in Procs, Threads(p) PROVE GoalOf(q)'
  BY <1>8, Names DEF Threads, Goes, ProcTypes, Job, GoalInv, NoJob, Aimed, GoalOf, Making
<1>9. ASSUME NEW p \in Procs, Write(p) PROVE GoalOf(q)'
  BY <1>9, Names DEF Write, Goes, Future, PlanTypes, PlanOrNo, ProcTypes, Job, GoalInv,
                     NoJob, Aimed, GoalOf, Making
<1>10. ASSUME NEW p \in Procs, Stop(p) PROVE GoalOf(q)'
  BY <1>10, Names DEF Stop, Goes, ProcTypes, Job, GoalInv, NoJob, Aimed, GoalOf, Making
<1>11. ASSUME NEW p \in Procs, Start(p) PROVE GoalOf(q)'
  BY <1>11, Names DEF Start, Goes, ProcTypes, Job, GoalInv, NoJob, Aimed, GoalOf, Making
<1>12. ASSUME NEW p \in Procs, Ask(p) PROVE GoalOf(q)'
  BY <1>12, Names DEF Ask, Goes, ProcTypes, Job, GoalInv, NoJob, Aimed, GoalOf, Making
<1>13. ASSUME NEW p \in Procs, Answered(p) PROVE GoalOf(q)'
  BY <1>13, Names DEF Answered, Goes, ProcTypes, Job, GoalInv, NoJob, Aimed, GoalOf, Making
<1>14. ASSUME NEW s \in Sessions, Drain(s) PROVE GoalOf(q)'
  <2>1. Begins(s, "settings", "drain", s) \/ Begins(s, "probe", "drain", s) \/ UNCHANGED <<pc, job>>
    BY <1>14 DEF Drain
  <2>2. ASSUME UNCHANGED <<pc, job>> PROVE GoalOf(q)'
    BY <2>2 DEF GoalInv, GoalOf
  <2> QED BY <2>1, <2>2, Names, BegunGoal, StepNames DEF Goals, Aimed, Making
<1>15. ASSUME NEW s \in Sessions, Probe(s) PROVE GoalOf(q)'
  <2>1. Begins(s, "cancel", "dispatch", s) \/ Goes(s, "leave")
    BY <1>15 DEF Probe, Sends
  <2>2. ASSUME Goes(s, "leave") PROVE GoalOf(q)'
    BY <2>2, Names DEF Goes, GoalInv, GoalOf, ProcTypes, Job, NoJob, Aimed, Making
  <2> QED BY <2>1, <2>2, Names, BegunGoal, StepNames DEF Goals, Aimed, Making
<1>16. ASSUME NEW s \in Sessions, Sent(s) PROVE GoalOf(q)'
  BY <1>16, Names DEF Sent, Goes, ProcTypes, Job, GoalInv, NoJob, Aimed, GoalOf, Making
<1>17. ASSUME NEW u \in Users, Queueing(u) PROVE GoalOf(q)'
  <2>1. CASE q = u
    BY <1>17, <2>1, Names, QueueingMoves DEF GoalOf, NoJob, Aimed, Making
  <2>2. CASE q # u
    <3>1. /\ pc'[q] = pc[q] /\ job'[q].goal = job[q].goal /\ job'[q].on = job[q].on
          /\ job'[q].plan = job[q].plan
      BY <1>17, <2>2, QueueingMoves DEF Overtakes
    <3> QED BY <3>1 DEF GoalInv, GoalOf
  <2> QED BY <2>1, <2>2
<1>18. ASSUME NEW u \in Users, Arm(u) PROVE GoalOf(q)'
  BY <1>18, Names DEF Arm, Goes, ProcTypes, Job, GoalInv, NoJob, Aimed, GoalOf, Making
<1>19. ASSUME NEW u \in Users, ForceErases(u) PROVE GoalOf(q)'
  BY <1>19, Names DEF ForceErases, Goes, ProcTypes, Job, GoalInv, NoJob, Aimed, GoalOf,
                      Making
<1>20. ASSUME NEW u \in Users, ForceExecutes(u) PROVE GoalOf(q)'
  BY <1>20, Names DEF ForceExecutes, Goes, ProcTypes, Job, GoalInv, NoJob, Aimed, GoalOf,
                      Making
<1>21. ASSUME NEW u \in Users, ArmLooks(u) PROVE GoalOf(q)'
  BY <1>21, Names DEF ArmLooks, Asks, ProcTypes, Job, GoalInv, NoJob, Aimed, GoalOf, Making
<1>22. ASSUME NEW u \in Users, Disarm(u) PROVE GoalOf(q)'
  <2>1. CASE q = u
    BY <1>22, <2>1, Names, DisarmMoves DEF GoalOf, NoJob, Aimed, Making
  <2>2. CASE q # u
    <3>1. /\ pc'[q] = pc[q] /\ job'[q].goal = job[q].goal /\ job'[q].on = job[q].on
          /\ job'[q].plan = job[q].plan
      BY <1>22, <2>2, DisarmMoves DEF Overtakes
    <3> QED BY <3>1 DEF GoalInv, GoalOf
  <2> QED BY <2>1, <2>2
<1>23. ASSUME NEW u \in Users, ForceTakes(u) PROVE GoalOf(q)'
  BY <1>23, Names DEF ForceTakes, Begins, Asks, ProcTypes, Job, GoalInv, NoJob, Aimed,
                      GoalOf, Making
<1>24. ASSUME NEW u \in Users, NEW s \in Sessions, UserSends(u, s) PROVE GoalOf(q)'
  BY <1>24, Names DEF UserSends, Sends, Asks, Begins, ProcTypes, Job, GoalInv, NoJob, Aimed,
                      GoalOf, Making
<1>25. ASSUME NEW u \in Users, NEW s \in Sessions, Enqueue(u, s) PROVE GoalOf(q)'
  BY <1>25, Names DEF Enqueue, Begins, Asks, ProcTypes, Job, GoalInv, NoJob, Aimed, GoalOf,
                      Making
<1>26. ASSUME NEW u \in Users, NEW s \in Sessions, RemoveItem(u, s) PROVE GoalOf(q)'
  BY <1>26, Names DEF RemoveItem, Begins, Asks, ProcTypes, Job, GoalInv, NoJob, Aimed,
                      GoalOf, Making
<1>27. ASSUME HandleStarted PROVE GoalOf(q)'
  <2>1. notes # <<>> /\ notes \in Seq(Notes)
    BY <1>27 DEF HandleStarted, WorkTypes
  <2>2. Head(notes)[2] \in Sessions
    BY <2>1, HeadTailProperties DEF Notes
  <2>3. Begins("monitor", "cancel", "started", Head(notes)[2])
    BY <1>27 DEF HandleStarted
  <2> QED BY <2>2, <2>3, Names, BegunGoal, StepNames DEF Goals, Aimed, Making
<1>28. ASSUME HandleCompleted PROVE GoalOf(q)'
  <2>1. notes # <<>> /\ notes \in Seq(Notes)
    BY <1>28 DEF HandleCompleted, WorkTypes
  <2>2. Head(notes)[2] \in Sessions
    BY <2>1, HeadTailProperties DEF Notes
  <2>3. Begins("monitor", "settings", "completed", Head(notes)[2]) \/ UNCHANGED <<pc, job>>
    BY <1>28 DEF HandleCompleted
  <2>4. ASSUME UNCHANGED <<pc, job>> PROVE GoalOf(q)'
    BY <2>4 DEF GoalInv, GoalOf
  <2> QED BY <2>2, <2>3, <2>4, Names, BegunGoal, StepNames DEF Goals, Aimed, Making
<1>29. ASSUME Leave PROVE GoalOf(q)'
  BY <1>29, Names DEF Leave, ProcTypes, Job, GoalInv, NoJob, Aimed, GoalOf, Making
<1>30. ASSUME Mark PROVE GoalOf(q)'
  BY <1>30, Names DEF Mark, Goes, ProcTypes, Job, GoalInv, NoJob, Aimed, GoalOf, Making
<1>31. ASSUME Look PROVE GoalOf(q)'
  BY <1>31, Names DEF Look, Goes, ProcTypes, Job, GoalInv, NoJob, Aimed, GoalOf, Making
<1>32. ASSUME Forget PROVE GoalOf(q)'
  <2>1. CASE q = "restore"
    BY <1>32, <2>1, Names, ForgetMoves DEF GoalOf, NoJob, Aimed, Making
  <2>2. CASE q # "restore"
    <3>1. /\ pc'[q] = pc[q] /\ job'[q].goal = job[q].goal /\ job'[q].on = job[q].on
          /\ job'[q].plan = job[q].plan
      BY <1>32, <2>2, ForgetMoves DEF Overtakes
    <3> QED BY <3>1 DEF GoalInv, GoalOf
  <2> QED BY <2>1, <2>2
<1>33. ASSUME Judge PROVE GoalOf(q)'
  BY <1>33, Names DEF Judge, Goes, Future, PlanTypes, PlanOrNo, ProcTypes, Job, GoalInv,
                      NoJob, Aimed, GoalOf, Making
<1>34. ASSUME Reprime PROVE GoalOf(q)'
  BY <1>34, Names DEF Reprime, Goes, Future, PlanTypes, PlanOrNo, ProcTypes, Job, GoalInv,
                      NoJob, Aimed, GoalOf, Making
<1>35. ASSUME Unprime PROVE GoalOf(q)'
  BY <1>35, Names DEF Unprime, Goes, ProcTypes, Job, GoalInv, NoJob, Aimed, GoalOf, Making
<1>36. ASSUME Crash PROVE GoalOf(q)'
  BY <1>36, Names DEF Crash, ProcTypes, Job, GoalInv, NoJob, Aimed, GoalOf, Making
<1>37. ASSUME UNCHANGED <<pc, job>> PROVE GoalOf(q)'
  BY <1>37, Names DEF ProcTypes, Job, GoalInv, NoJob, Aimed, GoalOf, Making
<1>38. ASSUME
       Tick
      PROVE GoalOf(q)'
  BY <1>38, <1>37 DEF Tick
<1>39. ASSUME NEW s \in Sessions,
       EndTurn(s)
      PROVE GoalOf(q)'
  BY <1>39, <1>37 DEF EndTurn
<1>40. ASSUME NEW u \in Users, NEW s \in Sessions,
       Resume(u, s)
      PROVE GoalOf(q)'
  BY <1>40, <1>37 DEF Resume
<1>41. ASSUME NEW k \in Plans,
       Wake(k) \/ Erase(k) \/ Execute(k)
      PROVE GoalOf(q)'
  BY <1>41, <1>37 DEF Wake, Erase, Execute
<1>42. ASSUME NEW u \in Users, Survey(u) PROVE GoalOf(q)'
  BY <1>42, SurveyMoves, Names DEF GoalInv, Aimed, GoalOf, Making
<1>43. ASSUME NEW p \in Users \cup Sessions, Drop(p) PROVE GoalOf(q)'
  BY <1>43, DropMoves, Names DEF GoalInv, NoJob, Aimed, GoalOf, Making
<1> QED BY <1>1, <1>2, <1>3, <1>4, <1>5, <1>6, <1>7, <1>8, <1>9, <1>10, <1>11, <1>12, <1>13,
           <1>14, <1>15, <1>16, <1>17, <1>18, <1>19, <1>20, <1>21, <1>22, <1>23, <1>24,
           <1>25, <1>26, <1>27, <1>28, <1>29, <1>30, <1>31, <1>32, <1>33, <1>34, <1>35,
           <1>36, <1>37, <1>38, <1>39, <1>40, <1>41, <1>42, <1>43
     DEF Next, vars, Continue, Queues, User, Request, Timers, Monitor, Restore

\* The timers are of plans.
LEMMA PlanSetSteps ==
  ASSUME ProcTypes, PlanTypes, GoalInv, Next
  PROVE  (loose \subseteq Plans /\ late \subseteq Plans /\ firing \in [Plans -> {"no", "woken", "erased", "ran"}])'
<1> DEFINE Goal == (loose \subseteq Plans /\ late \subseteq Plans
                     /\ firing \in [Plans -> {"no", "woken", "erased", "ran"}])'
<1>1. ASSUME NEW p \in Procs, Cancel(p) PROVE Goal
  BY <1>1, PlanSets DEF Cancel, Then, timers, PlanTypes
<1>2. ASSUME NEW p \in Procs, Null(p) PROVE Goal
  BY <1>2, PlanSets DEF Null, Then, timers, PlanTypes
<1>3. ASSUME NEW p \in Procs, Write(p) PROVE Goal
  <2>1. plans # MaxPlans => {plans + 1} \subseteq Plans
    BY ShutdownConstants DEF PlanTypes, PlanOrNo, Plans
  <2>2. loose' = loose /\ firing' = firing /\ (late' = late \/ (plans # MaxPlans /\ late' = late \cup {plans + 1}))
    BY <1>3 DEF Write, timers
  <2> QED BY <2>1, <2>2 DEF PlanTypes
<1>4. ASSUME NEW p \in Procs, Start(p) PROVE Goal
  <2>1. {job[p].plan} \subseteq Plans
    <3>1. job[p].plan \in PlanOrNo /\ job[p].plan # 0
      BY <1>4 DEF ProcTypes, Job, Start, GoalInv, GoalOf, Making
    <3> QED BY <3>1, ShutdownConstants DEF PlanOrNo, Plans
  <2> QED BY <1>4, <2>1, PlanSets DEF Start, PlanTypes
<1>5. ASSUME NEW u \in Users, Queueing(u) PROVE Goal
  BY <1>5, PlanSets DEF Queueing, timers, PlanTypes
<1>6. ASSUME NEW u \in Users, Arm(u) PROVE Goal
  BY <1>6, PlanSets DEF Arm, timers, PlanTypes
<1>7. ASSUME NEW u \in Users, ForceErases(u) PROVE Goal
  BY <1>7, PlanSets DEF ForceErases, timers, PlanTypes
<1>8. ASSUME NEW u \in Users, Disarm(u) PROVE Goal
  BY <1>8, PlanSets DEF Disarm, timers, PlanTypes
<1>9. ASSUME NEW u \in Users, ForceTakes(u) PROVE Goal
  BY <1>9, PlanSets DEF ForceTakes, PlanTypes
<1>10. ASSUME NEW k \in Plans, Wake(k) PROVE Goal
  BY <1>10, PlanSets DEF Wake, PlanTypes
<1>11. ASSUME NEW k \in Plans, Erase(k) PROVE Goal
  BY <1>11, PlanSets DEF Erase, PlanTypes
<1>12. ASSUME NEW k \in Plans, Execute(k) PROVE Goal
  BY <1>12, PlanSets DEF Execute, PlanTypes
<1>13. ASSUME Forget PROVE Goal
  BY <1>13, PlanSets DEF Forget, timers, PlanTypes
<1>14. ASSUME Unprime PROVE Goal
  BY <1>14, PlanSets DEF Unprime, timers, PlanTypes
<1>15. ASSUME Crash PROVE Goal
  BY <1>15, PlanSets DEF Crash, PlanTypes
<1>16. ASSUME UNCHANGED <<loose, late, firing>> PROVE Goal
  BY <1>16, PlanSets DEF PlanTypes
<1>17. ASSUME
       HandleStarted \/ HandleCompleted \/ Leave \/ Mark \/ Look \/ Judge \/ Reprime \/
       Tick
      PROVE Goal
  BY <1>17, <1>16 DEF HandleStarted, timers, HandleCompleted, Leave, Mark, Look, Judge,
                      Reprime, Tick
<1>18. ASSUME NEW p \in Procs,
       Prime(p) \/ Clear(p) \/ Settings(p) \/ Work(p) \/ Turns(p) \/ Threads(p) \/ Stop(p)
       \/ Ask(p) \/ Answered(p)
      PROVE Goal
  BY <1>18, <1>16 DEF Prime, timers, Clear, Settings, Work, Turns, Threads, Stop, Ask,
                      Answered
<1>19. ASSUME NEW s \in Sessions,
       Drain(s) \/ Probe(s) \/ Sent(s) \/ EndTurn(s)
      PROVE Goal
  BY <1>19, <1>16 DEF Drain, timers, Probe, Sends, Sent, EndTurn
<1>20. ASSUME NEW u \in Users,
       ForceExecutes(u) \/ ArmLooks(u)
      PROVE Goal
  BY <1>20, <1>16 DEF ForceExecutes, timers, ArmLooks
<1>21. ASSUME NEW u \in Users, NEW s \in Sessions,
       UserSends(u, s) \/ Enqueue(u, s) \/ RemoveItem(u, s) \/ Resume(u, s)
      PROVE Goal
  BY <1>21, <1>16 DEF UserSends, Sends, timers, Enqueue, RemoveItem, Resume
<1>22. ASSUME NEW u \in Users, Survey(u) PROVE Goal
  BY <1>22, <1>16 DEF Survey, timers
<1>23. ASSUME NEW p \in Users \cup Sessions, Drop(p) PROVE Goal
  <2> DEFINE mine == IF pc[p] = "start" THEN {job[p].plan} \ {0} ELSE {}
             more == IF pc[p] = "clear" /\ job[p].goal = "disarm" THEN Timer ELSE {}
  <2>1. loose' = loose \cup mine /\ late' = late \cup mine \cup more /\ firing' = firing
    BY <1>23, Zenon DEF Drop
  <2>2. mine \subseteq Plans /\ more \subseteq Plans
    BY PlanSets, Names DEF Half, Making
  <2> HIDE DEF mine, more
  <2> QED BY <2>1, <2>2 DEF PlanTypes
<1> QED BY <1>1, <1>2, <1>3, <1>4, <1>5, <1>6, <1>7, <1>8, <1>9, <1>10, <1>11, <1>12, <1>13,
           <1>14, <1>15, <1>16, <1>17, <1>18, <1>19, <1>20, <1>21, <1>22, <1>23
     DEF Next, vars, Continue, Queues, User, Request, Timers, Monitor, Restore

\* The plan on disk, the timer's and the plans made are within their bound.
LEMMA PlanNumberSteps ==
  ASSUME ProcTypes, PlanTypes, Next
  PROVE  (plan \in PlanOrNo /\ armed \in PlanOrNo /\ plans \in PlanOrNo /\ now \in 0..plans)'
<1> DEFINE Goal == (plan \in PlanOrNo /\ armed \in PlanOrNo /\ plans \in PlanOrNo /\ now \in 0..plans)'
<1>1. ASSUME NEW p \in Procs, Clear(p) PROVE Goal
  BY <1>1, ShutdownConstants DEF Clear, disk, time, PlanTypes, PlanOrNo
<1>2. ASSUME NEW p \in Procs, Null(p) PROVE Goal
  BY <1>2, ShutdownConstants DEF Null, Then, timers, time, PlanTypes, PlanOrNo
<1>3. ASSUME NEW p \in Procs, Write(p) PROVE Goal
  BY <1>3, ShutdownConstants DEF Write, timers, PlanTypes, PlanOrNo
<1>4. ASSUME NEW p \in Procs, Stop(p) PROVE Goal
  BY <1>4, ShutdownConstants DEF Stop, disk, time, PlanTypes, PlanOrNo
<1>5. ASSUME NEW p \in Procs, Start(p) PROVE Goal
  <2>1. job[p].plan \in PlanOrNo
    BY DEF ProcTypes, Job
  <2> QED BY <1>5, <2>1 DEF Start, disk, time, PlanTypes
<1>6. ASSUME NEW u \in Users, Arm(u) PROVE Goal
  BY <1>6, ShutdownConstants DEF Arm, timers, time, PlanTypes, PlanOrNo
<1>7. ASSUME NEW u \in Users, ForceErases(u) PROVE Goal
  BY <1>7, ShutdownConstants DEF ForceErases, timers, time, PlanTypes, PlanOrNo
<1>8. ASSUME NEW u \in Users, Disarm(u) PROVE Goal
  BY <1>8, ShutdownConstants DEF Disarm, timers, time, PlanTypes, PlanOrNo
<1>9. ASSUME NEW u \in Users, ForceTakes(u) PROVE Goal
  BY <1>9, ShutdownConstants DEF ForceTakes, disk, time, PlanTypes, PlanOrNo
<1>10. ASSUME NEW k \in Plans, Wake(k) PROVE Goal
  BY <1>10, ShutdownConstants DEF Wake, disk, time, PlanTypes, PlanOrNo
<1>11. ASSUME NEW k \in Plans, Erase(k) PROVE Goal
  BY <1>11, ShutdownConstants DEF Erase, time, PlanTypes, PlanOrNo
<1>12. ASSUME Forget PROVE Goal
  BY <1>12, ShutdownConstants DEF Forget, timers, time, PlanTypes, PlanOrNo
<1>13. ASSUME Unprime PROVE Goal
  BY <1>13, ShutdownConstants DEF Unprime, timers, time, PlanTypes, PlanOrNo
<1>14. ASSUME Tick PROVE Goal
  BY <1>14, ShutdownConstants DEF Tick, disk, timers, PlanTypes, PlanOrNo
<1>15. ASSUME Crash PROVE Goal
  BY <1>15, ShutdownConstants DEF Crash, disk, time, PlanTypes, PlanOrNo
<1>16. ASSUME UNCHANGED <<plan, armed, plans, now>> PROVE Goal
  BY <1>16, ShutdownConstants DEF PlanTypes, PlanOrNo
<1>17. ASSUME
       HandleStarted \/ HandleCompleted \/ Leave \/ Mark \/ Look \/ Judge \/ Reprime
      PROVE Goal
  BY <1>17, <1>16 DEF HandleStarted, disk, timers, time, HandleCompleted, Leave, Mark, Look,
                      Judge, Reprime
<1>18. ASSUME NEW p \in Procs,
       Cancel(p) \/ Prime(p) \/ Settings(p) \/ Work(p) \/ Turns(p) \/ Threads(p) \/ Ask(p)
       \/ Answered(p)
      PROVE Goal
  BY <1>18, <1>16 DEF Cancel, disk, timers, time, Prime, Settings, Work, Turns, Threads, Ask,
                      Answered
<1>19. ASSUME NEW s \in Sessions,
       Drain(s) \/ Probe(s) \/ Sent(s) \/ EndTurn(s)
      PROVE Goal
  BY <1>19, <1>16 DEF Drain, disk, timers, time, Probe, Sends, Sent, EndTurn
<1>20. ASSUME NEW u \in Users,
       Queueing(u) \/ ForceExecutes(u) \/ ArmLooks(u)
      PROVE Goal
  BY <1>20, <1>16 DEF Queueing, timers, time, ForceExecutes, disk, ArmLooks
<1>21. ASSUME NEW u \in Users, NEW s \in Sessions,
       UserSends(u, s) \/ Enqueue(u, s) \/ RemoveItem(u, s) \/ Resume(u, s)
      PROVE Goal
  BY <1>21, <1>16 DEF UserSends, Sends, disk, timers, time, Enqueue, RemoveItem, Resume
<1>22. ASSUME NEW k \in Plans,
       Execute(k)
      PROVE Goal
  BY <1>22, <1>16 DEF Execute, disk, time
<1>23. ASSUME NEW u \in Users, Survey(u) PROVE Goal
  BY <1>23, <1>16 DEF Survey, disk, timers, time
<1>24. ASSUME NEW p \in Users \cup Sessions, Drop(p) PROVE Goal
  BY <1>24, <1>16 DEF Drop, disk, time
<1> QED BY <1>1, <1>2, <1>3, <1>4, <1>5, <1>6, <1>7, <1>8, <1>9, <1>10, <1>11, <1>12, <1>13,
           <1>14, <1>15, <1>16, <1>17, <1>18, <1>19, <1>20, <1>21, <1>22, <1>23, <1>24
     DEF Next, vars, Continue, Queues, User, Request, Timers, Monitor, Restore

\* Queues, turns, notes and locks are of sessions.
LEMMA WorkSteps ==
  ASSUME ProcTypes, WorkTypes, GoalInv, Next
  PROVE  WorkTypes'
<1>1. ASSUME NEW p \in Procs, Ask(p) PROVE WorkTypes'
  <2>1. job[p].on \in Sessions
    BY <1>1, Names DEF Ask, GoalInv, GoalOf, Aimed
  <2>2. \A n \in Seq(Notes) : Append(n, <<"started", job[p].on>>) \in Seq(Notes)
    BY <2>1 DEF Notes
  <2> QED BY <1>1, <2>1, <2>2 DEF Ask, disk, WorkTypes
<1>2. ASSUME NEW p \in Procs, Answered(p) PROVE WorkTypes'
  <2>1. job[p].on \in Sessions
    BY <1>2, Names DEF Answered, GoalInv, GoalOf, Aimed
  <2> QED BY <1>2, <2>1 DEF Answered, disk, WorkTypes
<1>3. ASSUME NEW s \in Sessions, Drain(s) PROVE WorkTypes'
  BY <1>3, Names DEF Drain, disk, work, WorkTypes
<1>4. ASSUME NEW s \in Sessions, Probe(s) PROVE WorkTypes'
  BY <1>4, Names DEF Probe, Sends, disk, WorkTypes
<1>5. ASSUME NEW s \in Sessions, Sent(s) PROVE WorkTypes'
  BY <1>5, Names DEF Sent, work, WorkTypes
<1>6. ASSUME NEW s \in Sessions, EndTurn(s) PROVE WorkTypes'
  <2>1. \A n \in Seq(Notes) : Append(n, <<"completed", s>>) \in Seq(Notes)
    BY DEF Notes
  <2> QED BY <1>6, <2>1 DEF EndTurn, disk, WorkTypes
<1>7. ASSUME NEW u \in Users, Queueing(u) PROVE WorkTypes'
  <2>1. job[u].on \in Sessions
    BY <1>7, Names DEF Queueing, GoalInv, GoalOf, Aimed
  <2> QED BY <1>7, <2>1 DEF Queueing, work, WorkTypes
<1>8. ASSUME NEW u \in Users, NEW s \in Sessions, UserSends(u, s) PROVE WorkTypes'
  BY <1>8, Names DEF UserSends, Sends, disk, WorkTypes
<1>9. ASSUME NEW u \in Users, NEW s \in Sessions, RemoveItem(u, s) PROVE WorkTypes'
  BY <1>9, Names DEF RemoveItem, work, WorkTypes
<1>10. ASSUME NEW u \in Users, NEW s \in Sessions, Resume(u, s) PROVE WorkTypes'
  BY <1>10, Names DEF Resume, work, WorkTypes
<1>11. ASSUME HandleStarted PROVE WorkTypes'
  <2>1. notes # <<>> /\ notes \in Seq(Notes)
    BY <1>11 DEF HandleStarted, WorkTypes
  <2>2. Head(notes)[2] \in Sessions /\ Tail(notes) \in Seq(Notes)
    BY <2>1, HeadTailProperties DEF Notes
  <2> QED BY <1>11, <2>2, Names DEF HandleStarted, disk, WorkTypes
<1>12. ASSUME HandleCompleted PROVE WorkTypes'
  <2>1. notes # <<>> /\ notes \in Seq(Notes)
    BY <1>12 DEF HandleCompleted, WorkTypes
  <2>2. Head(notes)[2] \in Sessions /\ Tail(notes) \in Seq(Notes)
    BY <2>1, HeadTailProperties DEF Notes
  <2> QED BY <1>12, <2>2, Names DEF HandleCompleted, disk, WorkTypes
<1>13. ASSUME Leave PROVE WorkTypes'
  <2>1. job["monitor"].goal = "completed" => job["monitor"].on \in Sessions
    BY Names DEF GoalInv, GoalOf, Aimed
  <2> QED BY <1>13, <2>1 DEF Leave, disk, work, WorkTypes
<1>14. ASSUME Mark PROVE WorkTypes'
  BY <1>14, Names DEF Mark, work, WorkTypes
<1>15. ASSUME Crash PROVE WorkTypes'
  BY <1>15, Names DEF Crash, disk, WorkTypes
<1>16. ASSUME UNCHANGED <<queued, paused, wake, running, active, notes, lock>> PROVE WorkTypes'
  BY <1>16, Names DEF WorkTypes
<1>17. ASSUME
       Look \/ Forget \/ Judge \/ Reprime \/ Unprime \/ Tick
      PROVE WorkTypes'
  BY <1>17, <1>16 DEF Look, disk, work, Forget, Judge, Reprime, Unprime, Tick
<1>18. ASSUME NEW p \in Procs,
       Cancel(p) \/ Prime(p) \/ Clear(p) \/ Null(p) \/ Settings(p) \/ Work(p) \/ Turns(p)
       \/ Threads(p) \/ Write(p) \/ Stop(p) \/ Start(p)
      PROVE WorkTypes'
  BY <1>18, <1>16 DEF Cancel, disk, work, Prime, Clear, Null, Settings, Work, Turns, Threads,
                      Write, Stop, Start
<1>19. ASSUME NEW u \in Users,
       Arm(u) \/ ForceErases(u) \/ ForceExecutes(u) \/ ArmLooks(u) \/ Disarm(u) \/
       ForceTakes(u)
      PROVE WorkTypes'
  BY <1>19, <1>16 DEF Arm, work, ForceErases, ForceExecutes, disk, ArmLooks, Disarm,
                      ForceTakes
<1>20. ASSUME NEW u \in Users, NEW s \in Sessions,
       Enqueue(u, s)
      PROVE WorkTypes'
  BY <1>20, <1>16 DEF Enqueue, disk, work
<1>21. ASSUME NEW k \in Plans,
       Wake(k) \/ Erase(k) \/ Execute(k)
      PROVE WorkTypes'
  BY <1>21, <1>16 DEF Wake, disk, work, Erase, Execute
<1>22. ASSUME NEW u \in Users, Survey(u) PROVE WorkTypes'
  BY <1>22, <1>16 DEF Survey, disk, work
<1>23. ASSUME NEW p \in Users \cup Sessions, Drop(p) PROVE WorkTypes'
  <2>1. lock' \in [Sessions -> Procs \cup {None}]
    BY <1>23 DEF Drop, WorkTypes
  <2> QED BY <1>23, <2>1, Names DEF Drop, disk, work, WorkTypes
<1> QED BY <1>1, <1>2, <1>3, <1>4, <1>5, <1>6, <1>7, <1>8, <1>9, <1>10, <1>11, <1>12, <1>13,
           <1>14, <1>15, <1>16, <1>17, <1>18, <1>19, <1>20, <1>21, <1>22, <1>23
     DEF Next, vars, Continue, Queues, User, Request, Timers, Monitor, Restore

\* What users do and what fails is within its bound.
LEMMA BoundSteps ==
  ASSUME Bounds, Next
  PROVE  Bounds'
<1>1. ASSUME NEW p \in Procs, Settings(p) PROVE Bounds'
  BY <1>1, ShutdownConstants DEF Settings, Fault, Bounds
<1>2. ASSUME NEW p \in Procs, Threads(p) PROVE Bounds'
  BY <1>2, ShutdownConstants DEF Threads, Fault, Bounds
<1>3. ASSUME NEW p \in Procs, Ask(p) PROVE Bounds'
  BY <1>3, ShutdownConstants DEF Ask, Fault, Bounds
<1>4. ASSUME NEW u \in Users, ForceExecutes(u) PROVE Bounds'
  BY <1>4, ShutdownConstants DEF ForceExecutes, Fault, Bounds
<1>5. ASSUME NEW u \in Users, ArmLooks(u) PROVE Bounds'
  BY <1>5, ShutdownConstants DEF ArmLooks, Asks, Bounds
<1>6. ASSUME NEW u \in Users, Disarm(u) PROVE Bounds'
  BY <1>6, ShutdownConstants DEF Disarm, Asks, Bounds
<1>7. ASSUME NEW u \in Users, ForceTakes(u) PROVE Bounds'
  BY <1>7, ShutdownConstants DEF ForceTakes, Asks, Bounds
<1>8. ASSUME NEW u \in Users, NEW s \in Sessions, UserSends(u, s) PROVE Bounds'
  BY <1>8, ShutdownConstants DEF UserSends, Sends, Asks, Bounds
<1>9. ASSUME NEW u \in Users, NEW s \in Sessions, Enqueue(u, s) PROVE Bounds'
  BY <1>9, ShutdownConstants DEF Enqueue, Asks, Bounds
<1>10. ASSUME NEW u \in Users, NEW s \in Sessions, RemoveItem(u, s) PROVE Bounds'
  BY <1>10, ShutdownConstants DEF RemoveItem, Asks, Bounds
<1>11. ASSUME NEW u \in Users, NEW s \in Sessions, Resume(u, s) PROVE Bounds'
  BY <1>11, ShutdownConstants DEF Resume, Asks, Fault, Bounds
<1>12. ASSUME NEW k \in Plans, Execute(k) PROVE Bounds'
  BY <1>12, ShutdownConstants DEF Execute, Fault, Bounds
<1>13. ASSUME Look PROVE Bounds'
  BY <1>13, ShutdownConstants DEF Look, Fault, Bounds
<1>14. ASSUME Crash PROVE Bounds'
  BY <1>14, ShutdownConstants DEF Crash, Fault, Bounds
<1>15. ASSUME UNCHANGED <<ops, faults>> PROVE Bounds'
  BY <1>15, ShutdownConstants DEF Bounds
<1>16. ASSUME
       HandleStarted \/ HandleCompleted \/ Leave \/ Mark \/ Forget \/ Judge \/ Reprime \/
       Unprime \/ Tick
      PROVE Bounds'
  BY <1>16, <1>15 DEF HandleStarted, HandleCompleted, Leave, Mark, Forget, Judge, Reprime,
                      Unprime, Tick
<1>17. ASSUME NEW p \in Procs,
       Cancel(p) \/ Prime(p) \/ Clear(p) \/ Null(p) \/ Work(p) \/ Turns(p) \/ Stop(p) \/
       Start(p) \/ Answered(p)
      PROVE Bounds'
  BY <1>17, <1>15 DEF Cancel, Prime, Clear, Null, Work, Turns, Stop, Start, Answered
<1>18. ASSUME NEW s \in Sessions,
       Probe(s) \/ Sent(s) \/ EndTurn(s)
      PROVE Bounds'
  BY <1>18, <1>15 DEF Probe, Sends, Sent, EndTurn
<1>19. ASSUME NEW u \in Users,
       Arm(u) \/ ForceErases(u)
      PROVE Bounds'
  BY <1>19, <1>15 DEF Arm, ForceErases
<1>20. ASSUME NEW k \in Plans,
       Wake(k) \/ Erase(k)
      PROVE Bounds'
  BY <1>20, <1>15 DEF Wake, Erase
<1>21. ASSUME NEW u \in Users, Survey(u) PROVE Bounds'
  BY <1>21, <1>15, ShutdownConstants DEF Survey, Fault, Bounds
<1>22. ASSUME NEW p \in Users \cup Sessions, Drop(p) PROVE Bounds'
  BY <1>22, ShutdownConstants DEF Drop, Fault, Bounds
<1>23. ASSUME NEW p \in Procs, Write(p) PROVE Bounds'
  <2>1. UNCHANGED faults \/ Fault("write")
    BY <1>23, Zenon DEF Write
  <2>2. ops' = ops
    BY <1>23 DEF Write
  <2> QED BY <2>1, <2>2, ShutdownConstants DEF Fault, Bounds
<1>24. ASSUME NEW s \in Sessions, Drain(s) PROVE Bounds'
  BY <1>24, ShutdownConstants DEF Drain, Fault, Bounds
<1>25. ASSUME NEW u \in Users, Queueing(u) PROVE Bounds'
  BY <1>25, ShutdownConstants DEF Queueing, Fault, Bounds
<1> QED BY <1>1, <1>2, <1>3, <1>4, <1>5, <1>6, <1>7, <1>8, <1>9, <1>10, <1>11, <1>12, <1>13,
           <1>14, <1>15, <1>16, <1>17, <1>18, <1>19, <1>20, <1>21, <1>22, <1>23, <1>24, <1>25
     DEF Next, vars, Continue, Queues, User, Request, Timers, Monitor, Restore

\* The settings stay settings.
LEMMA AfterSteps ==
  ASSUME ProcTypes, Flags, Next
  PROVE  after' \in BOOLEAN
<1>1. ASSUME NEW u \in Users, Arm(u) PROVE after' \in BOOLEAN
  BY <1>1, Zenon DEF Arm
<1>2. ASSUME NEW u \in Users, Disarm(u) PROVE after' \in BOOLEAN
  BY <1>2, Zenon DEF Disarm
<1>3. ASSUME Forget PROVE after' \in BOOLEAN
  BY <1>3, Zenon DEF Forget
<1>4. ASSUME UNCHANGED after PROVE after' \in BOOLEAN
  BY <1>4 DEF Flags
<1>5. ASSUME
       HandleStarted \/ HandleCompleted \/ Leave \/ Mark \/ Look \/ Judge \/ Reprime \/
       Unprime \/ Tick \/ Crash
      PROVE after' \in BOOLEAN
  BY <1>5, <1>4 DEF HandleStarted, disk, HandleCompleted, Leave, Mark, Look, Judge, Reprime,
                    Unprime, Tick, Crash
<1>6. ASSUME NEW p \in Procs,
       Cancel(p) \/ Prime(p) \/ Clear(p) \/ Null(p) \/ Settings(p) \/ Work(p) \/ Turns(p)
       \/ Threads(p) \/ Write(p) \/ Stop(p) \/ Start(p) \/ Ask(p) \/ Answered(p)
      PROVE after' \in BOOLEAN
  BY <1>6, <1>4 DEF Cancel, disk, Prime, Clear, Null, Settings, Work, Turns, Threads, Write,
                    Stop, Start, Ask, Answered
<1>7. ASSUME NEW s \in Sessions,
       Drain(s) \/ Probe(s) \/ Sent(s) \/ EndTurn(s)
      PROVE after' \in BOOLEAN
  BY <1>7, <1>4 DEF Drain, disk, Probe, Sends, Sent, EndTurn
<1>8. ASSUME NEW u \in Users,
       Queueing(u) \/ ForceErases(u) \/ ForceExecutes(u) \/ ArmLooks(u) \/ ForceTakes(u)
      PROVE after' \in BOOLEAN
  BY <1>8, <1>4 DEF Queueing, ForceErases, ForceExecutes, disk, ArmLooks, ForceTakes
<1>9. ASSUME NEW u \in Users, NEW s \in Sessions,
       UserSends(u, s) \/ Enqueue(u, s) \/ RemoveItem(u, s) \/ Resume(u, s)
      PROVE after' \in BOOLEAN
  BY <1>9, <1>4 DEF UserSends, Sends, disk, Enqueue, RemoveItem, Resume
<1>10. ASSUME NEW k \in Plans,
       Wake(k) \/ Erase(k) \/ Execute(k)
      PROVE after' \in BOOLEAN
  BY <1>10, <1>4 DEF Wake, disk, Erase, Execute
<1>11. ASSUME NEW u \in Users, Survey(u) PROVE after' \in BOOLEAN
  BY <1>11, <1>4 DEF Survey, disk
<1>12. ASSUME NEW p \in Users \cup Sessions, Drop(p) PROVE after' \in BOOLEAN
  BY <1>12, <1>4 DEF Drop, disk
<1> QED BY <1>1, <1>2, <1>3, <1>4, <1>5, <1>6, <1>7, <1>8, <1>9, <1>10, <1>11, <1>12
     DEF Next, vars, Continue, Queues, User, Request, Timers, Monitor, Restore

\* So does what restores them.
LEMMA PrimedSteps ==
  ASSUME ProcTypes, Flags, Next
  PROVE  primed' \in BOOLEAN
<1>1. ASSUME NEW p \in Procs, Prime(p) PROVE primed' \in BOOLEAN
  BY <1>1, Zenon DEF Prime
<1>2. ASSUME NEW u \in Users, Arm(u) PROVE primed' \in BOOLEAN
  <2>1. job[u].seen \in BOOLEAN
    BY Names DEF ProcTypes, Job
  <2> QED BY <1>2, <2>1, Zenon DEF Arm
<1>3. ASSUME NEW u \in Users, Disarm(u) PROVE primed' \in BOOLEAN
  BY <1>3, Zenon DEF Disarm
<1>4. ASSUME Forget PROVE primed' \in BOOLEAN
  BY <1>4, Zenon DEF Forget
<1>5. ASSUME Reprime PROVE primed' \in BOOLEAN
  BY <1>5, Zenon DEF Reprime
<1>6. ASSUME Unprime PROVE primed' \in BOOLEAN
  BY <1>6, Zenon DEF Unprime
<1>7. ASSUME UNCHANGED primed PROVE primed' \in BOOLEAN
  BY <1>7 DEF Flags
<1>8. ASSUME
       HandleStarted \/ HandleCompleted \/ Leave \/ Mark \/ Look \/ Judge \/ Tick \/ Crash
      PROVE primed' \in BOOLEAN
  BY <1>8, <1>7 DEF HandleStarted, disk, HandleCompleted, Leave, Mark, Look, Judge, Tick,
                    Crash
<1>9. ASSUME NEW p \in Procs,
       Cancel(p) \/ Clear(p) \/ Null(p) \/ Settings(p) \/ Work(p) \/ Turns(p) \/ Threads(p)
       \/ Write(p) \/ Stop(p) \/ Start(p) \/ Ask(p) \/ Answered(p)
      PROVE primed' \in BOOLEAN
  BY <1>9, <1>7 DEF Cancel, disk, Clear, Null, Settings, Work, Turns, Threads, Write, Stop,
                    Start, Ask, Answered
<1>10. ASSUME NEW s \in Sessions,
       Drain(s) \/ Probe(s) \/ Sent(s) \/ EndTurn(s)
      PROVE primed' \in BOOLEAN
  BY <1>10, <1>7 DEF Drain, disk, Probe, Sends, Sent, EndTurn
<1>11. ASSUME NEW u \in Users,
       Queueing(u) \/ ForceErases(u) \/ ForceExecutes(u) \/ ArmLooks(u) \/ ForceTakes(u)
      PROVE primed' \in BOOLEAN
  BY <1>11, <1>7 DEF Queueing, ForceErases, ForceExecutes, disk, ArmLooks, ForceTakes
<1>12. ASSUME NEW u \in Users, NEW s \in Sessions,
       UserSends(u, s) \/ Enqueue(u, s) \/ RemoveItem(u, s) \/ Resume(u, s)
      PROVE primed' \in BOOLEAN
  BY <1>12, <1>7 DEF UserSends, Sends, disk, Enqueue, RemoveItem, Resume
<1>13. ASSUME NEW k \in Plans,
       Wake(k) \/ Erase(k) \/ Execute(k)
      PROVE primed' \in BOOLEAN
  BY <1>13, <1>7 DEF Wake, disk, Erase, Execute
<1>14. ASSUME NEW u \in Users, Survey(u) PROVE primed' \in BOOLEAN
  BY <1>14, <1>7 DEF Survey, disk
<1>15. ASSUME NEW p \in Users \cup Sessions, Drop(p) PROVE primed' \in BOOLEAN
  BY <1>15, <1>7 DEF Drop, disk
<1> QED BY <1>1, <1>2, <1>3, <1>4, <1>5, <1>6, <1>7, <1>8, <1>9, <1>10, <1>11, <1>12, <1>13, <1>14, <1>15
     DEF Next, vars, Continue, Queues, User, Request, Timers, Monitor, Restore

\* So does the end of the machine.
LEMMA ShutSteps ==
  ASSUME ProcTypes, Flags, Next
  PROVE  shut' \in BOOLEAN
<1>1. ASSUME NEW u \in Users, ForceExecutes(u) PROVE shut' \in BOOLEAN
  <2>1. shut' = TRUE \/ shut' = shut
    BY <1>1, Zenon DEF ForceExecutes
  <2> QED BY <2>1, Zenon DEF Flags
<1>2. ASSUME NEW k \in Plans, Execute(k) PROVE shut' \in BOOLEAN
  <2>1. shut' = TRUE \/ shut' = shut
    BY <1>2, Zenon DEF Execute
  <2> QED BY <2>1, Zenon DEF Flags
<1>3. ASSUME UNCHANGED shut PROVE shut' \in BOOLEAN
  BY <1>3 DEF Flags
<1>4. ASSUME
       HandleStarted \/ HandleCompleted \/ Leave \/ Mark \/ Look \/ Forget \/ Judge \/
       Reprime \/ Unprime \/ Tick \/ Crash
      PROVE shut' \in BOOLEAN
  BY <1>4, <1>3 DEF HandleStarted, HandleCompleted, Leave, Mark, Look, Forget, Judge,
                    Reprime, Unprime, Tick, Crash
<1>5. ASSUME NEW p \in Procs,
       Cancel(p) \/ Prime(p) \/ Clear(p) \/ Null(p) \/ Settings(p) \/ Work(p) \/ Turns(p)
       \/ Threads(p) \/ Write(p) \/ Stop(p) \/ Start(p) \/ Ask(p) \/ Answered(p)
      PROVE shut' \in BOOLEAN
  BY <1>5, <1>3 DEF Cancel, Prime, Clear, Null, Settings, Work, Turns, Threads, Write, Stop,
                    Start, Ask, Answered
<1>6. ASSUME NEW s \in Sessions,
       Drain(s) \/ Probe(s) \/ Sent(s) \/ EndTurn(s)
      PROVE shut' \in BOOLEAN
  BY <1>6, <1>3 DEF Drain, Probe, Sends, Sent, EndTurn
<1>7. ASSUME NEW u \in Users,
       Queueing(u) \/ Arm(u) \/ ForceErases(u) \/ ArmLooks(u) \/ Disarm(u) \/ ForceTakes(u)
      PROVE shut' \in BOOLEAN
  BY <1>7, <1>3 DEF Queueing, Arm, ForceErases, ArmLooks, Disarm, ForceTakes
<1>8. ASSUME NEW u \in Users, NEW s \in Sessions,
       UserSends(u, s) \/ Enqueue(u, s) \/ RemoveItem(u, s) \/ Resume(u, s)
      PROVE shut' \in BOOLEAN
  BY <1>8, <1>3 DEF UserSends, Sends, Enqueue, RemoveItem, Resume
<1>9. ASSUME NEW k \in Plans,
       Wake(k) \/ Erase(k)
      PROVE shut' \in BOOLEAN
  BY <1>9, <1>3 DEF Wake, Erase
<1>10. ASSUME NEW u \in Users, Survey(u) PROVE shut' \in BOOLEAN
  BY <1>10, <1>3 DEF Survey
<1>11. ASSUME NEW p \in Users \cup Sessions, Drop(p) PROVE shut' \in BOOLEAN
  BY <1>11, <1>3 DEF Drop
<1> QED BY <1>1, <1>2, <1>3, <1>4, <1>5, <1>6, <1>7, <1>8, <1>9, <1>10, <1>11
     DEF Next, vars, Continue, Queues, User, Request, Timers, Monitor, Restore

\* So does the history.
LEMMA StalledSteps ==
  ASSUME ProcTypes, Flags, Next
  PROVE  stalled' \in BOOLEAN
<1>1. ASSUME NEW p \in Procs, Settings(p) PROVE stalled' \in BOOLEAN
  <2>1. stalled' = TRUE \/ stalled' = stalled
    BY <1>1, Zenon DEF Settings
  <2> QED BY <2>1, Zenon DEF Flags
<1>2. ASSUME NEW p \in Procs, Threads(p) PROVE stalled' \in BOOLEAN
  BY <1>2, Zenon DEF Threads
<1>3. ASSUME NEW p \in Procs, Write(p) PROVE stalled' \in BOOLEAN
  <2>1. stalled' = TRUE \/ stalled' = stalled
    BY <1>3, Zenon DEF Write
  <2> QED BY <2>1, Zenon DEF Flags
<1>4. ASSUME NEW p \in Procs, Ask(p) PROVE stalled' \in BOOLEAN
  <2>1. stalled' = TRUE \/ stalled' = stalled
    BY <1>4, Zenon DEF Ask
  <2> QED BY <2>1, Zenon DEF Flags
<1>5. ASSUME NEW u \in Users, Arm(u) PROVE stalled' \in BOOLEAN
  BY <1>5, Zenon DEF Arm
<1>6. ASSUME NEW u \in Users, ForceExecutes(u) PROVE stalled' \in BOOLEAN
  <2>1. stalled' = TRUE \/ stalled' = stalled
    BY <1>6, Zenon DEF ForceExecutes
  <2> QED BY <2>1, Zenon DEF Flags
<1>7. ASSUME NEW k \in Plans, Execute(k) PROVE stalled' \in BOOLEAN
  <2>1. stalled' = TRUE \/ stalled' = stalled
    BY <1>7, Zenon DEF Execute
  <2> QED BY <2>1, Zenon DEF Flags
<1>8. ASSUME Crash PROVE stalled' \in BOOLEAN
  BY <1>8, Zenon DEF Crash
<1>9. ASSUME UNCHANGED stalled PROVE stalled' \in BOOLEAN
  BY <1>9 DEF Flags
<1>10. ASSUME
       HandleStarted \/ HandleCompleted \/ Leave \/ Mark \/ Look \/ Forget \/ Judge \/
       Reprime \/ Unprime \/ Tick
      PROVE stalled' \in BOOLEAN
  BY <1>10, <1>9 DEF HandleStarted, HandleCompleted, Leave, Mark, Look, Forget, Judge,
                     Reprime, Unprime, Tick
<1>11. ASSUME NEW p \in Procs,
       Cancel(p) \/ Prime(p) \/ Clear(p) \/ Null(p) \/ Work(p) \/ Turns(p) \/ Stop(p) \/
       Start(p) \/ Answered(p)
      PROVE stalled' \in BOOLEAN
  BY <1>11, <1>9 DEF Cancel, Prime, Clear, Null, Work, Turns, Stop, Start, Answered
<1>12. ASSUME NEW s \in Sessions,
       Drain(s) \/ Probe(s) \/ Sent(s) \/ EndTurn(s)
      PROVE stalled' \in BOOLEAN
  BY <1>12, <1>9 DEF Drain, Probe, Sends, Sent, EndTurn
<1>13. ASSUME NEW u \in Users,
       Queueing(u) \/ ForceErases(u) \/ ArmLooks(u) \/ Disarm(u) \/ ForceTakes(u)
      PROVE stalled' \in BOOLEAN
  BY <1>13, <1>9 DEF Queueing, ForceErases, ArmLooks, Disarm, ForceTakes
<1>14. ASSUME NEW u \in Users, NEW s \in Sessions,
       UserSends(u, s) \/ Enqueue(u, s) \/ RemoveItem(u, s) \/ Resume(u, s)
      PROVE stalled' \in BOOLEAN
  BY <1>14, <1>9 DEF UserSends, Sends, Enqueue, RemoveItem, Resume
<1>15. ASSUME NEW k \in Plans,
       Wake(k) \/ Erase(k)
      PROVE stalled' \in BOOLEAN
  BY <1>15, <1>9 DEF Wake, Erase
<1>16. ASSUME NEW u \in Users, Survey(u) PROVE stalled' \in BOOLEAN
  BY <1>16, <1>9 DEF Survey
<1>17. ASSUME NEW p \in Users \cup Sessions, Drop(p) PROVE stalled' \in BOOLEAN
  BY <1>17, Zenon DEF Drop, Flags
<1> QED BY <1>1, <1>2, <1>3, <1>4, <1>5, <1>6, <1>7, <1>8, <1>9, <1>10, <1>11, <1>12, <1>13,
           <1>14, <1>15, <1>16, <1>17
     DEF Next, vars, Continue, Queues, User, Request, Timers, Monitor, Restore

\* The types are inductive, with what a process is about.
LEMMA BaseSteps ==
  ASSUME Base, [Next]_vars PROVE Base'
<1>1. ASSUME Next PROVE Base'
  <2>1. GoalInv'
    BY <1>1, GoalOfStep DEF GoalInv, Base, Procs
  <2>2. PlanTypes'
    BY <1>1, PlanSetSteps, PlanNumberSteps DEF PlanTypes, Base
  <2>3. Flags'
    BY <1>1, AfterSteps, PrimedSteps, ShutSteps, StalledSteps DEF Flags, Base
  <2> QED BY <1>1, <2>1, <2>2, <2>3, PcSteps, JobSteps, WorkSteps, BoundSteps DEF Base, ProcTypes
<1>2. ASSUME UNCHANGED vars PROVE Base'
  <2>1. ProcTypes' /\ GoalInv'
    BY <1>2 DEF Base, ProcTypes, GoalInv, GoalOf, vars
  <2>2. PlanTypes' /\ WorkTypes' /\ Bounds'
    BY <1>2 DEF Base, PlanTypes, WorkTypes, Bounds, vars, disk, work, timers, time
  <2>3. Flags'
    BY <1>2 DEF Base, Flags, vars, disk
  <2> QED BY <2>1, <2>2, <2>3 DEF Base
<1> QED BY <1>1, <1>2

\* They hold at the start.
LEMMA BaseInit == Init => Base
<1> SUFFICES ASSUME Init PROVE Base
  OBVIOUS
<1>1. ProcTypes
  BY NewJobs, StepNames DEF Init, ProcTypes
<1>2. PlanTypes
  BY ShutdownConstants DEF Init, PlanTypes, PlanOrNo
<1>3. WorkTypes
  BY DEF Init, WorkTypes
<1>4. Flags
  BY DEF Init, Flags
<1>5. Bounds
  BY ShutdownConstants DEF Init, Bounds
<1>6. GoalInv
  BY DEF Init, GoalInv, GoalOf, NoJob, Aimed, Making
<1> QED BY <1>1, <1>2, <1>3, <1>4, <1>5, <1>6 DEF Base

\* They hold always.
LEMMA BaseHolds == Spec => []Base
  BY BaseInit, BaseSteps, PTL DEF Spec

\* Every variable has its type (ShutdownSchedule's processes, timers and plans).
THEOREM TypeCorrectness == Spec => []TypeOK
<1>1. Base => TypeOK
  <2>1. ASSUME Base PROVE job \in [Procs -> [goal : Goals, on : Sessions \cup {None}, plan : PlanOrNo,
                                         seen : BOOLEAN, over : BOOLEAN, wish : Wishes]]
    BY <2>1, Zenon DEF Base, ProcTypes, Job
  <2> QED BY <2>1 DEF Base, ProcTypes, PlanTypes, WorkTypes, Flags, Bounds, TypeOK
<1> QED BY <1>1, BaseHolds, PTL

----------------------------------------------------------------------------
(* What a step changes.                                                    *)

\* A note that is appended is added to the notes.
LEMMA RangeAppend ==
  ASSUME NEW S, NEW s \in Seq(S), NEW e
  PROVE  Range(s) \cup {e} \subseteq Range(Append(s, e))
<1>1. /\ Len(Append(s, e)) = Len(s) + 1 /\ DOMAIN Append(s, e) = 1..(Len(s) + 1)
      /\ \A k \in 1..Len(s) : Append(s, e)[k] = s[k]
      /\ Append(s, e)[Len(s) + 1] = e
  OBVIOUS
<1>2. \A k \in DOMAIN s : k \in 1..Len(s) /\ k \in DOMAIN Append(s, e)
  BY <1>1
<1>3. Len(s) + 1 \in DOMAIN Append(s, e)
  BY <1>1
<1> QED BY <1>1, <1>2, <1>3 DEF Range

\* A note that is taken was the first.
LEMMA RangeTail ==
  ASSUME NEW S, NEW s \in Seq(S), s # <<>>
  PROVE  Range(s) \subseteq {Head(s)} \cup Range(Tail(s))
<1> DEFINE t == Tail(s)
<1>1. /\ DOMAIN t = 1..(Len(s) - 1) /\ DOMAIN s = 1..Len(s) /\ Len(s) \in Nat \ {0}
      /\ \A k \in 1..(Len(s) - 1) : t[k] = s[k + 1]
      /\ Head(s) = s[1]
  OBVIOUS
<1> HIDE DEF t
<1>2. ASSUME NEW k \in DOMAIN s PROVE s[k] = Head(s) \/ s[k] \in Range(t)
  <2>1. CASE k = 1
    BY <1>1, <2>1
  <2>2. CASE k # 1
    <3>1. k - 1 \in DOMAIN t /\ t[k - 1] = s[k]
      BY <1>1, <2>2
    <3> QED BY <3>1 DEF Range
  <2> QED BY <2>1, <2>2
<1> QED BY <1>2 DEF Range, t

Calm     == after /\ queued = {} /\ \A s \in running : Unheard(s)
Clearing == \E p \in Procs : pc[p] = "clear" /\ job[p].goal = "disarm"
Nulling  == \E p \in Procs : pc[p] = "null"

LooseLate == loose \subseteq late

\* A plan is erased, or written by a scheduler.
PlanChange ==
  \/ plan' = plan
  \/ plan' = 0 /\ Half \subseteq late' /\ (Timer \subseteq late' \/ Nulling \/ Clearing')
  \/ /\ plan' \in Plans
     /\ \E q \in Procs : pc[q] = "write" /\ (job[q].over => plan' \in late')

\* A timer is started by a process that comes from its plan.
ArmedChange ==
  \/ armed' \in {0, armed}
  \/ \E q \in Procs : pc[q] = "start" /\ armed' = job[q].plan /\ (Nulling => armed' \in late')

\* What no call-off reached is never reached.
LEMMA LateGrows ==
  ASSUME Next
  PROVE  late \subseteq late'
<1>1. ASSUME NEW p \in Procs, Cancel(p) PROVE late \subseteq late'
  BY <1>1 DEF Cancel
<1>2. ASSUME NEW p \in Procs, Null(p) PROVE late \subseteq late'
  BY <1>2 DEF Null
<1>3. ASSUME NEW p \in Procs, Write(p) PROVE late \subseteq late'
  BY <1>3 DEF Write
<1>4. ASSUME NEW p \in Procs, Start(p) PROVE late \subseteq late'
  BY <1>4 DEF Start
<1>5. ASSUME NEW u \in Users, Queueing(u) PROVE late \subseteq late'
  BY <1>5 DEF Queueing
<1>6. ASSUME NEW u \in Users, Arm(u) PROVE late \subseteq late'
  BY <1>6 DEF Arm
<1>7. ASSUME NEW u \in Users, ForceErases(u) PROVE late \subseteq late'
  BY <1>7 DEF ForceErases
<1>8. ASSUME NEW u \in Users, Disarm(u) PROVE late \subseteq late'
  BY <1>8 DEF Disarm
<1>9. ASSUME NEW u \in Users, ForceTakes(u) PROVE late \subseteq late'
  BY <1>9 DEF ForceTakes
<1>10. ASSUME NEW k \in Plans, Wake(k) PROVE late \subseteq late'
  BY <1>10 DEF Wake
<1>11. ASSUME NEW k \in Plans, Erase(k) PROVE late \subseteq late'
  BY <1>11 DEF Erase
<1>12. ASSUME Forget PROVE late \subseteq late'
  BY <1>12 DEF Forget
<1>13. ASSUME Unprime PROVE late \subseteq late'
  BY <1>13 DEF Unprime
<1>14. ASSUME Crash PROVE late \subseteq late'
  BY <1>14 DEF Crash
<1>15. ASSUME UNCHANGED late PROVE late \subseteq late'
  BY <1>15
<1>16. ASSUME
       HandleStarted \/ HandleCompleted \/ Leave \/ Mark \/ Look \/ Judge \/ Reprime \/
       Tick
      PROVE late \subseteq late'
  BY <1>16, <1>15 DEF HandleStarted, HandleCompleted, Leave, Mark, Look, Judge, Reprime, Tick
<1>17. ASSUME NEW p \in Procs,
       Prime(p) \/ Clear(p) \/ Settings(p) \/ Work(p) \/ Turns(p) \/ Threads(p) \/ Stop(p)
       \/ Ask(p) \/ Answered(p)
      PROVE late \subseteq late'
  BY <1>17, <1>15 DEF Prime, Clear, Settings, Work, Turns, Threads, Stop, Ask, Answered
<1>18. ASSUME NEW s \in Sessions,
       Drain(s) \/ Probe(s) \/ Sent(s) \/ EndTurn(s)
      PROVE late \subseteq late'
  BY <1>18, <1>15 DEF Drain, Probe, Sends, Sent, EndTurn
<1>19. ASSUME NEW u \in Users,
       ForceExecutes(u) \/ ArmLooks(u)
      PROVE late \subseteq late'
  BY <1>19, <1>15 DEF ForceExecutes, ArmLooks
<1>20. ASSUME NEW u \in Users, NEW s \in Sessions,
       UserSends(u, s) \/ Enqueue(u, s) \/ RemoveItem(u, s) \/ Resume(u, s)
      PROVE late \subseteq late'
  BY <1>20, <1>15 DEF UserSends, Sends, Enqueue, RemoveItem, Resume
<1>21. ASSUME NEW k \in Plans,
       Execute(k)
      PROVE late \subseteq late'
  BY <1>21, <1>15 DEF Execute
<1>22. ASSUME NEW u \in Users, Survey(u) PROVE late \subseteq late'
  BY <1>22, <1>15 DEF Survey
<1>23. ASSUME NEW p \in Users \cup Sessions, Drop(p) PROVE late \subseteq late'
  BY <1>23 DEF Drop
<1> QED BY <1>1, <1>2, <1>3, <1>4, <1>5, <1>6, <1>7, <1>8, <1>9, <1>10, <1>11, <1>12, <1>13,
           <1>14, <1>15, <1>16, <1>17, <1>18, <1>19, <1>20, <1>21, <1>22, <1>23
     DEF Next, vars, Continue, Queues, User, Request, Timers, Monitor, Restore

\* A timer whose handle was dropped is not called off.
LEMMA LooseSteps ==
  ASSUME LooseLate, Next
  PROVE  LooseLate'
<1>1. ASSUME NEW p \in Procs, Cancel(p) PROVE LooseLate'
  BY <1>1 DEF Cancel, timers, LooseLate
<1>2. ASSUME NEW p \in Procs, Null(p) PROVE LooseLate'
  BY <1>2 DEF Null, timers, LooseLate
<1>3. ASSUME NEW p \in Procs, Write(p) PROVE LooseLate'
  BY <1>3 DEF Write, timers, LooseLate
<1>4. ASSUME NEW p \in Procs, Start(p) PROVE LooseLate'
  BY <1>4 DEF Start, LooseLate
<1>5. ASSUME NEW u \in Users, Queueing(u) PROVE LooseLate'
  BY <1>5 DEF Queueing, timers, LooseLate
<1>6. ASSUME NEW u \in Users, Arm(u) PROVE LooseLate'
  BY <1>6 DEF Arm, timers, LooseLate
<1>7. ASSUME NEW u \in Users, ForceErases(u) PROVE LooseLate'
  BY <1>7 DEF ForceErases, timers, LooseLate
<1>8. ASSUME NEW u \in Users, Disarm(u) PROVE LooseLate'
  BY <1>8 DEF Disarm, timers, LooseLate
<1>9. ASSUME NEW u \in Users, ForceTakes(u) PROVE LooseLate'
  BY <1>9 DEF ForceTakes, LooseLate
<1>10. ASSUME NEW k \in Plans, Wake(k) PROVE LooseLate'
  BY <1>10 DEF Wake, LooseLate
<1>11. ASSUME NEW k \in Plans, Erase(k) PROVE LooseLate'
  BY <1>11 DEF Erase, LooseLate
<1>12. ASSUME Forget PROVE LooseLate'
  BY <1>12 DEF Forget, timers, LooseLate
<1>13. ASSUME Unprime PROVE LooseLate'
  BY <1>13 DEF Unprime, timers, LooseLate
<1>14. ASSUME Crash PROVE LooseLate'
  BY <1>14 DEF Crash, LooseLate
<1>15. ASSUME UNCHANGED <<loose, late>> PROVE LooseLate'
  BY <1>15 DEF LooseLate
<1>16. ASSUME
       HandleStarted \/ HandleCompleted \/ Leave \/ Mark \/ Look \/ Judge \/ Reprime \/
       Tick
      PROVE LooseLate'
  BY <1>16, <1>15 DEF HandleStarted, timers, HandleCompleted, Leave, Mark, Look, Judge,
                      Reprime, Tick
<1>17. ASSUME NEW p \in Procs,
       Prime(p) \/ Clear(p) \/ Settings(p) \/ Work(p) \/ Turns(p) \/ Threads(p) \/ Stop(p)
       \/ Ask(p) \/ Answered(p)
      PROVE LooseLate'
  BY <1>17, <1>15 DEF Prime, timers, Clear, Settings, Work, Turns, Threads, Stop, Ask,
                      Answered
<1>18. ASSUME NEW s \in Sessions,
       Drain(s) \/ Probe(s) \/ Sent(s) \/ EndTurn(s)
      PROVE LooseLate'
  BY <1>18, <1>15 DEF Drain, timers, Probe, Sends, Sent, EndTurn
<1>19. ASSUME NEW u \in Users,
       ForceExecutes(u) \/ ArmLooks(u)
      PROVE LooseLate'
  BY <1>19, <1>15 DEF ForceExecutes, timers, ArmLooks
<1>20. ASSUME NEW u \in Users, NEW s \in Sessions,
       UserSends(u, s) \/ Enqueue(u, s) \/ RemoveItem(u, s) \/ Resume(u, s)
      PROVE LooseLate'
  BY <1>20, <1>15 DEF UserSends, Sends, timers, Enqueue, RemoveItem, Resume
<1>21. ASSUME NEW k \in Plans,
       Execute(k)
      PROVE LooseLate'
  BY <1>21, <1>15 DEF Execute
<1>22. ASSUME NEW u \in Users, Survey(u) PROVE LooseLate'
  BY <1>22, <1>15 DEF Survey, timers
<1>23. ASSUME NEW p \in Users \cup Sessions, Drop(p) PROVE LooseLate'
  BY <1>23 DEF Drop, LooseLate
<1> QED BY <1>1, <1>2, <1>3, <1>4, <1>5, <1>6, <1>7, <1>8, <1>9, <1>10, <1>11, <1>12, <1>13,
           <1>14, <1>15, <1>16, <1>17, <1>18, <1>19, <1>20, <1>21, <1>22, <1>23
     DEF Next, vars, Continue, Queues, User, Request, Timers, Monitor, Restore

\* A timer that fires was dropped, fires during a call-off, or has its handle in
\* shutdown_timers.
LEMMA FiredSteps ==
  ASSUME PlanTypes, LooseLate, Next, NEW n \in Plans
  PROVE  firing'[n] # "no" => firing[n] # "no" \/ n \in late' \/ (armed = n /\ ~Calling)
<1> DEFINE Goal == firing'[n] # "no" => firing[n] # "no" \/ n \in late' \/ (armed = n /\ ~Calling)
<1>1. ASSUME NEW k \in Plans, Wake(k) PROVE Goal
  BY <1>1, LateGrows DEF Wake, LooseLate, PlanTypes
<1>2. ASSUME NEW k \in Plans, Erase(k) PROVE Goal
  BY <1>2, LateGrows DEF Erase, PlanTypes
<1>3. ASSUME NEW k \in Plans, Execute(k) PROVE Goal
  BY <1>3, LateGrows DEF Execute, PlanTypes
<1>4. ASSUME Crash PROVE Goal
  BY <1>4, LateGrows DEF Crash, PlanTypes
<1>5. ASSUME UNCHANGED firing PROVE Goal
  BY <1>5, LateGrows DEF PlanTypes
<1>6. ASSUME
       HandleStarted \/ HandleCompleted \/ Leave \/ Mark \/ Look \/ Forget \/ Judge \/
       Reprime \/ Unprime \/ Tick
      PROVE Goal
  BY <1>6, <1>5 DEF HandleStarted, timers, HandleCompleted, Leave, Mark, Look, Forget, Judge,
                    Reprime, Unprime, Tick
<1>7. ASSUME NEW p \in Procs,
       Cancel(p) \/ Prime(p) \/ Clear(p) \/ Null(p) \/ Settings(p) \/ Work(p) \/ Turns(p)
       \/ Threads(p) \/ Write(p) \/ Stop(p) \/ Start(p) \/ Ask(p) \/ Answered(p)
      PROVE Goal
  BY <1>7, <1>5 DEF Cancel, timers, Prime, Clear, Null, Settings, Work, Turns, Threads,
                    Write, Stop, Start, Ask, Answered
<1>8. ASSUME NEW s \in Sessions,
       Drain(s) \/ Probe(s) \/ Sent(s) \/ EndTurn(s)
      PROVE Goal
  BY <1>8, <1>5 DEF Drain, timers, Probe, Sends, Sent, EndTurn
<1>9. ASSUME NEW u \in Users,
       Queueing(u) \/ Arm(u) \/ ForceErases(u) \/ ForceExecutes(u) \/ ArmLooks(u) \/
       Disarm(u) \/ ForceTakes(u)
      PROVE Goal
  BY <1>9, <1>5 DEF Queueing, timers, Arm, ForceErases, ForceExecutes, ArmLooks, Disarm,
                    ForceTakes
<1>10. ASSUME NEW u \in Users, NEW s \in Sessions,
       UserSends(u, s) \/ Enqueue(u, s) \/ RemoveItem(u, s) \/ Resume(u, s)
      PROVE Goal
  BY <1>10, <1>5 DEF UserSends, Sends, timers, Enqueue, RemoveItem, Resume
<1>11. ASSUME NEW u \in Users, Survey(u) PROVE Goal
  BY <1>11, <1>5 DEF Survey, timers
<1>12. ASSUME NEW p \in Users \cup Sessions, Drop(p) PROVE Goal
  BY <1>12, <1>5 DEF Drop
<1> QED BY <1>1, <1>2, <1>3, <1>4, <1>5, <1>6, <1>7, <1>8, <1>9, <1>10, <1>11, <1>12
     DEF Next, vars, Continue, Queues, User, Request, Timers, Monitor, Restore

\* A plan comes and goes in no other way.
LEMMA PlanChanges ==
  ASSUME ProcTypes, PlanTypes, Next
  PROVE  PlanChange
<1>1. ASSUME NEW p \in Procs, Null(p) PROVE PlanChange
  BY <1>1, Names DEF Null, Nulling, PlanChange
<1>2. ASSUME NEW p \in Procs, Write(p) PROVE PlanChange
  <2>1. plans # MaxPlans => plans + 1 \in Plans
    BY ShutdownConstants DEF PlanTypes, PlanOrNo, Plans
  <2> QED BY <1>2, <2>1 DEF Write, PlanChange
<1>3. ASSUME NEW u \in Users, Arm(u) PROVE PlanChange
  BY <1>3, Names DEF Arm, PlanChange
<1>4. ASSUME NEW u \in Users, ForceErases(u) PROVE PlanChange
  BY <1>4, Names DEF ForceErases, PlanChange
<1>5. ASSUME NEW u \in Users, Disarm(u) PROVE PlanChange
  <2>1. pc'[u] = "clear" /\ job'[u].goal = "disarm" /\ u \in Procs
    BY <1>5, DisarmMoves, Names
  <2>2. Clearing'
    BY <2>1 DEF Clearing
  <2> QED BY <1>5, <2>2 DEF Disarm, PlanChange
<1>6. ASSUME NEW k \in Plans, Erase(k) PROVE PlanChange
  BY <1>6, Names DEF Erase, PlanChange
<1>7. ASSUME Forget PROVE PlanChange
  BY <1>7, Names DEF Forget, PlanChange
<1>8. ASSUME Unprime PROVE PlanChange
  BY <1>8, Names DEF Unprime, PlanChange
<1>9. ASSUME UNCHANGED plan PROVE PlanChange
  BY <1>9, Names DEF PlanChange
<1>10. ASSUME
       HandleStarted \/ HandleCompleted \/ Leave \/ Mark \/ Look \/ Judge \/ Reprime \/
       Tick \/ Crash
      PROVE PlanChange
  BY <1>10, <1>9 DEF HandleStarted, disk, HandleCompleted, Leave, Mark, Look, Judge, Reprime,
                     Tick, Crash
<1>11. ASSUME NEW p \in Procs,
       Cancel(p) \/ Prime(p) \/ Clear(p) \/ Settings(p) \/ Work(p) \/ Turns(p) \/
       Threads(p) \/ Stop(p) \/ Start(p) \/ Ask(p) \/ Answered(p)
      PROVE PlanChange
  BY <1>11, <1>9 DEF Cancel, disk, Prime, Clear, Settings, Work, Turns, Threads, Stop, Start,
                     Ask, Answered
<1>12. ASSUME NEW s \in Sessions,
       Drain(s) \/ Probe(s) \/ Sent(s) \/ EndTurn(s)
      PROVE PlanChange
  BY <1>12, <1>9 DEF Drain, disk, Probe, Sends, Sent, EndTurn
<1>13. ASSUME NEW u \in Users,
       Queueing(u) \/ ForceExecutes(u) \/ ArmLooks(u) \/ ForceTakes(u)
      PROVE PlanChange
  BY <1>13, <1>9 DEF Queueing, ForceExecutes, disk, ArmLooks, ForceTakes
<1>14. ASSUME NEW u \in Users, NEW s \in Sessions,
       UserSends(u, s) \/ Enqueue(u, s) \/ RemoveItem(u, s) \/ Resume(u, s)
      PROVE PlanChange
  BY <1>14, <1>9 DEF UserSends, Sends, disk, Enqueue, RemoveItem, Resume
<1>15. ASSUME NEW k \in Plans,
       Wake(k) \/ Execute(k)
      PROVE PlanChange
  BY <1>15, <1>9 DEF Wake, disk, Execute
<1>16. ASSUME NEW u \in Users, Survey(u) PROVE PlanChange
  BY <1>16, <1>9 DEF Survey, disk
<1>17. ASSUME NEW p \in Users \cup Sessions, Drop(p) PROVE PlanChange
  BY <1>17, <1>9 DEF Drop, disk
<1> QED BY <1>1, <1>2, <1>3, <1>4, <1>5, <1>6, <1>7, <1>8, <1>9, <1>10, <1>11, <1>12, <1>13,
           <1>14, <1>15, <1>16, <1>17
     DEF Next, vars, Continue, Queues, User, Request, Timers, Monitor, Restore

\* Nor does the timer.
LEMMA ArmedChanges ==
  ASSUME Next
  PROVE  ArmedChange
<1>1. ASSUME NEW p \in Procs, Clear(p) PROVE ArmedChange
  BY <1>1 DEF Clear, ArmedChange, Nulling
<1>2. ASSUME NEW p \in Procs, Stop(p) PROVE ArmedChange
  BY <1>2 DEF Stop, ArmedChange, Nulling
<1>3. ASSUME NEW p \in Procs, Start(p) PROVE ArmedChange
  BY <1>3 DEF Start, ArmedChange, Nulling
<1>4. ASSUME NEW u \in Users, ForceTakes(u) PROVE ArmedChange
  BY <1>4 DEF ForceTakes, ArmedChange, Nulling
<1>5. ASSUME NEW k \in Plans, Wake(k) PROVE ArmedChange
  BY <1>5 DEF Wake, ArmedChange, Nulling
<1>6. ASSUME Crash PROVE ArmedChange
  BY <1>6 DEF Crash, ArmedChange, Nulling
<1>7. ASSUME UNCHANGED armed PROVE ArmedChange
  BY <1>7 DEF ArmedChange, Nulling
<1>8. ASSUME
       HandleStarted \/ HandleCompleted \/ Leave \/ Mark \/ Look \/ Forget \/ Judge \/
       Reprime \/ Unprime \/ Tick
      PROVE ArmedChange
  BY <1>8, <1>7 DEF HandleStarted, timers, HandleCompleted, Leave, Mark, Look, Forget, Judge,
                    Reprime, Unprime, Tick
<1>9. ASSUME NEW p \in Procs,
       Cancel(p) \/ Prime(p) \/ Null(p) \/ Settings(p) \/ Work(p) \/ Turns(p) \/ Threads(p)
       \/ Write(p) \/ Ask(p) \/ Answered(p)
      PROVE ArmedChange
  BY <1>9, <1>7 DEF Cancel, timers, Prime, Null, Settings, Work, Turns, Threads, Write, Ask,
                    Answered
<1>10. ASSUME NEW s \in Sessions,
       Drain(s) \/ Probe(s) \/ Sent(s) \/ EndTurn(s)
      PROVE ArmedChange
  BY <1>10, <1>7 DEF Drain, timers, Probe, Sends, Sent, EndTurn
<1>11. ASSUME NEW u \in Users,
       Queueing(u) \/ Arm(u) \/ ForceErases(u) \/ ForceExecutes(u) \/ ArmLooks(u) \/
       Disarm(u)
      PROVE ArmedChange
  BY <1>11, <1>7 DEF Queueing, timers, Arm, ForceErases, ForceExecutes, ArmLooks, Disarm
<1>12. ASSUME NEW u \in Users, NEW s \in Sessions,
       UserSends(u, s) \/ Enqueue(u, s) \/ RemoveItem(u, s) \/ Resume(u, s)
      PROVE ArmedChange
  BY <1>12, <1>7 DEF UserSends, Sends, timers, Enqueue, RemoveItem, Resume
<1>13. ASSUME NEW k \in Plans,
       Erase(k) \/ Execute(k)
      PROVE ArmedChange
  BY <1>13, <1>7 DEF Erase, Execute
<1>14. ASSUME NEW u \in Users, Survey(u) PROVE ArmedChange
  BY <1>14, <1>7 DEF Survey, timers
<1>15. ASSUME NEW p \in Users \cup Sessions, Drop(p) PROVE ArmedChange
  BY <1>15, <1>7 DEF Drop
<1> QED BY <1>1, <1>2, <1>3, <1>4, <1>5, <1>6, <1>7, <1>8, <1>9, <1>10, <1>11, <1>12, <1>13, <1>14, <1>15
     DEF Next, vars, Continue, Queues, User, Request, Timers, Monitor, Restore

\* A call-off lets go of the timer before it erases the plan.
CallOff(q) ==
  /\ pc[q] = "clear" /\ job[q].goal = "disarm" =>
       (pc'[q] = "clear" /\ job'[q].goal = "disarm") \/ armed' = 0 \/ Timer \subseteq late'
  /\ pc'[q] = "null" => pc[q] = "null" \/ armed' = 0

\* A plan comes to a process from the disk.
Holding == Making \cup {"judge", "reprime"}
Held(q) ==
  pc'[q] \in Holding /\ job'[q].plan # 0 =>
    \/ pc[q] \in Holding /\ job'[q].plan = job[q].plan
    \/ job'[q].plan = plan /\ plan' = plan
    \/ pc[q] = "write" /\ job'[q].plan = plan' /\ (job[q].over => plan' \in late')

\* A call-off does so step by step.
LEMMA CallOffSteps ==
  ASSUME ProcTypes, Next, NEW q \in Procs
  PROVE  CallOff(q)
<1>1. ASSUME NEW p \in Procs, Cancel(p) PROVE CallOff(q)
  <2>1. pc[p] = "cancel" /\ pc'[p] # "null"
    BY <1>1 DEF Cancel, Then, ProcTypes
  <2> QED BY <1>1, <2>1, CancelMoves DEF Overtakes, CallOff
<1>2. ASSUME NEW p \in Procs, Prime(p) PROVE CallOff(q)
  BY <1>2, Names DEF Prime, Then, timers, ProcTypes, CallOff
<1>3. ASSUME NEW p \in Procs, Clear(p) PROVE CallOff(q)
  BY <1>3, Names DEF Clear, Goes, ProcTypes, CallOff
<1>4. ASSUME NEW p \in Procs, Null(p) PROVE CallOff(q)
  BY <1>4, Names DEF Null, Goes, Then, timers, ProcTypes, CallOff
<1>5. ASSUME NEW p \in Procs, Settings(p) PROVE CallOff(q)
  BY <1>5, Names DEF Settings, Goes, timers, ProcTypes, CallOff
<1>6. ASSUME NEW p \in Procs, Work(p) PROVE CallOff(q)
  BY <1>6, Names DEF Work, Goes, timers, ProcTypes, CallOff
<1>7. ASSUME NEW p \in Procs, Turns(p) PROVE CallOff(q)
  BY <1>7, Names DEF Turns, Goes, timers, ProcTypes, CallOff
<1>8. ASSUME NEW p \in Procs, Threads(p) PROVE CallOff(q)
  BY <1>8, Names DEF Threads, Goes, timers, ProcTypes, CallOff
<1>9. ASSUME NEW p \in Procs, Write(p) PROVE CallOff(q)
  BY <1>9, Names DEF Write, Goes, timers, ProcTypes, CallOff
<1>10. ASSUME NEW p \in Procs, Stop(p) PROVE CallOff(q)
  BY <1>10, Names DEF Stop, Goes, ProcTypes, CallOff
<1>11. ASSUME NEW p \in Procs, Start(p) PROVE CallOff(q)
  BY <1>11, Names DEF Start, Goes, ProcTypes, CallOff
<1>12. ASSUME NEW p \in Procs, Ask(p) PROVE CallOff(q)
  BY <1>12, Names DEF Ask, Goes, timers, ProcTypes, CallOff
<1>13. ASSUME NEW p \in Procs, Answered(p) PROVE CallOff(q)
  BY <1>13, Names DEF Answered, Goes, timers, ProcTypes, CallOff
<1>14. ASSUME NEW s \in Sessions, Drain(s) PROVE CallOff(q)
  BY <1>14, Names DEF Drain, Begins, timers, ProcTypes, CallOff
<1>15. ASSUME NEW s \in Sessions, Probe(s) PROVE CallOff(q)
  BY <1>15, Names DEF Probe, Goes, Sends, timers, Begins, ProcTypes, CallOff
<1>16. ASSUME NEW s \in Sessions, Sent(s) PROVE CallOff(q)
  BY <1>16, Names DEF Sent, Goes, timers, ProcTypes, CallOff
<1>17. ASSUME NEW u \in Users, Queueing(u) PROVE CallOff(q)
  BY <1>17, Names DEF Queueing, timers, ProcTypes, CallOff
<1>18. ASSUME NEW u \in Users, Arm(u) PROVE CallOff(q)
  BY <1>18, Names DEF Arm, Goes, timers, ProcTypes, CallOff
<1>19. ASSUME NEW u \in Users, ForceErases(u) PROVE CallOff(q)
  BY <1>19, Names DEF ForceErases, Goes, timers, ProcTypes, CallOff
<1>20. ASSUME NEW u \in Users, ForceExecutes(u) PROVE CallOff(q)
  BY <1>20, Names DEF ForceExecutes, Goes, timers, ProcTypes, CallOff
<1>21. ASSUME NEW u \in Users, ArmLooks(u) PROVE CallOff(q)
  BY <1>21, Names DEF ArmLooks, Asks, timers, ProcTypes, CallOff
<1>22. ASSUME NEW u \in Users, Disarm(u) PROVE CallOff(q)
  <2>1. pc[u] = "idle"
    BY <1>22 DEF Disarm, Asks
  <2> QED BY <1>22, <2>1, DisarmMoves DEF Overtakes, CallOff
<1>23. ASSUME NEW u \in Users, ForceTakes(u) PROVE CallOff(q)
  BY <1>23, Names DEF ForceTakes, Begins, Asks, ProcTypes, CallOff
<1>24. ASSUME NEW u \in Users, NEW s \in Sessions, UserSends(u, s) PROVE CallOff(q)
  BY <1>24, Names DEF UserSends, Sends, Asks, timers, Begins, ProcTypes, CallOff
<1>25. ASSUME NEW u \in Users, NEW s \in Sessions, Enqueue(u, s) PROVE CallOff(q)
  BY <1>25, Names DEF Enqueue, Begins, Asks, timers, ProcTypes, CallOff
<1>26. ASSUME NEW u \in Users, NEW s \in Sessions, RemoveItem(u, s) PROVE CallOff(q)
  BY <1>26, Names DEF RemoveItem, Begins, Asks, timers, ProcTypes, CallOff
<1>27. ASSUME NEW k \in Plans, Wake(k) PROVE CallOff(q)
  BY <1>27, Names DEF Wake, ProcTypes, CallOff
<1>28. ASSUME HandleStarted PROVE CallOff(q)
  BY <1>28, Names DEF HandleStarted, Begins, timers, ProcTypes, CallOff
<1>29. ASSUME HandleCompleted PROVE CallOff(q)
  BY <1>29, Names DEF HandleCompleted, Begins, timers, ProcTypes, CallOff
<1>30. ASSUME Leave PROVE CallOff(q)
  BY <1>30, Names DEF Leave, timers, ProcTypes, CallOff
<1>31. ASSUME Mark PROVE CallOff(q)
  BY <1>31, Names DEF Mark, Goes, timers, ProcTypes, CallOff
<1>32. ASSUME Look PROVE CallOff(q)
  BY <1>32, Names DEF Look, Goes, timers, ProcTypes, CallOff
<1>33. ASSUME Forget PROVE CallOff(q)
  BY <1>33, Names DEF Forget, timers, ProcTypes, CallOff
<1>34. ASSUME Judge PROVE CallOff(q)
  BY <1>34, Names DEF Judge, Goes, timers, ProcTypes, CallOff
<1>35. ASSUME Reprime PROVE CallOff(q)
  BY <1>35, Names DEF Reprime, Goes, timers, ProcTypes, CallOff
<1>36. ASSUME Unprime PROVE CallOff(q)
  BY <1>36, Names DEF Unprime, Goes, timers, ProcTypes, CallOff
<1>37. ASSUME Crash PROVE CallOff(q)
  BY <1>37, Names DEF Crash, ProcTypes, CallOff
<1>38. ASSUME UNCHANGED <<pc, job, armed>> PROVE CallOff(q)
  BY <1>38 DEF CallOff
<1>39. ASSUME
       Tick
      PROVE CallOff(q)
  BY <1>39, <1>38 DEF Tick, timers
<1>40. ASSUME NEW s \in Sessions,
       EndTurn(s)
      PROVE CallOff(q)
  BY <1>40, <1>38 DEF EndTurn, timers
<1>41. ASSUME NEW u \in Users, NEW s \in Sessions,
       Resume(u, s)
      PROVE CallOff(q)
  BY <1>41, <1>38 DEF Resume, timers
<1>42. ASSUME NEW k \in Plans,
       Erase(k) \/ Execute(k)
      PROVE CallOff(q)
  BY <1>42, <1>38 DEF Erase, Execute
<1>43. ASSUME NEW u \in Users, Survey(u) PROVE CallOff(q)
  BY <1>43, SurveyMoves, Names DEF CallOff
<1>44. ASSUME NEW p \in Users \cup Sessions, Drop(p) PROVE CallOff(q)
  BY <1>44, DropMoves, Names DEF Drop, CallOff
<1> QED BY <1>1, <1>2, <1>3, <1>4, <1>5, <1>6, <1>7, <1>8, <1>9, <1>10, <1>11, <1>12, <1>13,
           <1>14, <1>15, <1>16, <1>17, <1>18, <1>19, <1>20, <1>21, <1>22, <1>23, <1>24,
           <1>25, <1>26, <1>27, <1>28, <1>29, <1>30, <1>31, <1>32, <1>33, <1>34, <1>35,
           <1>36, <1>37, <1>38, <1>39, <1>40, <1>41, <1>42, <1>43, <1>44
     DEF Next, vars, Continue, Queues, User, Request, Timers, Monitor, Restore

\* What a process holds was on the disk, or it has just written it.
LEMMA HeldSteps ==
  ASSUME ProcTypes, PlanTypes, GoalInv, Next, NEW q \in Procs
  PROVE  Held(q)
<1>1. ASSUME NEW p \in Procs, Cancel(p) PROVE Held(q)
  BY <1>1, CancelMoves DEF Overtakes, Then, Held, Holding, Making
<1>2. ASSUME NEW p \in Procs, Prime(p) PROVE Held(q)
  BY <1>2, Names DEF Prime, Then, ProcTypes, Job, Held, Holding, Making
<1>3. ASSUME NEW p \in Procs, Clear(p) PROVE Held(q)
  BY <1>3, Names DEF Clear, Goes, disk, ProcTypes, Job, Held, Holding, Making
<1>4. ASSUME NEW p \in Procs, Null(p) PROVE Held(q)
  BY <1>4, Names DEF Null, Goes, Then, ProcTypes, Job, Held, Holding, Making
<1>5. ASSUME NEW p \in Procs, Settings(p) PROVE Held(q)
  BY <1>5, Names DEF Settings, Goes, disk, ProcTypes, Job, Held, Holding, Making
<1>6. ASSUME NEW p \in Procs, Work(p) PROVE Held(q)
  BY <1>6, Names DEF Work, Goes, disk, ProcTypes, Job, Held, Holding, Making
<1>7. ASSUME NEW p \in Procs, Turns(p) PROVE Held(q)
  BY <1>7, Names DEF Turns, Goes, disk, ProcTypes, Job, Held, Holding, Making
<1>8. ASSUME NEW p \in Procs, Threads(p) PROVE Held(q)
  BY <1>8, Names DEF Threads, Goes, disk, ProcTypes, Job, Held, Holding, Making
<1>9. ASSUME NEW p \in Procs, Write(p) PROVE Held(q)
  BY <1>9, Names DEF Write, Goes, ProcTypes, Job, Held, Holding, Making
<1>10. ASSUME NEW p \in Procs, Stop(p) PROVE Held(q)
  BY <1>10, Names DEF Stop, Goes, disk, ProcTypes, Job, Held, Holding, Making
<1>11. ASSUME NEW p \in Procs, Start(p) PROVE Held(q)
  BY <1>11, Names DEF Start, Goes, disk, ProcTypes, Job, Held, Holding, Making
<1>12. ASSUME NEW p \in Procs, Ask(p) PROVE Held(q)
  BY <1>12, Names DEF Ask, Goes, ProcTypes, Job, Held, Holding, Making
<1>13. ASSUME NEW p \in Procs, Answered(p) PROVE Held(q)
  BY <1>13, Names DEF Answered, Goes, disk, ProcTypes, Job, Held, Holding, Making
<1>14. ASSUME NEW s \in Sessions, Drain(s) PROVE Held(q)
  BY <1>14, Names DEF Drain, Begins, disk, ProcTypes, Job, Held, Holding, Making
<1>15. ASSUME NEW s \in Sessions, Probe(s) PROVE Held(q)
  BY <1>15, Names DEF Probe, Goes, Sends, disk, Begins, ProcTypes, Job, Held, Holding, Making
<1>16. ASSUME NEW s \in Sessions, Sent(s) PROVE Held(q)
  BY <1>16, Names DEF Sent, Goes, ProcTypes, Job, Held, Holding, Making
<1>17. ASSUME NEW u \in Users, Queueing(u) PROVE Held(q)
  BY <1>17, QueueingMoves DEF Overtakes, Held, Holding, Making
<1>18. ASSUME NEW u \in Users, Arm(u) PROVE Held(q)
  BY <1>18, Names DEF Arm, Goes, ProcTypes, Job, Held, Holding, Making
<1>19. ASSUME NEW u \in Users, ForceErases(u) PROVE Held(q)
  BY <1>19, Names DEF ForceErases, Goes, ProcTypes, Job, Held, Holding, Making
<1>20. ASSUME NEW u \in Users, ForceExecutes(u) PROVE Held(q)
  BY <1>20, Names DEF ForceExecutes, Goes, disk, ProcTypes, Job, Held, Holding, Making
<1>21. ASSUME NEW u \in Users, ArmLooks(u) PROVE Held(q)
  BY <1>21, Names DEF ArmLooks, Asks, disk, ProcTypes, Job, Held, Holding, Making
<1>22. ASSUME NEW u \in Users, Disarm(u) PROVE Held(q)
  BY <1>22, DisarmMoves DEF Overtakes, Held, Holding, Making
<1>23. ASSUME NEW u \in Users, ForceTakes(u) PROVE Held(q)
  BY <1>23, Names DEF ForceTakes, Begins, Asks, disk, ProcTypes, Job, Held, Holding, Making
<1>24. ASSUME NEW u \in Users, NEW s \in Sessions, UserSends(u, s) PROVE Held(q)
  BY <1>24, Names DEF UserSends, Sends, Asks, disk, Begins, ProcTypes, Job, Held, Holding,
                      Making
<1>25. ASSUME NEW u \in Users, NEW s \in Sessions, Enqueue(u, s) PROVE Held(q)
  BY <1>25, Names DEF Enqueue, Begins, Asks, disk, ProcTypes, Job, Held, Holding, Making
<1>26. ASSUME NEW u \in Users, NEW s \in Sessions, RemoveItem(u, s) PROVE Held(q)
  BY <1>26, Names DEF RemoveItem, Begins, Asks, ProcTypes, Job, Held, Holding, Making
<1>27. ASSUME NEW k \in Plans, Erase(k) PROVE Held(q)
  BY <1>27, Names DEF Erase, ProcTypes, Job, Held, Holding, Making
<1>28. ASSUME HandleStarted PROVE Held(q)
  BY <1>28, Names DEF HandleStarted, Begins, disk, ProcTypes, Job, Held, Holding, Making
<1>29. ASSUME HandleCompleted PROVE Held(q)
  BY <1>29, Names DEF HandleCompleted, Begins, disk, ProcTypes, Job, Held, Holding, Making
<1>30. ASSUME Leave PROVE Held(q)
  BY <1>30, Names DEF Leave, disk, ProcTypes, Job, Held, Holding, Making
<1>31. ASSUME Mark PROVE Held(q)
  BY <1>31, Names DEF Mark, Goes, ProcTypes, Job, Held, Holding, Making
<1>32. ASSUME Look PROVE Held(q)
  BY <1>32, Names DEF Look, Goes, disk, ProcTypes, Job, Held, Holding, Making
<1>33. ASSUME Forget PROVE Held(q)
  BY <1>33, ForgetMoves DEF Overtakes, Held, Holding, Making
<1>34. ASSUME Judge PROVE Held(q)
  BY <1>34, Names DEF Judge, Goes, disk, ProcTypes, Job, Held, Holding, Making
<1>35. ASSUME Reprime PROVE Held(q)
  BY <1>35, Names DEF Reprime, Goes, ProcTypes, Job, Held, Holding, Making
<1>36. ASSUME Unprime PROVE Held(q)
  BY <1>36, Names DEF Unprime, Goes, ProcTypes, Job, Held, Holding, Making
<1>37. ASSUME Crash PROVE Held(q)
  BY <1>37, Names DEF Crash, disk, ProcTypes, Job, Held, Holding, Making
<1>38. ASSUME UNCHANGED <<pc, job, plan>> PROVE Held(q)
  BY <1>38, Names DEF ProcTypes, Job, Held, Holding, Making
<1>39. ASSUME
       Tick
      PROVE Held(q)
  BY <1>39, <1>38 DEF Tick, disk
<1>40. ASSUME NEW s \in Sessions,
       EndTurn(s)
      PROVE Held(q)
  BY <1>40, <1>38 DEF EndTurn, disk
<1>41. ASSUME NEW u \in Users, NEW s \in Sessions,
       Resume(u, s)
      PROVE Held(q)
  BY <1>41, <1>38 DEF Resume
<1>42. ASSUME NEW k \in Plans,
       Wake(k) \/ Execute(k)
      PROVE Held(q)
  BY <1>42, <1>38 DEF Wake, disk, Execute
<1>43. ASSUME NEW u \in Users, Survey(u) PROVE Held(q)
  BY <1>43, SurveyMoves, Names DEF Survey, disk, Held, Holding, Making
<1>44. ASSUME NEW p \in Users \cup Sessions, Drop(p) PROVE Held(q)
  BY <1>44, DropMoves, Names DEF Drop, disk, Held, Holding, Making
<1> QED BY <1>1, <1>2, <1>3, <1>4, <1>5, <1>6, <1>7, <1>8, <1>9, <1>10, <1>11, <1>12, <1>13,
           <1>14, <1>15, <1>16, <1>17, <1>18, <1>19, <1>20, <1>21, <1>22, <1>23, <1>24,
           <1>25, <1>26, <1>27, <1>28, <1>29, <1>30, <1>31, <1>32, <1>33, <1>34, <1>35,
           <1>36, <1>37, <1>38, <1>39, <1>40, <1>41, <1>42, <1>43, <1>44
     DEF Next, vars, Continue, Queues, User, Request, Timers, Monitor, Restore

\* Who sends holds the session's lock, and so does the monitor.
LockOf(p) ==
  /\ job[p].goal \in {"send", "dispatch"}
        /\ pc[p] \in {"cancel", "prime", "clear", "null", "ask", "answer"} => lock[job[p].on] = p
  /\ p = "monitor" /\ pc[p] # "idle" => lock[job[p].on] = p
LockInv == \A p \in Procs : LockOf(p)

\* What the monitor is about, as long as it handles no notification.
SameHeard ==
  job'["monitor"].goal = job["monitor"].goal /\ job'["monitor"].on = job["monitor"].on

\* The monitor is about the same, or begins or ends with a notification.
LEMMA MonitorSteps ==
  ASSUME ProcTypes, Next
  PROVE  SameHeard \/ HandleStarted \/ HandleCompleted \/ Leave \/ Crash
<1> DEFINE Goal == SameHeard \/ HandleStarted \/ HandleCompleted \/ Leave \/ Crash
<1>1. ASSUME NEW p \in Procs, Cancel(p) PROVE Goal
  BY <1>1, CancelMoves, Names DEF Overtakes, SameHeard
<1>2. ASSUME NEW p \in Procs, Prime(p) PROVE Goal
  BY <1>2, Names DEF Prime, Then, ProcTypes, Job, SameHeard
<1>3. ASSUME NEW p \in Procs, Clear(p) PROVE Goal
  BY <1>3, Names DEF Clear, Goes, ProcTypes, Job, SameHeard
<1>4. ASSUME NEW p \in Procs, Null(p) PROVE Goal
  BY <1>4, Names DEF Null, Goes, Then, ProcTypes, Job, SameHeard
<1>5. ASSUME NEW p \in Procs, Settings(p) PROVE Goal
  BY <1>5, Names DEF Settings, Goes, ProcTypes, Job, SameHeard
<1>6. ASSUME NEW p \in Procs, Work(p) PROVE Goal
  BY <1>6, Names DEF Work, Goes, ProcTypes, Job, SameHeard
<1>7. ASSUME NEW p \in Procs, Turns(p) PROVE Goal
  BY <1>7, Names DEF Turns, Goes, ProcTypes, Job, SameHeard
<1>8. ASSUME NEW p \in Procs, Threads(p) PROVE Goal
  BY <1>8, Names DEF Threads, Goes, ProcTypes, Job, SameHeard
<1>9. ASSUME NEW p \in Procs, Write(p) PROVE Goal
  BY <1>9, Names DEF Write, Goes, ProcTypes, Job, SameHeard
<1>10. ASSUME NEW p \in Procs, Stop(p) PROVE Goal
  BY <1>10, Names DEF Stop, Goes, ProcTypes, Job, SameHeard
<1>11. ASSUME NEW p \in Procs, Start(p) PROVE Goal
  BY <1>11, Names DEF Start, Goes, ProcTypes, Job, SameHeard
<1>12. ASSUME NEW p \in Procs, Ask(p) PROVE Goal
  BY <1>12, Names DEF Ask, Goes, ProcTypes, Job, SameHeard
<1>13. ASSUME NEW p \in Procs, Answered(p) PROVE Goal
  BY <1>13, Names DEF Answered, Goes, ProcTypes, Job, SameHeard
<1>14. ASSUME NEW s \in Sessions, Drain(s) PROVE Goal
  BY <1>14, Names DEF Drain, Begins, ProcTypes, Job, SameHeard
<1>15. ASSUME NEW s \in Sessions, Probe(s) PROVE Goal
  BY <1>15, Names DEF Probe, Goes, Sends, Begins, ProcTypes, Job, SameHeard
<1>16. ASSUME NEW s \in Sessions, Sent(s) PROVE Goal
  BY <1>16, Names DEF Sent, Goes, ProcTypes, Job, SameHeard
<1>17. ASSUME NEW u \in Users, Queueing(u) PROVE Goal
  <2>1. u # "monitor"
    BY Names
  <2> QED BY <1>17, <2>1, QueueingMoves, Names DEF Overtakes, SameHeard
<1>18. ASSUME NEW u \in Users, Arm(u) PROVE Goal
  BY <1>18, Names DEF Arm, Goes, ProcTypes, Job, SameHeard
<1>19. ASSUME NEW u \in Users, ForceErases(u) PROVE Goal
  BY <1>19, Names DEF ForceErases, Goes, ProcTypes, Job, SameHeard
<1>20. ASSUME NEW u \in Users, ForceExecutes(u) PROVE Goal
  BY <1>20, Names DEF ForceExecutes, Goes, ProcTypes, Job, SameHeard
<1>21. ASSUME NEW u \in Users, ArmLooks(u) PROVE Goal
  BY <1>21, Names DEF ArmLooks, Asks, ProcTypes, Job, SameHeard
<1>22. ASSUME NEW u \in Users, Disarm(u) PROVE Goal
  <2>1. u # "monitor"
    BY Names
  <2> QED BY <1>22, <2>1, DisarmMoves, Names DEF Overtakes, SameHeard
<1>23. ASSUME NEW u \in Users, ForceTakes(u) PROVE Goal
  BY <1>23, Names DEF ForceTakes, Begins, Asks, ProcTypes, Job, SameHeard
<1>24. ASSUME NEW u \in Users, NEW s \in Sessions, UserSends(u, s) PROVE Goal
  BY <1>24, Names DEF UserSends, Sends, Asks, Begins, ProcTypes, Job, SameHeard
<1>25. ASSUME NEW u \in Users, NEW s \in Sessions, Enqueue(u, s) PROVE Goal
  BY <1>25, Names DEF Enqueue, Begins, Asks, ProcTypes, Job, SameHeard
<1>26. ASSUME NEW u \in Users, NEW s \in Sessions, RemoveItem(u, s) PROVE Goal
  BY <1>26, Names DEF RemoveItem, Begins, Asks, ProcTypes, Job, SameHeard
<1>27. ASSUME HandleStarted PROVE Goal
  BY <1>27
<1>28. ASSUME HandleCompleted PROVE Goal
  BY <1>28
<1>29. ASSUME Leave PROVE Goal
  BY <1>29
<1>30. ASSUME Mark PROVE Goal
  BY <1>30, Names DEF Mark, Goes, ProcTypes, Job, SameHeard
<1>31. ASSUME Look PROVE Goal
  BY <1>31, Names DEF Look, Goes, ProcTypes, Job, SameHeard
<1>32. ASSUME Forget PROVE Goal
  BY <1>32, ForgetMoves, Names DEF Overtakes, SameHeard
<1>33. ASSUME Judge PROVE Goal
  BY <1>33, Names DEF Judge, Goes, ProcTypes, Job, SameHeard
<1>34. ASSUME Reprime PROVE Goal
  BY <1>34, Names DEF Reprime, Goes, ProcTypes, Job, SameHeard
<1>35. ASSUME Unprime PROVE Goal
  BY <1>35, Names DEF Unprime, Goes, ProcTypes, Job, SameHeard
<1>36. ASSUME Crash PROVE Goal
  BY <1>36
<1>37. ASSUME UNCHANGED job PROVE Goal
  BY <1>37, Names DEF ProcTypes, Job, SameHeard
<1>38. ASSUME
       Tick
      PROVE Goal
  BY <1>38, <1>37 DEF Tick
<1>39. ASSUME NEW s \in Sessions,
       EndTurn(s)
      PROVE Goal
  BY <1>39, <1>37 DEF EndTurn
<1>40. ASSUME NEW u \in Users, NEW s \in Sessions,
       Resume(u, s)
      PROVE Goal
  BY <1>40, <1>37 DEF Resume
<1>41. ASSUME NEW k \in Plans,
       Wake(k) \/ Erase(k) \/ Execute(k)
      PROVE Goal
  BY <1>41, <1>37 DEF Wake, Erase, Execute
<1>42. ASSUME NEW u \in Users, Survey(u) PROVE Goal
  BY <1>42, SurveyMoves, Names DEF SameHeard
<1>43. ASSUME NEW p \in Users \cup Sessions, Drop(p) PROVE Goal
  BY <1>43, DropMoves, Names DEF SameHeard
<1> QED BY <1>1, <1>2, <1>3, <1>4, <1>5, <1>6, <1>7, <1>8, <1>9, <1>10, <1>11, <1>12, <1>13,
           <1>14, <1>15, <1>16, <1>17, <1>18, <1>19, <1>20, <1>21, <1>22, <1>23, <1>24,
           <1>25, <1>26, <1>27, <1>28, <1>29, <1>30, <1>31, <1>32, <1>33, <1>34, <1>35,
           <1>36, <1>37, <1>38, <1>39, <1>40, <1>41, <1>42, <1>43
     DEF Next, vars, Continue, Queues, User, Request, Timers, Monitor, Restore

\* LockInv is inductive.
LEMMA LockSteps ==
  ASSUME ProcTypes, WorkTypes, GoalInv, LockInv, Next, NEW q \in Procs
  PROVE  LockOf(q)'
<1>1. LockOf(q) /\ GoalOf(q)
  BY DEF LockInv, GoalInv
<1>2. job[q] \in Job /\ pc[q] \in Steps
  BY DEF ProcTypes
<1>3. ASSUME NEW p \in Procs, Cancel(p) PROVE LockOf(q)'
  <2>1. lock' = lock /\ job'[q].goal = job[q].goal /\ job'[q].on = job[q].on
    BY <1>3, CancelMoves DEF Cancel, Overtakes
  <2>2. q # p => pc'[q] = pc[q]
    BY <1>3, CancelMoves DEF Overtakes
  <2>3. q = p => pc[q] = "cancel"
    BY <1>3, CancelMoves
  <2> QED BY <1>1, <2>1, <2>2, <2>3 DEF LockOf
<1>4. ASSUME NEW p \in Procs, Prime(p) PROVE LockOf(q)'
  BY <1>4, <1>1, <1>2, Names DEF Prime, Then, ProcTypes, WorkTypes, Job, NoJob, GoalOf,
                                 Aimed, LockOf
<1>5. ASSUME NEW p \in Procs, Clear(p) PROVE LockOf(q)'
  BY <1>5, <1>1, <1>2, Names DEF Clear, Goes, ProcTypes, WorkTypes, Job, NoJob, GoalOf,
                                 Aimed, LockOf
<1>6. ASSUME NEW p \in Procs, Null(p) PROVE LockOf(q)'
  BY <1>6, <1>1, <1>2, Names DEF Null, Goes, Then, ProcTypes, WorkTypes, Job, NoJob, GoalOf,
                                 Aimed, LockOf
<1>7. ASSUME NEW p \in Procs, Settings(p) PROVE LockOf(q)'
  BY <1>7, <1>1, <1>2, Names DEF Settings, Goes, ProcTypes, WorkTypes, Job, NoJob, GoalOf,
                                 Aimed, LockOf
<1>8. ASSUME NEW p \in Procs, Work(p) PROVE LockOf(q)'
  BY <1>8, <1>1, <1>2, Names DEF Work, Goes, ProcTypes, WorkTypes, Job, NoJob, GoalOf, Aimed,
                                 LockOf
<1>9. ASSUME NEW p \in Procs, Turns(p) PROVE LockOf(q)'
  BY <1>9, <1>1, <1>2, Names DEF Turns, Goes, ProcTypes, WorkTypes, Job, NoJob, GoalOf,
                                 Aimed, LockOf
<1>10. ASSUME NEW p \in Procs, Threads(p) PROVE LockOf(q)'
  BY <1>10, <1>1, <1>2, Names DEF Threads, Goes, ProcTypes, WorkTypes, Job, NoJob, GoalOf,
                                 Aimed, LockOf
<1>11. ASSUME NEW p \in Procs, Write(p) PROVE LockOf(q)'
  <2>1. lock' = lock
    BY <1>11 DEF Write
  <2>2. \/ /\ job'[q].goal = job[q].goal /\ job'[q].on = job[q].on
           /\ pc'[q] = pc[q] \/ (pc[q] = "write" /\ pc'[q] \in {"stop", "leave"})
        \/ pc'[q] = "idle" /\ job'[q] = NoJob /\ q # "monitor"
    BY <1>11, <1>2 DEF Write, Goes, ProcTypes, Job
  <2> QED BY <1>1, <2>1, <2>2 DEF LockOf, NoJob
<1>12. ASSUME NEW p \in Procs, Stop(p) PROVE LockOf(q)'
  BY <1>12, <1>1, <1>2, Names DEF Stop, Goes, ProcTypes, WorkTypes, Job, NoJob, GoalOf,
                                  Aimed, LockOf
<1>13. ASSUME NEW p \in Procs, Start(p) PROVE LockOf(q)'
  BY <1>13, <1>1, <1>2, Names DEF Start, Goes, ProcTypes, WorkTypes, Job, NoJob, GoalOf,
                                  Aimed, LockOf
<1>14. ASSUME NEW p \in Procs, Ask(p) PROVE LockOf(q)'
  BY <1>14, <1>1, <1>2, Names, LockInv, GoalInv DEF Ask, Goes, LockInv, GoalInv, ProcTypes,
                                                    WorkTypes, Job, NoJob, GoalOf, Aimed,
                                                    LockOf
<1>15. ASSUME NEW p \in Procs, Answered(p) PROVE LockOf(q)'
  BY <1>15, <1>1, <1>2, Names, LockInv, GoalInv DEF Answered, Goes, LockInv, GoalInv,
                                                    ProcTypes, WorkTypes, Job, NoJob, GoalOf,
                                                    Aimed, LockOf
<1>16. ASSUME NEW s \in Sessions, Drain(s) PROVE LockOf(q)'
  BY <1>16, <1>1, <1>2, Names DEF Drain, Begins, ProcTypes, WorkTypes, Job, NoJob, GoalOf,
                                  Aimed, LockOf
<1>17. ASSUME NEW s \in Sessions, Probe(s) PROVE LockOf(q)'
  <2>1. \/ Begins(s, "cancel", "dispatch", s) /\ lock[s] = None /\ lock' = [lock EXCEPT ![s] = s]
        \/ Goes(s, "leave") /\ lock' = lock
    BY <1>17 DEF Probe, Sends
  <2>2. CASE q = s
    BY <1>1, <2>1, <2>2, Names, BegunJob DEF Goes, NoJob, ProcTypes, WorkTypes, LockOf
  <2>3. CASE q # s
    <3>1. pc'[q] = pc[q] /\ job'[q] = job[q]
      BY <2>1, <2>3, Names DEF Begins, Goes, ProcTypes
    <3>2. ASSUME job[q].on \in Sessions, lock[job[q].on] = q PROVE lock'[job[q].on] = q
      BY <2>1, <3>2, Names DEF WorkTypes
    <3> QED BY <1>1, <2>3, <3>1, <3>2 DEF LockOf, GoalOf, Aimed
  <2> QED BY <2>2, <2>3
<1>18. ASSUME NEW s \in Sessions, Sent(s) PROVE LockOf(q)'
  BY <1>18, <1>1, <1>2, Names DEF Sent, Goes, ProcTypes, WorkTypes, Job, NoJob, GoalOf,
                                  Aimed, LockOf
<1>19. ASSUME NEW u \in Users, Queueing(u) PROVE LockOf(q)'
  <2>1. lock' = lock
    BY <1>19 DEF Queueing
  <2>2. CASE q = u
    BY <1>19, <2>2, QueueingMoves, Names DEF LockOf, NoJob
  <2>3. CASE q # u
    <3>1. pc'[q] = pc[q] /\ job'[q].goal = job[q].goal /\ job'[q].on = job[q].on
      BY <1>19, <2>3, QueueingMoves DEF Overtakes
    <3> QED BY <1>1, <2>1, <3>1 DEF LockOf
  <2> QED BY <2>2, <2>3
<1>20. ASSUME NEW u \in Users, Arm(u) PROVE LockOf(q)'
  BY <1>20, <1>1, <1>2, Names DEF Arm, Goes, ProcTypes, WorkTypes, Job, NoJob, GoalOf, Aimed,
                                  LockOf
<1>21. ASSUME NEW u \in Users, ForceErases(u) PROVE LockOf(q)'
  BY <1>21, <1>1, <1>2, Names DEF ForceErases, Goes, ProcTypes, WorkTypes, Job, NoJob,
                                  GoalOf, Aimed, LockOf
<1>22. ASSUME NEW u \in Users, ForceExecutes(u) PROVE LockOf(q)'
  BY <1>22, <1>1, <1>2, Names DEF ForceExecutes, Goes, ProcTypes, WorkTypes, Job, NoJob,
                                  GoalOf, Aimed, LockOf
<1>23. ASSUME NEW u \in Users, ArmLooks(u) PROVE LockOf(q)'
  BY <1>23, <1>1, <1>2, Names DEF ArmLooks, Asks, ProcTypes, WorkTypes, Job, NoJob, GoalOf,
                                  Aimed, LockOf
<1>24. ASSUME NEW u \in Users, Disarm(u) PROVE LockOf(q)'
  <2>1. lock' = lock
    BY <1>24 DEF Disarm
  <2>2. CASE q = u
    BY <1>24, <2>2, DisarmMoves, Names DEF LockOf, NoJob
  <2>3. CASE q # u
    <3>1. pc'[q] = pc[q] /\ job'[q].goal = job[q].goal /\ job'[q].on = job[q].on
      BY <1>24, <2>3, DisarmMoves DEF Overtakes
    <3> QED BY <1>1, <2>1, <3>1 DEF LockOf
  <2> QED BY <2>2, <2>3
<1>25. ASSUME NEW u \in Users, ForceTakes(u) PROVE LockOf(q)'
  BY <1>25, <1>1, <1>2, Names DEF ForceTakes, Begins, Asks, ProcTypes, WorkTypes, Job, NoJob,
                                  GoalOf, Aimed, LockOf
<1>26. ASSUME NEW u \in Users, NEW s \in Sessions, UserSends(u, s) PROVE LockOf(q)'
  BY <1>26, <1>1, <1>2, Names DEF UserSends, Sends, Asks, Begins, ProcTypes, WorkTypes, Job,
                                  NoJob, GoalOf, Aimed, LockOf
<1>27. ASSUME NEW u \in Users, NEW s \in Sessions, Enqueue(u, s) PROVE LockOf(q)'
  BY <1>27, <1>1, <1>2, Names DEF Enqueue, Begins, Asks, ProcTypes, WorkTypes, Job, NoJob,
                                  GoalOf, Aimed, LockOf
<1>28. ASSUME NEW u \in Users, NEW s \in Sessions, RemoveItem(u, s) PROVE LockOf(q)'
  BY <1>28, <1>1, <1>2, Names DEF RemoveItem, Begins, Asks, ProcTypes, WorkTypes, Job, NoJob,
                                  GoalOf, Aimed, LockOf
<1>29. ASSUME HandleStarted PROVE LockOf(q)'
  <2> DEFINE n == Head(notes)[2]
  <2>1. notes # <<>> /\ notes \in Seq(Notes)
    BY <1>29 DEF HandleStarted, WorkTypes
  <2>2. n \in Sessions
    BY <2>1, HeadTailProperties DEF Notes
  <2>3. \/ Begins("monitor", "cancel", "started", n) /\ lock[n] = None /\ lock' = [lock EXCEPT ![n] = "monitor"]
        \/ UNCHANGED <<pc, job, lock>>
    BY <1>29 DEF HandleStarted
  <2> HIDE DEF n
  <2>4. CASE q = "monitor"
    BY <1>1, <2>2, <2>3, <2>4, BegunJob DEF WorkTypes, LockOf
  <2>5. CASE q # "monitor"
    <3>1. pc'[q] = pc[q] /\ job'[q] = job[q]
      BY <2>3, <2>5 DEF Begins, ProcTypes
    <3>2. ASSUME job[q].on \in Sessions, lock[job[q].on] = q PROVE lock'[job[q].on] = q
      BY <2>3, <3>2, Names DEF WorkTypes
    <3> QED BY <1>1, <2>5, <3>1, <3>2 DEF LockOf, GoalOf, Aimed
  <2> QED BY <2>4, <2>5
<1>30. ASSUME HandleCompleted PROVE LockOf(q)'
  <2> DEFINE n == Head(notes)[2]
  <2>1. notes # <<>> /\ notes \in Seq(Notes)
    BY <1>30 DEF HandleCompleted, WorkTypes
  <2>2. n \in Sessions
    BY <2>1, HeadTailProperties DEF Notes
  <2>3. \/ Begins("monitor", "settings", "completed", n) /\ lock[n] = None /\ lock' = [lock EXCEPT ![n] = "monitor"]
        \/ UNCHANGED <<pc, job, lock>>
    BY <1>30 DEF HandleCompleted
  <2> HIDE DEF n
  <2>4. CASE q = "monitor"
    BY <1>1, <2>2, <2>3, <2>4, BegunJob DEF WorkTypes, LockOf
  <2>5. CASE q # "monitor"
    <3>1. pc'[q] = pc[q] /\ job'[q] = job[q]
      BY <2>3, <2>5 DEF Begins, ProcTypes
    <3>2. ASSUME job[q].on \in Sessions, lock[job[q].on] = q PROVE lock'[job[q].on] = q
      BY <2>3, <3>2, Names DEF WorkTypes
    <3> QED BY <1>1, <2>5, <3>1, <3>2 DEF LockOf, GoalOf, Aimed
  <2> QED BY <2>4, <2>5
<1>31. ASSUME Leave PROVE LockOf(q)'
  BY <1>31, <1>1, <1>2, Names, LockInv, GoalInv DEF Leave, LockInv, GoalInv, ProcTypes,
                                                    WorkTypes, Job, NoJob, GoalOf, Aimed,
                                                    LockOf
<1>32. ASSUME Mark PROVE LockOf(q)'
  BY <1>32, <1>1, <1>2, Names DEF Mark, Goes, ProcTypes, WorkTypes, Job, NoJob, GoalOf,
                                  Aimed, LockOf
<1>33. ASSUME Look PROVE LockOf(q)'
  BY <1>33, <1>1, <1>2, Names DEF Look, Goes, ProcTypes, WorkTypes, Job, NoJob, GoalOf,
                                  Aimed, LockOf
<1>34. ASSUME Forget PROVE LockOf(q)'
  <2>1. lock' = lock
    BY <1>34 DEF Forget
  <2>2. CASE q = "restore"
    BY <1>34, <2>2, ForgetMoves, Names DEF LockOf, NoJob
  <2>3. CASE q # "restore"
    <3>1. pc'[q] = pc[q] /\ job'[q].goal = job[q].goal /\ job'[q].on = job[q].on
      BY <1>34, <2>3, ForgetMoves DEF Overtakes
    <3> QED BY <1>1, <2>1, <3>1 DEF LockOf
  <2> QED BY <2>2, <2>3
<1>35. ASSUME Judge PROVE LockOf(q)'
  BY <1>35, <1>1, <1>2, Names DEF Judge, Goes, ProcTypes, WorkTypes, Job, NoJob, GoalOf,
                                  Aimed, LockOf
<1>36. ASSUME Reprime PROVE LockOf(q)'
  BY <1>36, <1>1, <1>2, Names DEF Reprime, Goes, ProcTypes, WorkTypes, Job, NoJob, GoalOf,
                                  Aimed, LockOf
<1>37. ASSUME Unprime PROVE LockOf(q)'
  BY <1>37, <1>1, <1>2, Names DEF Unprime, Goes, ProcTypes, WorkTypes, Job, NoJob, GoalOf,
                                  Aimed, LockOf
<1>38. ASSUME Crash PROVE LockOf(q)'
  BY <1>38, <1>1, <1>2, Names DEF Crash, ProcTypes, WorkTypes, Job, NoJob, GoalOf, Aimed,
                                  LockOf
<1>39. ASSUME UNCHANGED <<pc, job, lock>> PROVE LockOf(q)'
  BY <1>39, <1>1, <1>2, Names DEF ProcTypes, WorkTypes, Job, NoJob, GoalOf, Aimed, LockOf
<1>40. ASSUME
       Tick
      PROVE LockOf(q)'
  BY <1>40, <1>39 DEF Tick
<1>41. ASSUME NEW s \in Sessions,
       EndTurn(s)
      PROVE LockOf(q)'
  BY <1>41, <1>39 DEF EndTurn
<1>42. ASSUME NEW u \in Users, NEW s \in Sessions,
       Resume(u, s)
      PROVE LockOf(q)'
  BY <1>42, <1>39 DEF Resume
<1>43. ASSUME NEW k \in Plans,
       Wake(k) \/ Erase(k) \/ Execute(k)
      PROVE LockOf(q)'
  BY <1>43, <1>39 DEF Wake, Erase, Execute
<1>44. ASSUME NEW u \in Users, Survey(u) PROVE LockOf(q)'
  BY <1>44, <1>1, SurveyMoves, Names DEF Survey, LockOf
<1>45. ASSUME NEW p \in Users \cup Sessions, Drop(p) PROVE LockOf(q)'
  <2>1. CASE q = p
    BY <1>45, <2>1, DropMoves DEF NoJob, LockOf
  <2>2. CASE q # p
    <3>1. pc'[q] = pc[q] /\ job'[q] = job[q]
      BY <1>45, <2>2, DropMoves
    <3>2. ASSUME job[q].on \in Sessions, lock[job[q].on] = q PROVE lock'[job[q].on] = q
      BY <1>45, <2>2, <3>2 DEF Drop, WorkTypes
    <3> QED BY <1>1, <3>1, <3>2 DEF LockOf, GoalOf, Aimed
  <2> QED BY <2>1, <2>2
<1> QED BY <1>3, <1>4, <1>5, <1>6, <1>7, <1>8, <1>9, <1>10, <1>11, <1>12, <1>13, <1>14, <1>15,
           <1>16, <1>17, <1>18, <1>19, <1>20, <1>21, <1>22, <1>23, <1>24, <1>25, <1>26,
           <1>27, <1>28, <1>29, <1>30, <1>31, <1>32, <1>33, <1>34, <1>35, <1>36, <1>37,
           <1>38, <1>39, <1>40, <1>41, <1>42, <1>43, <1>44, <1>45
     DEF Next, vars, Continue, Queues, User, Request, Timers, Monitor, Restore

----------------------------------------------------------------------------
(* Whether a plan is to be believed.                                       *)

\* The monitor calls off for a turn it has just heard of.  From there on no plan is
\* believed that was made before, and none is made any more.
Told      == job["monitor"].goal = "started"
CalledOff == Fired \subseteq late /\ \A p \in Procs : pc[p] \in {"threads", "write"} => job[p].over
Gone      == Half \subseteq late /\ plan \in late \cup {0} /\ (armed \in late \cup {0} \/ Clearing)
Broken    == CalledOff /\ Gone

ToldInv ==
  Told =>
    /\ job["monitor"].on \in active
    /\ pc["monitor"] \in {"cancel", "prime", "clear", "null", "leave"}
    /\ pc["monitor"] # "cancel" => CalledOff
    /\ pc["monitor"] = "leave" \/ (pc["monitor"] = "prime" /\ ~job["monitor"].seen) => Gone

\* What a process holds was on the disk, or was made late.
LEMMA HalfLate ==
  ASSUME ProcTypes, PlanTypes, GoalInv, Next, Half \subseteq late', plan' \in late' \cup {0}
  PROVE  Half' \subseteq late'
<1> SUFFICES ASSUME NEW q \in Procs, pc'[q] \in Holding, job'[q].plan # 0
             PROVE  job'[q].plan \in late'
  BY DEF Half, Holding
<1>1. Held(q)
  BY HeldSteps
<1>2. CASE pc[q] \in Holding /\ job'[q].plan = job[q].plan
  <2>1. job[q].plan \in Half
    BY <1>2 DEF Half, Holding
  <2> QED BY <1>2, <2>1
<1> QED BY <1>1, <1>2 DEF Held

\* A note that a turn started stays until the monitor takes it.
LEMMA HeardSteps ==
  ASSUME WorkTypes, Next, NEW t
  PROVE  (<<"started", t>> \in Range(notes) => <<"started", t>> \in Range(notes')) \/ HandleStarted \/ HandleCompleted \/ Crash
<1> DEFINE Goal == (<<"started", t>> \in Range(notes) => <<"started", t>> \in Range(notes')) \/ HandleStarted \/ HandleCompleted \/ Crash
<1>1. ASSUME NEW p \in Procs, Ask(p) PROVE Goal
  <2>1. notes' = notes \/ notes' = Append(notes, <<"started", job[p].on>>)
    BY <1>1 DEF Ask
  <2> QED BY <2>1, RangeAppend DEF WorkTypes
<1>2. ASSUME NEW s \in Sessions, EndTurn(s) PROVE Goal
  <2>1. notes' = Append(notes, <<"completed", s>>)
    BY <1>2 DEF EndTurn
  <2> QED BY <2>1, RangeAppend DEF WorkTypes
<1>3. ASSUME HandleStarted PROVE Goal
  BY <1>3
<1>4. ASSUME HandleCompleted PROVE Goal
  BY <1>4
<1>5. ASSUME Crash PROVE Goal
  BY <1>5
<1>6. ASSUME UNCHANGED notes PROVE Goal
  BY <1>6
<1>7. ASSUME
       Leave \/ Mark \/ Look \/ Forget \/ Judge \/ Reprime \/ Unprime \/ Tick
      PROVE Goal
  BY <1>7, <1>6 DEF Leave, work, Mark, Look, Forget, Judge, Reprime, Unprime, Tick
<1>8. ASSUME NEW p \in Procs,
       Cancel(p) \/ Prime(p) \/ Clear(p) \/ Null(p) \/ Settings(p) \/ Work(p) \/ Turns(p)
       \/ Threads(p) \/ Write(p) \/ Stop(p) \/ Start(p) \/ Answered(p)
      PROVE Goal
  BY <1>8, <1>6 DEF Cancel, work, Prime, Clear, Null, Settings, Work, Turns, Threads, Write,
                    Stop, Start, Answered
<1>9. ASSUME NEW s \in Sessions,
       Drain(s) \/ Probe(s) \/ Sent(s)
      PROVE Goal
  BY <1>9, <1>6 DEF Drain, work, Probe, Sends, Sent
<1>10. ASSUME NEW u \in Users,
       Queueing(u) \/ Arm(u) \/ ForceErases(u) \/ ForceExecutes(u) \/ ArmLooks(u) \/
       Disarm(u) \/ ForceTakes(u)
      PROVE Goal
  BY <1>10, <1>6 DEF Queueing, work, Arm, ForceErases, ForceExecutes, ArmLooks, Disarm,
                     ForceTakes
<1>11. ASSUME NEW u \in Users, NEW s \in Sessions,
       UserSends(u, s) \/ Enqueue(u, s) \/ RemoveItem(u, s) \/ Resume(u, s)
      PROVE Goal
  BY <1>11, <1>6 DEF UserSends, Sends, Enqueue, work, RemoveItem, Resume
<1>12. ASSUME NEW k \in Plans,
       Wake(k) \/ Erase(k) \/ Execute(k)
      PROVE Goal
  BY <1>12, <1>6 DEF Wake, work, Erase, Execute
<1>13. ASSUME NEW u \in Users, Survey(u) PROVE Goal
  BY <1>13, <1>6 DEF Survey, work
<1>14. ASSUME NEW p \in Users \cup Sessions, Drop(p) PROVE Goal
  BY <1>14, <1>6 DEF Drop, work
<1> QED BY <1>1, <1>2, <1>3, <1>4, <1>5, <1>6, <1>7, <1>8, <1>9, <1>10, <1>11, <1>12, <1>13, <1>14
     DEF Next, vars, Continue, Queues, User, Request, Timers, Monitor, Restore

\* A turn is unheard of until the monitor is done with it.
LEMMA UnheardSteps ==
  ASSUME ProcTypes, WorkTypes, GoalInv, Next, NEW t, Unheard(t)
  PROVE  Unheard(t)' \/ (Leave /\ Told) \/ Crash
<1> DEFINE note == <<"started", t>>
<1>1. CASE HandleStarted
  <2>1. job["monitor"].goal = "none" /\ notes # <<>> /\ notes \in Seq(Notes)
    BY <1>1, Names DEF HandleStarted, GoalInv, GoalOf, WorkTypes
  <2>2. note \in Range(notes)
    BY <2>1 DEF Unheard
  <2>3. note = Head(notes) \/ note \in Range(Tail(notes))
    BY <2>1, <2>2, RangeTail
  <2>4. notes' = Tail(notes) /\ Begins("monitor", "cancel", "started", Head(notes)[2])
    BY <1>1 DEF HandleStarted
  <2>5. job'["monitor"].goal = "started" /\ job'["monitor"].on = Head(notes)[2]
    BY <2>4, BegunJob, Names
  <2>6. note = Head(notes) => Head(notes)[2] = t
    OBVIOUS
  <2> QED BY <2>3, <2>4, <2>5, <2>6 DEF Unheard
<1>2. CASE HandleCompleted
  <2>1. job["monitor"].goal = "none" /\ notes # <<>> /\ notes \in Seq(Notes)
    BY <1>2, Names DEF HandleCompleted, GoalInv, GoalOf, WorkTypes
  <2>2. note \in Range(notes)
    BY <2>1 DEF Unheard
  <2>3. note = Head(notes) \/ note \in Range(Tail(notes))
    BY <2>1, <2>2, RangeTail
  <2>4. notes' = Tail(notes) /\ Head(notes)[1] = "completed"
    BY <1>2 DEF HandleCompleted
  <2>5. note # Head(notes)
    BY <2>4
  <2> QED BY <2>3, <2>4, <2>5 DEF Unheard
<1>3. CASE Leave /\ ~Told
  <2>1. note \in Range(notes)
    BY <1>3 DEF Unheard, Told
  <2>2. notes' = notes
    BY <1>3 DEF Leave, work
  <2> QED BY <2>1, <2>2 DEF Unheard
<1>4. ASSUME SameHeard, ~HandleStarted, ~HandleCompleted, ~Crash PROVE Unheard(t)'
  <2>1. note \in Range(notes) => note \in Range(notes')
    BY <1>4, HeardSteps
  <2> QED BY <1>4, <2>1 DEF Unheard, SameHeard
<1> QED BY <1>1, <1>2, <1>3, <1>4, MonitorSteps

\* The steps with which work appears or the shutdown is disarmed.
Breaks ==
  \/ \E u \in Users : Queueing(u) \/ Disarm(u)
  \/ Forget \/ Crash \/ (Leave /\ Told)

\* The shutdown stays wanted until it is disarmed.
LEMMA AfterKept ==
  ASSUME Next
  PROVE  (after => after') \/ Breaks
<1>1. ASSUME NEW u \in Users, Arm(u) PROVE (after => after') \/ Breaks
  BY <1>1 DEF Arm
<1>2. ASSUME NEW u \in Users, Disarm(u) PROVE (after => after') \/ Breaks
  BY <1>2 DEF Breaks
<1>3. ASSUME Forget PROVE (after => after') \/ Breaks
  BY <1>3 DEF Breaks
<1>4. ASSUME UNCHANGED after PROVE (after => after') \/ Breaks
  BY <1>4
<1>5. ASSUME
       HandleStarted \/ HandleCompleted \/ Leave \/ Mark \/ Look \/ Judge \/ Reprime \/
       Unprime \/ Tick \/ Crash
      PROVE (after => after') \/ Breaks
  BY <1>5, <1>4 DEF HandleStarted, disk, HandleCompleted, Leave, Mark, Look, Judge, Reprime,
                    Unprime, Tick, Crash
<1>6. ASSUME NEW p \in Procs,
       Cancel(p) \/ Prime(p) \/ Clear(p) \/ Null(p) \/ Settings(p) \/ Work(p) \/ Turns(p)
       \/ Threads(p) \/ Write(p) \/ Stop(p) \/ Start(p) \/ Ask(p) \/ Answered(p)
      PROVE (after => after') \/ Breaks
  BY <1>6, <1>4 DEF Cancel, disk, Prime, Clear, Null, Settings, Work, Turns, Threads, Write,
                    Stop, Start, Ask, Answered
<1>7. ASSUME NEW s \in Sessions,
       Drain(s) \/ Probe(s) \/ Sent(s) \/ EndTurn(s)
      PROVE (after => after') \/ Breaks
  BY <1>7, <1>4 DEF Drain, disk, Probe, Sends, Sent, EndTurn
<1>8. ASSUME NEW u \in Users,
       Queueing(u) \/ ForceErases(u) \/ ForceExecutes(u) \/ ArmLooks(u) \/ ForceTakes(u)
      PROVE (after => after') \/ Breaks
  BY <1>8, <1>4 DEF Queueing, ForceErases, ForceExecutes, disk, ArmLooks, ForceTakes
<1>9. ASSUME NEW u \in Users, NEW s \in Sessions,
       UserSends(u, s) \/ Enqueue(u, s) \/ RemoveItem(u, s) \/ Resume(u, s)
      PROVE (after => after') \/ Breaks
  BY <1>9, <1>4 DEF UserSends, Sends, disk, Enqueue, RemoveItem, Resume
<1>10. ASSUME NEW k \in Plans,
       Wake(k) \/ Erase(k) \/ Execute(k)
      PROVE (after => after') \/ Breaks
  BY <1>10, <1>4 DEF Wake, disk, Erase, Execute
<1>11. ASSUME NEW u \in Users, Survey(u) PROVE (after => after') \/ Breaks
  BY <1>11, <1>4 DEF Survey, disk
<1>12. ASSUME NEW p \in Users \cup Sessions, Drop(p) PROVE (after => after') \/ Breaks
  BY <1>12, <1>4 DEF Drop, disk
<1> QED BY <1>1, <1>2, <1>3, <1>4, <1>5, <1>6, <1>7, <1>8, <1>9, <1>10, <1>11, <1>12
     DEF Next, vars, Continue, Queues, User, Request, Timers, Monitor, Restore

\* The queues stay empty until an item comes.
LEMMA QueuedKept ==
  ASSUME Next
  PROVE  (queued = {} => queued' = {}) \/ Breaks
<1>1. ASSUME NEW s \in Sessions, Sent(s) PROVE (queued = {} => queued' = {}) \/ Breaks
  BY <1>1 DEF Sent
<1>2. ASSUME NEW u \in Users, Queueing(u) PROVE (queued = {} => queued' = {}) \/ Breaks
  BY <1>2 DEF Breaks
<1>3. ASSUME NEW u \in Users, NEW s \in Sessions, RemoveItem(u, s) PROVE (queued = {} => queued' = {}) \/ Breaks
  BY <1>3 DEF RemoveItem, Asks
<1>4. ASSUME UNCHANGED queued PROVE (queued = {} => queued' = {}) \/ Breaks
  BY <1>4
<1>5. ASSUME
       HandleStarted \/ HandleCompleted \/ Leave \/ Mark \/ Look \/ Forget \/ Judge \/
       Reprime \/ Unprime \/ Tick \/ Crash
      PROVE (queued = {} => queued' = {}) \/ Breaks
  BY <1>5, <1>4 DEF HandleStarted, disk, HandleCompleted, Leave, Mark, Look, Forget, Judge,
                    Reprime, Unprime, Tick, Crash
<1>6. ASSUME NEW p \in Procs,
       Cancel(p) \/ Prime(p) \/ Clear(p) \/ Null(p) \/ Settings(p) \/ Work(p) \/ Turns(p)
       \/ Threads(p) \/ Write(p) \/ Stop(p) \/ Start(p) \/ Ask(p) \/ Answered(p)
      PROVE (queued = {} => queued' = {}) \/ Breaks
  BY <1>6, <1>4 DEF Cancel, disk, Prime, Clear, Null, Settings, Work, Turns, Threads, Write,
                    Stop, Start, Ask, Answered
<1>7. ASSUME NEW s \in Sessions,
       Drain(s) \/ Probe(s) \/ EndTurn(s)
      PROVE (queued = {} => queued' = {}) \/ Breaks
  BY <1>7, <1>4 DEF Drain, disk, Probe, Sends, EndTurn
<1>8. ASSUME NEW u \in Users,
       Arm(u) \/ ForceErases(u) \/ ForceExecutes(u) \/ ArmLooks(u) \/ Disarm(u) \/
       ForceTakes(u)
      PROVE (queued = {} => queued' = {}) \/ Breaks
  BY <1>8, <1>4 DEF Arm, ForceErases, ForceExecutes, disk, ArmLooks, Disarm, ForceTakes
<1>9. ASSUME NEW u \in Users, NEW s \in Sessions,
       UserSends(u, s) \/ Enqueue(u, s) \/ Resume(u, s)
      PROVE (queued = {} => queued' = {}) \/ Breaks
  BY <1>9, <1>4 DEF UserSends, Sends, disk, Enqueue, Resume
<1>10. ASSUME NEW k \in Plans,
       Wake(k) \/ Erase(k) \/ Execute(k)
      PROVE (queued = {} => queued' = {}) \/ Breaks
  BY <1>10, <1>4 DEF Wake, disk, Erase, Execute
<1>11. ASSUME NEW u \in Users, Survey(u) PROVE (queued = {} => queued' = {}) \/ Breaks
  BY <1>11, <1>4 DEF Survey, disk
<1>12. ASSUME NEW p \in Users \cup Sessions, Drop(p) PROVE (queued = {} => queued' = {}) \/ Breaks
  BY <1>12, <1>4 DEF Drop, disk
<1> QED BY <1>1, <1>2, <1>3, <1>4, <1>5, <1>6, <1>7, <1>8, <1>9, <1>10, <1>11, <1>12
     DEF Next, vars, Continue, Queues, User, Request, Timers, Monitor, Restore

\* A turn that begins is noted.
LEMMA RunningKept ==
  ASSUME WorkTypes, Next, NEW t
  PROVE  t \in running' => t \in running \/ <<"started", t>> \in Range(notes')
<1> DEFINE Goal == t \in running' => t \in running \/ <<"started", t>> \in Range(notes')
<1>1. ASSUME NEW p \in Procs, Ask(p) PROVE Goal
  <2>1. \/ running' = running
        \/ running' = running \cup {job[p].on} /\ notes' = Append(notes, <<"started", job[p].on>>)
    BY <1>1 DEF Ask
  <2> QED BY <2>1, RangeAppend DEF WorkTypes
<1>2. ASSUME NEW s \in Sessions, EndTurn(s) PROVE Goal
  BY <1>2 DEF EndTurn
<1>3. ASSUME Crash PROVE Goal
  BY <1>3 DEF Crash
<1>4. ASSUME UNCHANGED running PROVE Goal
  BY <1>4
<1>5. ASSUME
       HandleStarted \/ HandleCompleted \/ Leave \/ Mark \/ Look \/ Forget \/ Judge \/
       Reprime \/ Unprime \/ Tick
      PROVE Goal
  BY <1>5, <1>4 DEF HandleStarted, HandleCompleted, Leave, work, Mark, Look, Forget, Judge,
                    Reprime, Unprime, Tick
<1>6. ASSUME NEW p \in Procs,
       Cancel(p) \/ Prime(p) \/ Clear(p) \/ Null(p) \/ Settings(p) \/ Work(p) \/ Turns(p)
       \/ Threads(p) \/ Write(p) \/ Stop(p) \/ Start(p) \/ Answered(p)
      PROVE Goal
  BY <1>6, <1>4 DEF Cancel, work, Prime, Clear, Null, Settings, Work, Turns, Threads, Write,
                    Stop, Start, Answered
<1>7. ASSUME NEW s \in Sessions,
       Drain(s) \/ Probe(s) \/ Sent(s)
      PROVE Goal
  BY <1>7, <1>4 DEF Drain, work, Probe, Sends, Sent
<1>8. ASSUME NEW u \in Users,
       Queueing(u) \/ Arm(u) \/ ForceErases(u) \/ ForceExecutes(u) \/ ArmLooks(u) \/
       Disarm(u) \/ ForceTakes(u)
      PROVE Goal
  BY <1>8, <1>4 DEF Queueing, work, Arm, ForceErases, ForceExecutes, ArmLooks, Disarm,
                    ForceTakes
<1>9. ASSUME NEW u \in Users, NEW s \in Sessions,
       UserSends(u, s) \/ Enqueue(u, s) \/ RemoveItem(u, s) \/ Resume(u, s)
      PROVE Goal
  BY <1>9, <1>4 DEF UserSends, Sends, Enqueue, work, RemoveItem, Resume
<1>10. ASSUME NEW k \in Plans,
       Wake(k) \/ Erase(k) \/ Execute(k)
      PROVE Goal
  BY <1>10, <1>4 DEF Wake, work, Erase, Execute
<1>11. ASSUME NEW u \in Users, Survey(u) PROVE Goal
  BY <1>11, <1>4 DEF Survey, work
<1>12. ASSUME NEW p \in Users \cup Sessions, Drop(p) PROVE Goal
  BY <1>12, <1>4 DEF Drop, work
<1> QED BY <1>1, <1>2, <1>3, <1>4, <1>5, <1>6, <1>7, <1>8, <1>9, <1>10, <1>11, <1>12
     DEF Next, vars, Continue, Queues, User, Request, Timers, Monitor, Restore

\* Else a calm profile stays calm.
LEMMA CalmKept ==
  ASSUME ProcTypes, WorkTypes, GoalInv, Next, Calm PROVE Calm' \/ Breaks
<1> SUFFICES ASSUME ~Breaks PROVE Calm'
  OBVIOUS
<1>1. after' /\ queued' = {}
  BY AfterKept, QueuedKept DEF Calm
<1>2. ASSUME NEW t \in running' PROVE Unheard(t)'
  <2>1. CASE t \in running
    BY <2>1, UnheardSteps DEF Calm, Breaks
  <2>2. CASE <<"started", t>> \in Range(notes')
    BY <2>2 DEF Unheard
  <2> QED BY <2>1, <2>2, RunningKept
<1> QED BY <1>1, <1>2 DEF Calm

\* When work appears, no plan is believed any more.
LEMMA Breaking ==
  ASSUME Base, LooseLate, ToldInv, Next, Breaks, Calm PROVE Calm' \/ Broken'
<1> USE DEF Base
<1>1. ASSUME NEW u \in Users, Queueing(u) PROVE Broken'
  <2>1. /\ plan' = plan /\ armed' = armed /\ firing' = firing
        /\ late' = late \cup Timer \cup ({plan} \ {0}) \cup Half \cup Fired
    BY <1>1 DEF Queueing, timers
  <2>2. \A p \in Procs : pc'[p] \in {"threads", "write"} => job'[p].over
    BY <1>1, QueueingMoves DEF Overtakes, Trusting
  <2>3. Fired' \subseteq late' /\ Half \subseteq late' /\ plan' \in late' \cup {0} /\ armed' \in late' \cup {0}
    BY <2>1 DEF Fired, Timer
  <2> QED BY <2>2, <2>3, HalfLate DEF Broken, CalledOff, Gone
<1>2. ASSUME NEW u \in Users, Disarm(u) PROVE Broken'
  <2>1. plan' = 0 /\ firing' = firing /\ late' = late \cup Half \cup Fired
    BY <1>2 DEF Disarm, timers
  <2>2. \A p \in Procs : pc'[p] \in {"threads", "write"} => job'[p].over
    BY <1>2, DisarmMoves DEF Overtakes, Trusting
  <2>3. Fired' \subseteq late' /\ Half \subseteq late' /\ plan' \in late' \cup {0}
    BY <2>1 DEF Fired
  <2>4. Clearing'
    BY <1>2, DisarmMoves, Names DEF Clearing
  <2> QED BY <2>2, <2>3, <2>4, HalfLate DEF Broken, CalledOff, Gone
<1>3. ASSUME Forget PROVE Broken'
  <2>1. /\ plan' = 0 /\ armed' = armed /\ firing' = firing
        /\ late' = late \cup Timer \cup Half \cup Fired
    BY <1>3 DEF Forget, timers
  <2>2. \A p \in Procs : pc'[p] \in {"threads", "write"} => job'[p].over
    BY <1>3, ForgetMoves DEF Overtakes, Trusting
  <2>3. Fired' \subseteq late' /\ Half \subseteq late' /\ plan' \in late' \cup {0} /\ armed' \in late' \cup {0}
    BY <2>1 DEF Fired, Timer
  <2> QED BY <2>2, <2>3, HalfLate DEF Broken, CalledOff, Gone
<1>4. ASSUME Crash PROVE Calm' \/ Broken'
  <2>1. /\ plan' = plan /\ armed' = 0 /\ firing' = [k \in Plans |-> "no"]
        /\ \A p \in Procs : pc'[p] \in {"mark", "idle"}
        /\ after' = after /\ queued' = queued
    BY <1>4 DEF Crash, disk
  <2>2. running' = {} \/ late' = late \cup ({plan} \ {0})
    BY <1>4 DEF Crash
  <2>3. ASSUME running' = {} PROVE Calm'
    BY <2>1, <2>3 DEF Calm
  <2>4. ASSUME late' = late \cup ({plan} \ {0}) PROVE Broken'
    BY <2>1, <2>4 DEF Broken, CalledOff, Gone, Fired, Half, Making
  <2> QED BY <2>2, <2>3, <2>4
<1>5. ASSUME Leave, Told PROVE Broken'
  <2>1. /\ pc["monitor"] = "leave" /\ pc' = [pc EXCEPT !["monitor"] = "idle"]
        /\ job' = [job EXCEPT !["monitor"] = NoJob]
        /\ plan' = plan /\ armed' = armed /\ firing' = firing /\ late' = late
    BY <1>5 DEF Leave, disk, timers
  <2>2. CalledOff /\ Gone
    BY <1>5, <2>1 DEF ToldInv
  <2>3. \A p \in Procs : p # "monitor" => pc'[p] = pc[p] /\ job'[p] = job[p]
    BY <2>1 DEF ProcTypes
  <2>4. pc'["monitor"] = "idle"
    BY <2>1, Names DEF ProcTypes
  <2>5. CalledOff'
    BY <2>1, <2>2, <2>3, <2>4 DEF CalledOff, Fired
  <2>6. Clearing => Clearing'
    BY <2>1, <2>3 DEF Clearing
  <2>7. Half' \subseteq late'
    BY <2>1, <2>2, HalfLate DEF Gone
  <2> QED BY <2>1, <2>2, <2>5, <2>6, <2>7 DEF Broken, Gone
<1> QED BY <1>1, <1>2, <1>3, <1>4, <1>5 DEF Breaks

\* The calm lasts until work is heard of or the users change their mind.
LEMMA CalmSteps ==
  ASSUME Base, LooseLate, ToldInv, Next, Calm PROVE Calm' \/ Broken'
  BY CalmKept, Breaking DEF Base

\* A scheduler that nobody has overtaken saw what it acts on.
LookOf(p) ==
  ~job[p].over =>
    /\ pc[p] \in {"work", "turns", "threads", "write"} => after
    /\ pc[p] \in {"turns", "threads", "write"} => queued = {}
    /\ pc[p] = "write" => Calm
LookInv == \A p \in Procs : LookOf(p)

\* It goes on by what it sees.
Looks(p) ==
  ~job'[p].over =>
    /\ pc'[p] \in {"work", "turns", "threads", "write"} => after
    /\ pc'[p] \in {"turns", "threads", "write"} => queued = {}
    /\ pc'[p] = "write" => Calm
\* None gets past a turn that is listed.
Passes(p) ==
  /\ pc'[p] \in {"threads", "write"} =>
       (pc[p] \in {"threads", "write"} /\ (job[p].over => job'[p].over)) \/ active = {}

\* Where a scheduler goes on, it saw no work.
LEMMA LookMoves ==
  ASSUME ProcTypes, NEW q \in Procs, LookOf(q), Next
  PROVE  Looks(q)
<1>1. job[q] \in Job /\ pc[q] \in Steps
  BY DEF ProcTypes
<1>2. ASSUME NEW p \in Procs, Cancel(p) PROVE Looks(q)
  <2>1. CASE q = p
    BY <1>2, <2>1, CancelMoves, Names DEF Looks, Then
  <2>2. CASE q # p
    <3>1. pc'[q] = pc[q] /\ (job[q].over => job'[q].over)
      BY <1>2, <2>2, CancelMoves DEF Overtakes
    <3> QED BY <3>1 DEF Looks, LookOf
  <2> QED BY <2>1, <2>2
<1>3. ASSUME NEW p \in Procs, Prime(p) PROVE Looks(q)
  BY <1>3, <1>1, Names DEF Prime, Then, ProcTypes, Job, Looks, LookOf
<1>4. ASSUME NEW p \in Procs, Clear(p) PROVE Looks(q)
  BY <1>4, <1>1, Names DEF Clear, Goes, ProcTypes, Job, Looks, LookOf
<1>5. ASSUME NEW p \in Procs, Null(p) PROVE Looks(q)
  BY <1>5, <1>1, Names DEF Null, Goes, Then, ProcTypes, Job, Looks, LookOf
<1>6. ASSUME NEW p \in Procs, Settings(p) PROVE Looks(q)
  BY <1>6, <1>1, Names DEF Settings, Goes, ProcTypes, Job, Looks, LookOf
<1>7. ASSUME NEW p \in Procs, Work(p) PROVE Looks(q)
  BY <1>7, <1>1, Names DEF Work, Goes, ProcTypes, Job, Looks, LookOf
<1>8. ASSUME NEW p \in Procs, Turns(p) PROVE Looks(q)
  BY <1>8, <1>1, Names DEF Turns, Goes, ProcTypes, Job, Looks, LookOf
<1>9. ASSUME NEW p \in Procs, Threads(p) PROVE Looks(q)
  BY <1>9, <1>1, Names DEF Threads, Goes, Calm, ProcTypes, Job, Looks, LookOf
<1>10. ASSUME NEW p \in Procs, Write(p) PROVE Looks(q)
  BY <1>10, <1>1, Names DEF Write, Goes, ProcTypes, Job, Looks, LookOf
<1>11. ASSUME NEW p \in Procs, Stop(p) PROVE Looks(q)
  BY <1>11, <1>1, Names DEF Stop, Goes, ProcTypes, Job, Looks, LookOf
<1>12. ASSUME NEW p \in Procs, Start(p) PROVE Looks(q)
  BY <1>12, <1>1, Names DEF Start, Goes, ProcTypes, Job, Looks, LookOf
<1>13. ASSUME NEW p \in Procs, Ask(p) PROVE Looks(q)
  BY <1>13, <1>1, Names DEF Ask, Goes, ProcTypes, Job, Looks, LookOf
<1>14. ASSUME NEW p \in Procs, Answered(p) PROVE Looks(q)
  BY <1>14, <1>1, Names DEF Answered, Goes, ProcTypes, Job, Looks, LookOf
<1>15. ASSUME NEW s \in Sessions, Drain(s) PROVE Looks(q)
  BY <1>15, <1>1, Names DEF Drain, Begins, ProcTypes, Job, Looks, LookOf
<1>16. ASSUME NEW s \in Sessions, Probe(s) PROVE Looks(q)
  BY <1>16, <1>1, Names DEF Probe, Goes, Sends, Begins, ProcTypes, Job, Looks, LookOf
<1>17. ASSUME NEW s \in Sessions, Sent(s) PROVE Looks(q)
  BY <1>17, <1>1, Names DEF Sent, Goes, ProcTypes, Job, Looks, LookOf
<1>18. ASSUME NEW u \in Users, Queueing(u) PROVE Looks(q)
  <2>1. CASE q = u
    BY <1>18, <2>1, QueueingMoves, Names DEF Looks, Then
  <2>2. CASE q # u
    <3>1. pc'[q] = pc[q] /\ (job[q].over => job'[q].over)
      BY <1>18, <2>2, QueueingMoves DEF Overtakes
    <3> QED BY <3>1 DEF Looks, LookOf
  <2> QED BY <2>1, <2>2
<1>19. ASSUME NEW u \in Users, Arm(u) PROVE Looks(q)
  BY <1>19, <1>1, Names DEF Arm, Goes, ProcTypes, Job, Looks, LookOf
<1>20. ASSUME NEW u \in Users, ForceErases(u) PROVE Looks(q)
  BY <1>20, <1>1, Names DEF ForceErases, Goes, ProcTypes, Job, Looks, LookOf
<1>21. ASSUME NEW u \in Users, ForceExecutes(u) PROVE Looks(q)
  BY <1>21, <1>1, Names DEF ForceExecutes, Goes, ProcTypes, Job, Looks, LookOf
<1>22. ASSUME NEW u \in Users, ArmLooks(u) PROVE Looks(q)
  BY <1>22, <1>1, Names DEF ArmLooks, ProcTypes, Job, Looks, LookOf
<1>23. ASSUME NEW u \in Users, Disarm(u) PROVE Looks(q)
  <2>1. CASE q = u
    BY <1>23, <2>1, DisarmMoves, Names DEF Looks, Then
  <2>2. CASE q # u
    <3>1. pc'[q] = pc[q] /\ (job[q].over => job'[q].over)
      BY <1>23, <2>2, DisarmMoves DEF Overtakes
    <3> QED BY <3>1 DEF Looks, LookOf
  <2> QED BY <2>1, <2>2
<1>24. ASSUME NEW u \in Users, ForceTakes(u) PROVE Looks(q)
  BY <1>24, <1>1, Names DEF ForceTakes, Begins, ProcTypes, Job, Looks, LookOf
<1>25. ASSUME NEW u \in Users, NEW s \in Sessions, UserSends(u, s) PROVE Looks(q)
  BY <1>25, <1>1, Names DEF UserSends, Sends, Begins, ProcTypes, Job, Looks, LookOf
<1>26. ASSUME NEW u \in Users, NEW s \in Sessions, Enqueue(u, s) PROVE Looks(q)
  BY <1>26, <1>1, Names DEF Enqueue, Begins, ProcTypes, Job, Looks, LookOf
<1>27. ASSUME NEW u \in Users, NEW s \in Sessions, RemoveItem(u, s) PROVE Looks(q)
  BY <1>27, <1>1, Names DEF RemoveItem, Begins, ProcTypes, Job, Looks, LookOf
<1>28. ASSUME HandleStarted PROVE Looks(q)
  BY <1>28, <1>1, Names DEF HandleStarted, Begins, ProcTypes, Job, Looks, LookOf
<1>29. ASSUME HandleCompleted PROVE Looks(q)
  BY <1>29, <1>1, Names DEF HandleCompleted, Begins, ProcTypes, Job, Looks, LookOf
<1>30. ASSUME Leave PROVE Looks(q)
  BY <1>30, <1>1, Names DEF Leave, ProcTypes, Job, Looks, LookOf
<1>31. ASSUME Mark PROVE Looks(q)
  BY <1>31, <1>1, Names DEF Mark, Goes, ProcTypes, Job, Looks, LookOf
<1>32. ASSUME Look PROVE Looks(q)
  BY <1>32, <1>1, Names DEF Look, Goes, ProcTypes, Job, Looks, LookOf
<1>33. ASSUME Forget PROVE Looks(q)
  <2>1. CASE q = "restore"
    BY <1>33, <2>1, ForgetMoves, Names DEF Looks, Then
  <2>2. CASE q # "restore"
    <3>1. pc'[q] = pc[q] /\ (job[q].over => job'[q].over)
      BY <1>33, <2>2, ForgetMoves DEF Overtakes
    <3> QED BY <3>1 DEF Looks, LookOf
  <2> QED BY <2>1, <2>2
<1>34. ASSUME Judge PROVE Looks(q)
  BY <1>34, <1>1, Names DEF Judge, Goes, ProcTypes, Job, Looks, LookOf
<1>35. ASSUME Reprime PROVE Looks(q)
  BY <1>35, <1>1, Names DEF Reprime, Goes, ProcTypes, Job, Looks, LookOf
<1>36. ASSUME Unprime PROVE Looks(q)
  BY <1>36, <1>1, Names DEF Unprime, Goes, ProcTypes, Job, Looks, LookOf
<1>37. ASSUME Crash PROVE Looks(q)
  BY <1>37, <1>1, Names DEF Crash, ProcTypes, Job, Looks, LookOf
<1>38. ASSUME UNCHANGED <<pc, job>> PROVE Looks(q)
  BY <1>38, <1>1, Names DEF ProcTypes, Job, Looks, LookOf
<1>39. ASSUME
       Tick
      PROVE Looks(q)
  BY <1>39, <1>38 DEF Tick
<1>40. ASSUME NEW s \in Sessions,
       EndTurn(s)
      PROVE Looks(q)
  BY <1>40, <1>38 DEF EndTurn
<1>41. ASSUME NEW u \in Users, NEW s \in Sessions,
       Resume(u, s)
      PROVE Looks(q)
  BY <1>41, <1>38 DEF Resume
<1>42. ASSUME NEW k \in Plans,
       Wake(k) \/ Erase(k) \/ Execute(k)
      PROVE Looks(q)
  BY <1>42, <1>38 DEF Wake, Erase, Execute
<1>43. ASSUME NEW u \in Users, Survey(u) PROVE Looks(q)
  BY <1>43, <1>1, SurveyMoves, Names DEF Looks, LookOf
<1>44. ASSUME NEW p \in Users \cup Sessions, Drop(p) PROVE Looks(q)
  BY <1>44, <1>1, DropMoves, Names DEF Looks, LookOf
<1> QED BY <1>2, <1>3, <1>4, <1>5, <1>6, <1>7, <1>8, <1>9, <1>10, <1>11, <1>12, <1>13, <1>14,
           <1>15, <1>16, <1>17, <1>18, <1>19, <1>20, <1>21, <1>22, <1>23, <1>24, <1>25,
           <1>26, <1>27, <1>28, <1>29, <1>30, <1>31, <1>32, <1>33, <1>34, <1>35, <1>36,
           <1>37, <1>38, <1>39, <1>40, <1>41, <1>42, <1>43, <1>44
     DEF Next, vars, Continue, Queues, User, Request, Timers, Monitor, Restore

\* Nor a turn that is listed.
LEMMA PassMoves ==
  ASSUME ProcTypes, Next, NEW q \in Procs
  PROVE  Passes(q)
<1>1. job[q] \in Job /\ pc[q] \in Steps
  BY DEF ProcTypes
<1>2. ASSUME NEW p \in Procs, Cancel(p) PROVE Passes(q)
  <2>1. CASE q = p
    BY <1>2, <2>1, CancelMoves, Names DEF Passes, Then
  <2>2. CASE q # p
    <3>1. pc'[q] = pc[q] /\ (job[q].over => job'[q].over)
      BY <1>2, <2>2, CancelMoves DEF Overtakes
    <3> QED BY <3>1 DEF Passes, LookOf
  <2> QED BY <2>1, <2>2
<1>3. ASSUME NEW p \in Procs, Prime(p) PROVE Passes(q)
  BY <1>3, <1>1, Names DEF Prime, Then, ProcTypes, Job, Passes
<1>4. ASSUME NEW p \in Procs, Clear(p) PROVE Passes(q)
  BY <1>4, <1>1, Names DEF Clear, Goes, ProcTypes, Job, Passes
<1>5. ASSUME NEW p \in Procs, Null(p) PROVE Passes(q)
  BY <1>5, <1>1, Names DEF Null, Goes, Then, ProcTypes, Job, Passes
<1>6. ASSUME NEW p \in Procs, Settings(p) PROVE Passes(q)
  BY <1>6, <1>1, Names DEF Settings, Goes, ProcTypes, Job, Passes
<1>7. ASSUME NEW p \in Procs, Work(p) PROVE Passes(q)
  BY <1>7, <1>1, Names DEF Work, Goes, ProcTypes, Job, Passes
<1>8. ASSUME NEW p \in Procs, Turns(p) PROVE Passes(q)
  BY <1>8, <1>1, Names DEF Turns, Goes, ProcTypes, Job, Passes
<1>9. ASSUME NEW p \in Procs, Threads(p) PROVE Passes(q)
  BY <1>9, <1>1, Names DEF Threads, Goes, ProcTypes, Job, Passes
<1>10. ASSUME NEW p \in Procs, Write(p) PROVE Passes(q)
  BY <1>10, <1>1, Names DEF Write, Goes, ProcTypes, Job, Passes
<1>11. ASSUME NEW p \in Procs, Stop(p) PROVE Passes(q)
  BY <1>11, <1>1, Names DEF Stop, Goes, ProcTypes, Job, Passes
<1>12. ASSUME NEW p \in Procs, Start(p) PROVE Passes(q)
  BY <1>12, <1>1, Names DEF Start, Goes, ProcTypes, Job, Passes
<1>13. ASSUME NEW p \in Procs, Ask(p) PROVE Passes(q)
  BY <1>13, <1>1, Names DEF Ask, Goes, ProcTypes, Job, Passes
<1>14. ASSUME NEW p \in Procs, Answered(p) PROVE Passes(q)
  BY <1>14, <1>1, Names DEF Answered, Goes, ProcTypes, Job, Passes
<1>15. ASSUME NEW s \in Sessions, Drain(s) PROVE Passes(q)
  BY <1>15, <1>1, Names DEF Drain, Begins, ProcTypes, Job, Passes
<1>16. ASSUME NEW s \in Sessions, Probe(s) PROVE Passes(q)
  BY <1>16, <1>1, Names DEF Probe, Goes, Sends, Begins, ProcTypes, Job, Passes
<1>17. ASSUME NEW s \in Sessions, Sent(s) PROVE Passes(q)
  BY <1>17, <1>1, Names DEF Sent, Goes, ProcTypes, Job, Passes
<1>18. ASSUME NEW u \in Users, Queueing(u) PROVE Passes(q)
  <2>1. CASE q = u
    BY <1>18, <2>1, QueueingMoves, Names DEF Passes, Then
  <2>2. CASE q # u
    <3>1. pc'[q] = pc[q] /\ (job[q].over => job'[q].over)
      BY <1>18, <2>2, QueueingMoves DEF Overtakes
    <3> QED BY <3>1 DEF Passes, LookOf
  <2> QED BY <2>1, <2>2
<1>19. ASSUME NEW u \in Users, Arm(u) PROVE Passes(q)
  BY <1>19, <1>1, Names DEF Arm, Goes, ProcTypes, Job, Passes
<1>20. ASSUME NEW u \in Users, ForceErases(u) PROVE Passes(q)
  BY <1>20, <1>1, Names DEF ForceErases, Goes, ProcTypes, Job, Passes
<1>21. ASSUME NEW u \in Users, ForceExecutes(u) PROVE Passes(q)
  BY <1>21, <1>1, Names DEF ForceExecutes, Goes, ProcTypes, Job, Passes
<1>22. ASSUME NEW u \in Users, ArmLooks(u) PROVE Passes(q)
  BY <1>22, <1>1, Names DEF ArmLooks, ProcTypes, Job, Passes
<1>23. ASSUME NEW u \in Users, Disarm(u) PROVE Passes(q)
  <2>1. CASE q = u
    BY <1>23, <2>1, DisarmMoves, Names DEF Passes, Then
  <2>2. CASE q # u
    <3>1. pc'[q] = pc[q] /\ (job[q].over => job'[q].over)
      BY <1>23, <2>2, DisarmMoves DEF Overtakes
    <3> QED BY <3>1 DEF Passes, LookOf
  <2> QED BY <2>1, <2>2
<1>24. ASSUME NEW u \in Users, ForceTakes(u) PROVE Passes(q)
  BY <1>24, <1>1, Names DEF ForceTakes, Begins, ProcTypes, Job, Passes
<1>25. ASSUME NEW u \in Users, NEW s \in Sessions, UserSends(u, s) PROVE Passes(q)
  BY <1>25, <1>1, Names DEF UserSends, Sends, Begins, ProcTypes, Job, Passes
<1>26. ASSUME NEW u \in Users, NEW s \in Sessions, Enqueue(u, s) PROVE Passes(q)
  BY <1>26, <1>1, Names DEF Enqueue, Begins, ProcTypes, Job, Passes
<1>27. ASSUME NEW u \in Users, NEW s \in Sessions, RemoveItem(u, s) PROVE Passes(q)
  BY <1>27, <1>1, Names DEF RemoveItem, Begins, ProcTypes, Job, Passes
<1>28. ASSUME HandleStarted PROVE Passes(q)
  BY <1>28, <1>1, Names DEF HandleStarted, Begins, ProcTypes, Job, Passes
<1>29. ASSUME HandleCompleted PROVE Passes(q)
  BY <1>29, <1>1, Names DEF HandleCompleted, Begins, ProcTypes, Job, Passes
<1>30. ASSUME Leave PROVE Passes(q)
  BY <1>30, <1>1, Names DEF Leave, ProcTypes, Job, Passes
<1>31. ASSUME Mark PROVE Passes(q)
  BY <1>31, <1>1, Names DEF Mark, Goes, ProcTypes, Job, Passes
<1>32. ASSUME Look PROVE Passes(q)
  BY <1>32, <1>1, Names DEF Look, Goes, ProcTypes, Job, Passes
<1>33. ASSUME Forget PROVE Passes(q)
  <2>1. CASE q = "restore"
    BY <1>33, <2>1, ForgetMoves, Names DEF Passes, Then
  <2>2. CASE q # "restore"
    <3>1. pc'[q] = pc[q] /\ (job[q].over => job'[q].over)
      BY <1>33, <2>2, ForgetMoves DEF Overtakes
    <3> QED BY <3>1 DEF Passes, LookOf
  <2> QED BY <2>1, <2>2
<1>34. ASSUME Judge PROVE Passes(q)
  BY <1>34, <1>1, Names DEF Judge, Goes, ProcTypes, Job, Passes
<1>35. ASSUME Reprime PROVE Passes(q)
  BY <1>35, <1>1, Names DEF Reprime, Goes, ProcTypes, Job, Passes
<1>36. ASSUME Unprime PROVE Passes(q)
  BY <1>36, <1>1, Names DEF Unprime, Goes, ProcTypes, Job, Passes
<1>37. ASSUME Crash PROVE Passes(q)
  BY <1>37, <1>1, Names DEF Crash, ProcTypes, Job, Passes
<1>38. ASSUME UNCHANGED <<pc, job>> PROVE Passes(q)
  BY <1>38, <1>1, Names DEF ProcTypes, Job, Passes
<1>39. ASSUME
       Tick
      PROVE Passes(q)
  BY <1>39, <1>38 DEF Tick
<1>40. ASSUME NEW s \in Sessions,
       EndTurn(s)
      PROVE Passes(q)
  BY <1>40, <1>38 DEF EndTurn
<1>41. ASSUME NEW u \in Users, NEW s \in Sessions,
       Resume(u, s)
      PROVE Passes(q)
  BY <1>41, <1>38 DEF Resume
<1>42. ASSUME NEW k \in Plans,
       Wake(k) \/ Erase(k) \/ Execute(k)
      PROVE Passes(q)
  BY <1>42, <1>38 DEF Wake, Erase, Execute
<1>43. ASSUME NEW u \in Users, Survey(u) PROVE Passes(q)
  BY <1>43, SurveyMoves, Names DEF Passes
<1>44. ASSUME NEW p \in Users \cup Sessions, Drop(p) PROVE Passes(q)
  BY <1>44, DropMoves, Names DEF Passes
<1> QED BY <1>2, <1>3, <1>4, <1>5, <1>6, <1>7, <1>8, <1>9, <1>10, <1>11, <1>12, <1>13, <1>14,
           <1>15, <1>16, <1>17, <1>18, <1>19, <1>20, <1>21, <1>22, <1>23, <1>24, <1>25,
           <1>26, <1>27, <1>28, <1>29, <1>30, <1>31, <1>32, <1>33, <1>34, <1>35, <1>36,
           <1>37, <1>38, <1>39, <1>40, <1>41, <1>42, <1>43, <1>44
     DEF Next, vars, Continue, Queues, User, Request, Timers, Monitor, Restore

\* LookInv is inductive.
LEMMA LookSteps ==
  ASSUME Base, LooseLate, ToldInv, LookInv, Next, NEW q \in Procs PROVE LookOf(q)'
<1>1. LookOf(q) /\ Looks(q)
  BY LookMoves DEF LookInv, Base
<1>2. ASSUME ~Breaks PROVE LookOf(q)'
  <2>1. (after => after') /\ (queued = {} => queued' = {}) /\ (Calm => Calm')
    BY <1>2, AfterKept, QueuedKept, CalmKept DEF Base
  <2> QED BY <1>1, <2>1 DEF Looks, LookOf
<1>3. ASSUME NEW u \in Users, Queueing(u) PROVE LookOf(q)'
  <2>1. after' = after
    BY <1>3 DEF Queueing
  <2>2. pc'[q] \in Trusting => job'[q].over
    BY <1>3, QueueingMoves DEF Overtakes, Trusting, Base
  <2> QED BY <1>1, <2>1, <2>2 DEF Looks, LookOf, Trusting
<1>4. ASSUME NEW u \in Users, Disarm(u) PROVE LookOf(q)'
  <2>1. pc'[q] \in Trusting \cup {"work"} => job'[q].over
    BY <1>4, DisarmMoves DEF Overtakes, Trusting, Base
  <2> QED BY <2>1 DEF LookOf, Trusting
<1>5. ASSUME Forget PROVE LookOf(q)'
  <2>1. pc'[q] \in Trusting \cup {"work"} => job'[q].over
    BY <1>5, ForgetMoves DEF Overtakes, Trusting, Base
  <2> QED BY <2>1 DEF LookOf, Trusting
<1>6. ASSUME Crash PROVE LookOf(q)'
  <2>1. pc'[q] \in {"mark", "idle"}
    BY <1>6 DEF Crash
  <2> QED BY <2>1 DEF LookOf
<1>7. ASSUME Leave, Told PROVE LookOf(q)'
  <2>1. pc["monitor"] = "leave" /\ after' = after /\ queued' = queued
    BY <1>7 DEF Leave, disk
  <2>2. CalledOff
    BY <1>7, <2>1 DEF ToldInv
  <2>3. q # "monitor" => pc'[q] = pc[q] /\ job'[q] = job[q]
    BY <1>7 DEF Leave, Base, ProcTypes
  <2>4. q = "monitor" => pc'[q] = "idle"
    BY <1>7 DEF Leave, Base, ProcTypes
  <2> QED BY <1>1, <2>1, <2>2, <2>3, <2>4 DEF LookOf, CalledOff
<1> QED BY <1>2, <1>3, <1>4, <1>5, <1>6, <1>7 DEF Breaks

FiredCalm == Fired \subseteq late \/ Calm
HalfCalm  == Half \subseteq late \/ (Calm /\ plan # 0)
PlanCalm  == plan \in late \cup {0} \/ Calm
ArmedCalm == armed \in late \cup {0} \/ Clearing \/ (Calm /\ plan # 0)
NullInv   == Nulling => armed \in late \cup {0}

CalmInv ==
  /\ Base /\ LockInv /\ LooseLate /\ LookInv /\ ToldInv
  /\ FiredCalm /\ HalfCalm /\ PlanCalm /\ ArmedCalm /\ NullInv

\* FiredCalm is inductive over the rest.
LEMMA FiredCalmSteps ==
  ASSUME CalmInv, Next PROVE FiredCalm'
<1> USE DEF CalmInv
<1>1. SUFFICES ASSUME NEW n \in Plans, firing'[n] # "no", n \notin late' PROVE Calm'
  BY DEF FiredCalm, Fired
<1>2. n \notin late /\ n # 0
  BY <1>1, LateGrows DEF Plans
<1>3. Calm
  <2>1. CASE firing[n] # "no"
    BY <1>2, <2>1 DEF FiredCalm, Fired
  <2>2. CASE armed = n /\ ~Calling
    BY <1>2, <2>2 DEF ArmedCalm, Calling, Clearing
  <2> QED BY <1>1, <2>1, <2>2, FiredSteps DEF Base
<1>4. ~Broken'
  BY <1>1 DEF Broken, CalledOff, Fired
<1> QED BY <1>3, <1>4, CalmSteps

\* So is PlanCalm.
LEMMA PlanCalmSteps ==
  ASSUME CalmInv, Next PROVE PlanCalm'
<1> USE DEF CalmInv
<1>1. Calm => PlanCalm'
  BY CalmSteps DEF PlanCalm, Broken, Gone
<1>2. CASE plan' = plan
  BY <1>1, <1>2, LateGrows DEF PlanCalm
<1>3. CASE plan' = 0
  BY <1>3 DEF PlanCalm
<1>4. ASSUME NEW q \in Procs, pc[q] = "write", job[q].over => plan' \in late' PROVE PlanCalm'
  BY <1>1, <1>4 DEF PlanCalm, LookInv, LookOf
<1> QED BY <1>2, <1>3, <1>4, PlanChanges DEF PlanChange, Base

\* So is HalfCalm.
LEMMA HalfCalmSteps ==
  ASSUME CalmInv, Next PROVE HalfCalm'
<1> USE DEF CalmInv
<1>1. ASSUME Calm, plan' # 0 PROVE HalfCalm'
  BY <1>1, CalmSteps DEF HalfCalm, Broken, Gone
<1>2. ASSUME Half \subseteq late', plan' \in late' \cup {0} PROVE HalfCalm'
  BY <1>2, HalfLate DEF HalfCalm, Base
<1>3. CASE plan' = plan
  BY <1>1, <1>2, <1>3, LateGrows DEF HalfCalm, PlanCalm
<1>4. CASE plan' = 0 /\ Half \subseteq late'
  BY <1>2, <1>4
<1>5. ASSUME NEW q \in Procs, pc[q] = "write", job[q].over => plan' \in late', plan' \in Plans
      PROVE  HalfCalm'
  <2>1. plan' # 0
    BY <1>5 DEF Plans
  <2>2. ~job[q].over => Calm
    BY <1>5 DEF LookInv, LookOf
  <2> QED BY <1>1, <1>2, <1>5, <2>1, <2>2, LateGrows DEF HalfCalm
<1> QED BY <1>3, <1>4, <1>5, PlanChanges DEF PlanChange, Base

\* A call-off that has let go of the timer leaves none.
LEMMA ClearingEnds ==
  ASSUME Base, Next, Clearing PROVE Clearing' \/ armed' = 0 \/ Timer \subseteq late'
<1>1. PICK q \in Procs : pc[q] = "clear" /\ job[q].goal = "disarm"
  BY DEF Clearing
<1> QED BY <1>1, CallOffSteps DEF CallOff, Clearing, Base

\* A plan that is started is one that was held.
LEMMA StartedHeld ==
  ASSUME NEW q \in Procs, pc[q] = "start" PROVE job[q].plan \in Half \cup {0}
  BY DEF Half, Making

\* NullInv is inductive over the rest.
LEMMA NullSteps ==
  ASSUME CalmInv, Next PROVE NullInv'
<1> USE DEF CalmInv
<1> SUFFICES ASSUME NEW q \in Procs, pc'[q] = "null" PROVE armed' \in late' \cup {0}
  BY DEF NullInv, Nulling
<1>1. pc[q] = "null" \/ armed' = 0
  BY CallOffSteps DEF CallOff, Base
<1>2. ASSUME Nulling PROVE armed' \in late' \cup {0}
  BY <1>2, ArmedChanges, LateGrows DEF ArmedChange, NullInv
<1> QED BY <1>1, <1>2 DEF Nulling

\* ArmedCalm is inductive over the rest.
LEMMA ArmedCalmSteps ==
  ASSUME CalmInv, Next PROVE ArmedCalm'
<1> USE DEF CalmInv
<1>1. CASE armed' = 0
  BY <1>1 DEF ArmedCalm
<1>2. CASE armed' = armed
  <2>1. armed \in late \cup {0} => ArmedCalm'
    BY <1>2, LateGrows DEF ArmedCalm
  <2>2. Timer \subseteq late' => armed' \in late' \cup {0}
    BY <1>2 DEF Timer
  <2>4. Clearing => ArmedCalm'
    BY <2>2, ClearingEnds DEF ArmedCalm
  <2>3. ASSUME Calm, plan # 0, armed \notin late \cup {0} PROVE ArmedCalm'
    <3>1. ~Nulling
      BY <2>3 DEF NullInv
    <3>2. PICK k : k = armed /\ (Timer \subseteq late' => k \in late')
      BY <2>3 DEF Timer
    <3>3. CASE plan' = 0
      BY <1>2, <2>3, <3>1, <3>2, <3>3, PlanChanges DEF PlanChange, ArmedCalm, Plans, Base
    <3>4. CASE plan' # 0
      BY <2>3, <3>4, CalmSteps DEF ArmedCalm, Broken, Gone
    <3> QED BY <3>3, <3>4
  <2> QED BY <2>1, <2>3, <2>4 DEF ArmedCalm
<1>3. ASSUME NEW q \in Procs, pc[q] = "start", armed' = job[q].plan PROVE ArmedCalm'
  <2>1. armed' \in Half \cup {0}
    BY <1>3, StartedHeld
  <2>2. CASE Half \subseteq late
    BY <2>1, <2>2, LateGrows DEF ArmedCalm
  <2>3. CASE Calm /\ plan # 0
    <3>1. CASE plan' = 0
      BY <2>1, <2>3, <3>1, PlanChanges DEF PlanChange, ArmedCalm, Plans, Base
    <3>2. CASE plan' # 0
      BY <2>3, <3>2, CalmSteps DEF ArmedCalm, Broken, Gone
    <3> QED BY <3>1, <3>2
  <2> QED BY <2>2, <2>3 DEF HalfCalm
<1> QED BY <1>1, <1>2, <1>3, ArmedChanges DEF ArmedChange

\* A turn is listed while its session is locked.
LEMMA ActiveKept ==
  ASSUME Next, NEW t
  PROVE  (t \in active /\ lock[t] # None => t \in active') \/ HandleCompleted \/ Crash
<1> DEFINE Goal == (t \in active /\ lock[t] # None => t \in active') \/ HandleCompleted \/ Crash
<1>1. ASSUME NEW p \in Procs, Answered(p) PROVE Goal
  BY <1>1 DEF Answered
<1>2. ASSUME NEW s \in Sessions, Probe(s) PROVE Goal
  BY <1>2 DEF Probe, Sends
<1>3. ASSUME NEW u \in Users, NEW s \in Sessions, UserSends(u, s) PROVE Goal
  BY <1>3 DEF UserSends, Sends
<1>4. ASSUME HandleStarted PROVE Goal
  BY <1>4 DEF HandleStarted
<1>5. ASSUME HandleCompleted PROVE Goal
  BY <1>5
<1>6. ASSUME Crash PROVE Goal
  BY <1>6
<1>7. ASSUME UNCHANGED active PROVE Goal
  BY <1>7
<1>8. ASSUME
       Leave \/ Mark \/ Look \/ Forget \/ Judge \/ Reprime \/ Unprime \/ Tick
      PROVE Goal
  BY <1>8, <1>7 DEF Leave, work, Mark, Look, Forget, Judge, Reprime, Unprime, Tick
<1>9. ASSUME NEW p \in Procs,
       Cancel(p) \/ Prime(p) \/ Clear(p) \/ Null(p) \/ Settings(p) \/ Work(p) \/ Turns(p)
       \/ Threads(p) \/ Write(p) \/ Stop(p) \/ Start(p) \/ Ask(p)
      PROVE Goal
  BY <1>9, <1>7 DEF Cancel, work, Prime, Clear, Null, Settings, Work, Turns, Threads, Write,
                    Stop, Start, Ask
<1>10. ASSUME NEW s \in Sessions,
       Drain(s) \/ Sent(s) \/ EndTurn(s)
      PROVE Goal
  BY <1>10, <1>7 DEF Drain, work, Sent, EndTurn
<1>11. ASSUME NEW u \in Users,
       Queueing(u) \/ Arm(u) \/ ForceErases(u) \/ ForceExecutes(u) \/ ArmLooks(u) \/
       Disarm(u) \/ ForceTakes(u)
      PROVE Goal
  BY <1>11, <1>7 DEF Queueing, work, Arm, ForceErases, ForceExecutes, ArmLooks, Disarm,
                     ForceTakes
<1>12. ASSUME NEW u \in Users, NEW s \in Sessions,
       Enqueue(u, s) \/ RemoveItem(u, s) \/ Resume(u, s)
      PROVE Goal
  BY <1>12, <1>7 DEF Enqueue, work, RemoveItem, Resume
<1>13. ASSUME NEW k \in Plans,
       Wake(k) \/ Erase(k) \/ Execute(k)
      PROVE Goal
  BY <1>13, <1>7 DEF Wake, work, Erase, Execute
<1>14. ASSUME NEW u \in Users, Survey(u) PROVE Goal
  BY <1>14, <1>7 DEF Survey, work
<1>15. ASSUME NEW p \in Users \cup Sessions, Drop(p) PROVE Goal
  BY <1>15, <1>7 DEF Drop, work
<1> QED BY <1>1, <1>2, <1>3, <1>4, <1>5, <1>6, <1>7, <1>8, <1>9, <1>10, <1>11, <1>12, <1>13, <1>14, <1>15
     DEF Next, vars, Continue, Queues, User, Request, Timers, Monitor, Restore

\* The monitor on its way through the call-off.
MonitorGoes ==
  LET m == "monitor"
  IN  \/ pc'[m] = pc[m] /\ (job'[m].seen <=> job[m].seen)
      \/ Cancel(m) \/ Null(m)
      \/ pc[m] = "prime" /\ job[m].seen /\ pc'[m] = "clear"
      \/ pc[m] = "prime" /\ ~job[m].seen /\ pc'[m] = "leave"
      \/ pc[m] = "clear" /\ pc'[m] = "null"

\* The monitor calls off step by step.
LEMMA MonitorMoves ==
  ASSUME ProcTypes, ToldInv, Told, Next
  PROVE  MonitorGoes \/ Leave \/ Crash
<1>1. job["monitor"] \in Job /\ pc["monitor"] \in Steps
  BY Names DEF ProcTypes
<1>2. pc["monitor"] \in {"cancel", "prime", "clear", "null", "leave"} /\ job["monitor"].goal = "started"
  BY DEF ToldInv, Told
<1>3. ASSUME NEW p \in Procs, Cancel(p) PROVE MonitorGoes \/ Leave \/ Crash
  <2>1. CASE p = "monitor"
    BY <1>3, <2>1 DEF MonitorGoes
  <2>2. ASSUME p # "monitor" PROVE MonitorGoes
    <3>1. pc'["monitor"] = pc["monitor"] /\ job'["monitor"].seen = job["monitor"].seen
      BY <1>3, <2>2, CancelMoves, Names DEF Overtakes
    <3> QED BY <3>1 DEF MonitorGoes
  <2> QED BY <2>1, <2>2
<1>4. ASSUME NEW p \in Procs, Prime(p) PROVE MonitorGoes \/ Leave \/ Crash
  BY <1>4, <1>1, <1>2, Names DEF Prime, Then, ProcTypes, Job, MonitorGoes
<1>5. ASSUME NEW p \in Procs, Clear(p) PROVE MonitorGoes \/ Leave \/ Crash
  BY <1>5, <1>1, <1>2, Names DEF Clear, Goes, ProcTypes, Job, MonitorGoes
<1>6. ASSUME NEW p \in Procs, Null(p) PROVE MonitorGoes \/ Leave \/ Crash
  <2>1. CASE p = "monitor"
    BY <1>6, <2>1 DEF MonitorGoes
  <2>2. ASSUME p # "monitor" PROVE MonitorGoes
    <3>1. pc'["monitor"] = pc["monitor"] /\ job'["monitor"].seen = job["monitor"].seen
      BY <1>6, <2>2, Names DEF Null, Goes, ProcTypes
    <3> QED BY <3>1 DEF MonitorGoes
  <2> QED BY <2>1, <2>2
<1>7. ASSUME NEW p \in Procs, Settings(p) PROVE MonitorGoes \/ Leave \/ Crash
  BY <1>7, <1>1, <1>2, Names DEF Settings, Goes, ProcTypes, Job, MonitorGoes
<1>8. ASSUME NEW p \in Procs, Work(p) PROVE MonitorGoes \/ Leave \/ Crash
  BY <1>8, <1>1, <1>2, Names DEF Work, Goes, ProcTypes, Job, MonitorGoes
<1>9. ASSUME NEW p \in Procs, Turns(p) PROVE MonitorGoes \/ Leave \/ Crash
  BY <1>9, <1>1, <1>2, Names DEF Turns, Goes, ProcTypes, Job, MonitorGoes
<1>10. ASSUME NEW p \in Procs, Threads(p) PROVE MonitorGoes \/ Leave \/ Crash
  BY <1>10, <1>1, <1>2, Names DEF Threads, Goes, ProcTypes, Job, MonitorGoes
<1>11. ASSUME NEW p \in Procs, Write(p) PROVE MonitorGoes \/ Leave \/ Crash
  BY <1>11, <1>1, <1>2, Names DEF Write, Goes, ProcTypes, Job, MonitorGoes
<1>12. ASSUME NEW p \in Procs, Stop(p) PROVE MonitorGoes \/ Leave \/ Crash
  BY <1>12, <1>1, <1>2, Names DEF Stop, Goes, ProcTypes, Job, MonitorGoes
<1>13. ASSUME NEW p \in Procs, Start(p) PROVE MonitorGoes \/ Leave \/ Crash
  BY <1>13, <1>1, <1>2, Names DEF Start, Goes, ProcTypes, Job, MonitorGoes
<1>14. ASSUME NEW p \in Procs, Ask(p) PROVE MonitorGoes \/ Leave \/ Crash
  BY <1>14, <1>1, <1>2, Names DEF Ask, Goes, ProcTypes, Job, MonitorGoes
<1>15. ASSUME NEW p \in Procs, Answered(p) PROVE MonitorGoes \/ Leave \/ Crash
  BY <1>15, <1>1, <1>2, Names DEF Answered, Goes, ProcTypes, Job, MonitorGoes
<1>16. ASSUME NEW s \in Sessions, Drain(s) PROVE MonitorGoes \/ Leave \/ Crash
  BY <1>16, <1>1, <1>2, Names DEF Drain, Begins, ProcTypes, Job, MonitorGoes
<1>17. ASSUME NEW s \in Sessions, Probe(s) PROVE MonitorGoes \/ Leave \/ Crash
  BY <1>17, <1>1, <1>2, Names DEF Probe, Goes, Sends, Begins, ProcTypes, Job, MonitorGoes
<1>18. ASSUME NEW s \in Sessions, Sent(s) PROVE MonitorGoes \/ Leave \/ Crash
  BY <1>18, <1>1, <1>2, Names DEF Sent, Goes, ProcTypes, Job, MonitorGoes
<1>19. ASSUME NEW u \in Users, Queueing(u) PROVE MonitorGoes \/ Leave \/ Crash
  <2>1. u # "monitor"
    BY Names
  <2>2. pc'["monitor"] = pc["monitor"] /\ job'["monitor"].seen = job["monitor"].seen
    BY <1>19, <2>1, QueueingMoves, Names DEF Overtakes
  <2> QED BY <2>2 DEF MonitorGoes
<1>20. ASSUME NEW u \in Users, Arm(u) PROVE MonitorGoes \/ Leave \/ Crash
  BY <1>20, <1>1, <1>2, Names DEF Arm, Goes, ProcTypes, Job, MonitorGoes
<1>21. ASSUME NEW u \in Users, ForceErases(u) PROVE MonitorGoes \/ Leave \/ Crash
  BY <1>21, <1>1, <1>2, Names DEF ForceErases, Goes, ProcTypes, Job, MonitorGoes
<1>22. ASSUME NEW u \in Users, ForceExecutes(u) PROVE MonitorGoes \/ Leave \/ Crash
  BY <1>22, <1>1, <1>2, Names DEF ForceExecutes, Goes, ProcTypes, Job, MonitorGoes
<1>23. ASSUME NEW u \in Users, ArmLooks(u) PROVE MonitorGoes \/ Leave \/ Crash
  BY <1>23, <1>1, <1>2, Names DEF ArmLooks, ProcTypes, Job, MonitorGoes
<1>24. ASSUME NEW u \in Users, Disarm(u) PROVE MonitorGoes \/ Leave \/ Crash
  <2>1. u # "monitor"
    BY Names
  <2>2. pc'["monitor"] = pc["monitor"] /\ job'["monitor"].seen = job["monitor"].seen
    BY <1>24, <2>1, DisarmMoves, Names DEF Overtakes
  <2> QED BY <2>2 DEF MonitorGoes
<1>25. ASSUME NEW u \in Users, ForceTakes(u) PROVE MonitorGoes \/ Leave \/ Crash
  BY <1>25, <1>1, <1>2, Names DEF ForceTakes, Begins, ProcTypes, Job, MonitorGoes
<1>26. ASSUME NEW u \in Users, NEW s \in Sessions, UserSends(u, s) PROVE MonitorGoes \/ Leave \/ Crash
  BY <1>26, <1>1, <1>2, Names DEF UserSends, Sends, Begins, ProcTypes, Job, MonitorGoes
<1>27. ASSUME NEW u \in Users, NEW s \in Sessions, Enqueue(u, s) PROVE MonitorGoes \/ Leave \/ Crash
  BY <1>27, <1>1, <1>2, Names DEF Enqueue, Begins, ProcTypes, Job, MonitorGoes
<1>28. ASSUME NEW u \in Users, NEW s \in Sessions, RemoveItem(u, s) PROVE MonitorGoes \/ Leave \/ Crash
  BY <1>28, <1>1, <1>2, Names DEF RemoveItem, Begins, ProcTypes, Job, MonitorGoes
<1>29. ASSUME HandleStarted PROVE MonitorGoes \/ Leave \/ Crash
  BY <1>29, <1>2 DEF HandleStarted
<1>30. ASSUME HandleCompleted PROVE MonitorGoes \/ Leave \/ Crash
  BY <1>30, <1>2 DEF HandleCompleted
<1>31. ASSUME Leave PROVE MonitorGoes \/ Leave \/ Crash
  BY <1>31
<1>32. ASSUME Mark PROVE MonitorGoes \/ Leave \/ Crash
  BY <1>32, <1>1, <1>2, Names DEF Mark, Goes, ProcTypes, Job, MonitorGoes
<1>33. ASSUME Look PROVE MonitorGoes \/ Leave \/ Crash
  BY <1>33, <1>1, <1>2, Names DEF Look, Goes, ProcTypes, Job, MonitorGoes
<1>34. ASSUME Forget PROVE MonitorGoes \/ Leave \/ Crash
  <2>1. "restore" # "monitor"
    BY Names
  <2>2. pc'["monitor"] = pc["monitor"] /\ job'["monitor"].seen = job["monitor"].seen
    BY <1>34, <2>1, ForgetMoves, Names DEF Overtakes
  <2> QED BY <2>2 DEF MonitorGoes
<1>35. ASSUME Judge PROVE MonitorGoes \/ Leave \/ Crash
  BY <1>35, <1>1, <1>2, Names DEF Judge, Goes, ProcTypes, Job, MonitorGoes
<1>36. ASSUME Reprime PROVE MonitorGoes \/ Leave \/ Crash
  BY <1>36, <1>1, <1>2, Names DEF Reprime, Goes, ProcTypes, Job, MonitorGoes
<1>37. ASSUME Unprime PROVE MonitorGoes \/ Leave \/ Crash
  BY <1>37, <1>1, <1>2, Names DEF Unprime, Goes, ProcTypes, Job, MonitorGoes
<1>38. ASSUME Crash PROVE MonitorGoes \/ Leave \/ Crash
  BY <1>38
<1>39. ASSUME UNCHANGED <<pc, job>> PROVE MonitorGoes \/ Leave \/ Crash
  BY <1>39, <1>1, <1>2, Names DEF ProcTypes, Job, MonitorGoes
<1>40. ASSUME
       Tick
      PROVE MonitorGoes \/ Leave \/ Crash
  BY <1>40, <1>39 DEF Tick
<1>41. ASSUME NEW s \in Sessions,
       EndTurn(s)
      PROVE MonitorGoes \/ Leave \/ Crash
  BY <1>41, <1>39 DEF EndTurn
<1>42. ASSUME NEW u \in Users, NEW s \in Sessions,
       Resume(u, s)
      PROVE MonitorGoes \/ Leave \/ Crash
  BY <1>42, <1>39 DEF Resume
<1>43. ASSUME NEW k \in Plans,
       Wake(k) \/ Erase(k) \/ Execute(k)
      PROVE MonitorGoes \/ Leave \/ Crash
  BY <1>43, <1>39 DEF Wake, Erase, Execute
<1>44. ASSUME NEW u \in Users, Survey(u) PROVE MonitorGoes \/ Leave \/ Crash
  BY <1>44, SurveyMoves, Names DEF MonitorGoes
<1>45. ASSUME NEW p \in Users \cup Sessions, Drop(p) PROVE MonitorGoes \/ Leave \/ Crash
  BY <1>45, DropMoves, Names DEF MonitorGoes
<1> QED BY <1>3, <1>4, <1>5, <1>6, <1>7, <1>8, <1>9, <1>10, <1>11, <1>12, <1>13, <1>14, <1>15,
           <1>16, <1>17, <1>18, <1>19, <1>20, <1>21, <1>22, <1>23, <1>24, <1>25, <1>26,
           <1>27, <1>28, <1>29, <1>30, <1>31, <1>32, <1>33, <1>34, <1>35, <1>36, <1>37,
           <1>38, <1>39, <1>40, <1>41, <1>42, <1>43, <1>44, <1>45
     DEF Next, vars, Continue, Queues, User, Request, Timers, Monitor, Restore

\* Once the monitor has called off, it stays called off.
LEMMA CalledOffKept ==
  ASSUME CalmInv, Next, Told, ~HandleCompleted, ~Crash, CalledOff, pc["monitor"] # "cancel"
  PROVE  CalledOff'
<1> USE DEF CalmInv
<1>1. ASSUME NEW n \in Plans, firing'[n] # "no" PROVE n \in late'
  <2>1. CASE firing[n] # "no"
    BY <2>1, LateGrows DEF CalledOff, Fired
  <2>2. CASE armed = n /\ ~Calling
    <3>1. n # 0
      BY DEF Plans
    <3>2. CASE pc["monitor"] = "null"
      BY <2>2, <3>1, <3>2, LateGrows, Names DEF NullInv, Nulling
    <3>3. CASE Gone
      BY <2>2, <3>1, <3>3, LateGrows DEF Gone, Calling, Clearing
    <3>4. pc["monitor"] = "clear" \/ (pc["monitor"] = "prime" /\ job["monitor"].seen) => Calling
      BY Names DEF Calling
    <3> QED BY <2>2, <3>2, <3>3, <3>4 DEF ToldInv
  <2> QED BY <1>1, <2>1, <2>2, FiredSteps DEF Base
<1>2. active # {}
  BY DEF ToldInv
<1>3. \A p \in Procs : pc'[p] \in {"threads", "write"} => job'[p].over
  BY <1>2, PassMoves DEF CalledOff, Passes, Base
<1> QED BY <1>1, <1>3 DEF CalledOff, Fired

\* And the plans that were there are gone.
LEMMA GoneKept ==
  ASSUME CalmInv, Next, CalledOff, Gone PROVE Gone'
<1> USE DEF CalmInv
<1>1. Half \subseteq late'
  BY LateGrows DEF Gone
<1>2. plan' \in late' \cup {0}
  BY PlanChanges, LateGrows DEF PlanChange, Gone, CalledOff, Base
<1>3. Half' \subseteq late'
  BY <1>1, <1>2, HalfLate DEF Base
<1>4. armed' \in late' \cup {0} \/ Clearing'
  <2>1. CASE armed' \in {0, armed}
    <3>1. Timer \subseteq late' => armed' \in late' \cup {0}
      BY <2>1 DEF Timer
    <3> QED BY <2>1, <3>1, ClearingEnds, LateGrows DEF Gone
  <2>2. ASSUME NEW q \in Procs, pc[q] = "start", armed' = job[q].plan PROVE armed' \in late' \cup {0}
    BY <1>1, <2>2, StartedHeld
  <2> QED BY <2>1, <2>2, ArmedChanges DEF ArmedChange
<1> QED BY <1>2, <1>3, <1>4 DEF Gone

\* When it begins to, every plan that was made is called off or about to be.
LEMMA MonitorCancels ==
  ASSUME CalmInv, Next, Told, Cancel("monitor")
  PROVE  CalledOff' /\ (pc'["monitor"] = "leave" \/ (pc'["monitor"] = "prime" /\ ~job'["monitor"].seen) => Gone')
<1> USE DEF CalmInv
<1> DEFINE m == "monitor"
<1>1. m \in Procs
  BY Names
<1>2. /\ plan' = plan /\ armed' = armed /\ firing' = firing /\ late' = late \cup Half \cup Fired
  BY DEF Cancel, disk, timers
<1>3. \A q \in Procs : q # m => pc'[q] = pc[q] /\ (pc[q] \in Trusting => job'[q].over)
  BY <1>1, CancelMoves DEF Overtakes, Base
<1>4. \/ pc'[m] = "prime" /\ (job'[m].seen <=> plan # 0)
      \/ pc'[m] = "clear"
      \/ pc'[m] = "leave" /\ plan = 0
  BY <1>1, CancelMoves DEF Told, Then, Base
<1>5. CalledOff'
  BY <1>2, <1>3, <1>4 DEF CalledOff, Fired, Trusting
<1>6. ASSUME plan = 0 PROVE Gone'
  <2>1. Half' \subseteq late'
    BY <1>2, <1>6, HalfLate DEF Base
  <2>2. Timer \subseteq late' => armed' \in late' \cup {0}
    BY <1>2 DEF Timer
  <2>3. armed' \in late' \cup {0} \/ Clearing'
    BY <1>2, <1>6, <2>2, ClearingEnds DEF ArmedCalm
  <2> QED BY <1>2, <1>6, <2>1, <2>3 DEF Gone
<1> QED BY <1>4, <1>5, <1>6

\* ToldInv is inductive over the rest.
LEMMA ToldSteps ==
  ASSUME CalmInv, Next PROVE ToldInv'
<1> USE DEF CalmInv
<1> DEFINE m == "monitor"
<1>1. CASE HandleStarted
  <2>1. Begins(m, "cancel", "started", Head(notes)[2]) /\ active' = active \cup {Head(notes)[2]}
    BY <1>1 DEF HandleStarted
  <2>2. pc'[m] = "cancel" /\ job'[m].on = Head(notes)[2]
    BY <2>1, BegunJob, Names DEF Base
  <2> QED BY <2>1, <2>2 DEF ToldInv
<1>2. ASSUME HandleCompleted \/ Leave \/ Crash, ~(SameHeard /\ Told) PROVE ~Told'
  <2>1. CASE HandleCompleted
    <3>1. Begins(m, "settings", "completed", Head(notes)[2]) \/ job' = job
      BY <2>1 DEF HandleCompleted
    <3>2. job' = job => SameHeard
      BY DEF SameHeard
    <3> QED BY <1>2, <3>1, <3>2, BegunJob, Names DEF Told, SameHeard, Base
  <2>2. CASE Leave
    BY <2>2, Names DEF Leave, Told, NoJob, Base, ProcTypes
  <2>3. CASE Crash
    BY <2>3, Names DEF Crash, Told, NoJob
  <2> QED BY <1>2, <2>1, <2>2, <2>3
<1>3. ASSUME SameHeard, Told, ~Leave, ~Crash PROVE ToldInv'
  <2>1. pc[m] \in {"cancel", "prime", "clear", "null", "leave"} /\ job[m].on \in active
    BY <1>3 DEF ToldInv
  <2>2. ~HandleCompleted
    BY <2>1 DEF HandleCompleted
  <2>3. job'[m].on \in active'
    <3>1. lock[job[m].on] = m
      BY <2>1, Names DEF LockInv, LockOf
    <3> QED BY <1>3, <2>1, <2>2, <3>1, ActiveKept, Names DEF SameHeard
  <2>4. MonitorGoes
    BY <1>3, MonitorMoves DEF Base
  <2>5. CASE pc[m] = "cancel" /\ pc'[m] = "cancel"
    BY <2>3, <2>5 DEF ToldInv
  <2>6. CASE Cancel(m)
    <3>1. pc'[m] \in {"prime", "clear", "leave"}
      BY <1>3, <2>6, CancelMoves, Names DEF Told, Then, Base
    <3> QED BY <1>3, <2>3, <2>6, <3>1, MonitorCancels DEF ToldInv
  <2>7. ASSUME pc[m] # "cancel" PROVE ToldInv'
    <3>1. CalledOff /\ CalledOff'
      BY <1>3, <2>2, <2>7, CalledOffKept DEF ToldInv
    <3>2. CASE Null(m)
      <4>1. plan' = 0 /\ late' = late \cup Half /\ armed' = armed /\ pc[m] = "null"
        BY <3>2 DEF Null, timers
      <4>2. armed' \in late' \cup {0}
        BY <4>1, Names DEF NullInv, Nulling
      <4>3. Half' \subseteq late'
        BY <4>1, HalfLate DEF Base
      <4>4. Gone'
        BY <4>1, <4>2, <4>3 DEF Gone
      <4>5. pc'[m] = "leave"
        BY <1>3, <3>2, Names DEF Null, Goes, Told, Then, Base, ProcTypes
      <4> QED BY <2>3, <3>1, <4>4, <4>5 DEF ToldInv
    <3>3. ASSUME pc'[m] = pc[m], job'[m].seen <=> job[m].seen PROVE ToldInv'
      <4>1. pc'[m] = "leave" \/ (pc'[m] = "prime" /\ ~job'[m].seen) => Gone'
        BY <1>3, <3>1, <3>3, GoneKept DEF ToldInv
      <4> QED BY <2>1, <2>3, <3>1, <3>3, <4>1 DEF ToldInv
    <3>4. CASE pc[m] = "prime" /\ ~job[m].seen /\ pc'[m] = "leave"
      <4>1. Gone'
        BY <1>3, <3>1, <3>4, GoneKept DEF ToldInv
      <4> QED BY <2>3, <3>1, <3>4, <4>1 DEF ToldInv
    <3>5. CASE pc'[m] \in {"clear", "null"}
      BY <2>3, <3>1, <3>5 DEF ToldInv
    <3>6. ~Cancel(m)
      BY <2>7 DEF Cancel
    <3> QED BY <2>4, <3>2, <3>3, <3>4, <3>5, <3>6 DEF MonitorGoes
  <2>8. pc[m] = "cancel" => Cancel(m) \/ pc'[m] = "cancel"
    BY <2>4 DEF MonitorGoes, Null
  <2> QED BY <2>5, <2>6, <2>7, <2>8
<1>4. ASSUME ~Told' PROVE ToldInv'
  BY <1>4 DEF ToldInv
<1>5. SameHeard => (Told' <=> Told)
  BY DEF SameHeard, Told
<1>6. ASSUME Leave \/ Crash PROVE ToldInv'
  <2>1. ~Told'
    BY <1>6, Names DEF Leave, Crash, Told, NoJob, Base, ProcTypes
  <2> QED BY <1>4, <2>1
<1> QED BY <1>1, <1>2, <1>3, <1>4, <1>5, <1>6, MonitorSteps DEF Base

\* The invariant is inductive.
LEMMA CalmInvSteps ==
  ASSUME CalmInv, [Next]_vars PROVE CalmInv'
<1>1. CASE Next
  <2>1. Base' /\ LooseLate'
    BY <1>1, BaseSteps, LooseSteps DEF CalmInv
  <2>2. LockInv' /\ LookInv'
    BY <1>1, LockSteps, LookSteps DEF CalmInv, Base, LockInv, LookInv, Procs
  <2> QED BY <1>1, <2>1, <2>2, ToldSteps, FiredCalmSteps, HalfCalmSteps, PlanCalmSteps, ArmedCalmSteps, NullSteps
          DEF CalmInv
<1>2. CASE UNCHANGED vars
  <2>1. Base'
    BY <1>2, BaseSteps DEF CalmInv
  <2>2. Calm' = Calm /\ Clearing' = Clearing /\ Nulling' = Nulling /\ Fired' = Fired /\ Half' = Half
    BY <1>2 DEF vars, disk, work, timers, Calm, Unheard, Clearing, Nulling, Fired, Half
  <2>3. LockInv' /\ LooseLate'
    BY <1>2 DEF CalmInv, LockInv, LockOf, LooseLate, vars, timers
  <2>4. LookInv'
    BY <1>2, <2>2 DEF CalmInv, LookInv, LookOf, vars, disk
  <2>5. CalledOff' = CalledOff /\ Gone' = Gone
    BY <1>2, <2>2 DEF CalledOff, Gone, vars, disk, timers
  <2>6. ToldInv'
    BY <1>2, <2>5 DEF CalmInv, ToldInv, Told, vars, work
  <2>7. FiredCalm' /\ HalfCalm' /\ PlanCalm' /\ ArmedCalm' /\ NullInv'
    BY <1>2, <2>2 DEF CalmInv, FiredCalm, HalfCalm, PlanCalm, ArmedCalm, NullInv, vars, disk, timers
  <2> QED BY <2>1, <2>3, <2>4, <2>6, <2>7 DEF CalmInv
<1> QED BY <1>1, <1>2

\* It holds at the start.
LEMMA CalmInvInit == Init => CalmInv
<1> SUFFICES ASSUME Init PROVE CalmInv
  OBVIOUS
<1>1. Base
  BY BaseInit
<1>2. /\ \A p \in Procs : pc[p] = "idle" /\ job[p] = NoJob
      /\ Fired = {} /\ Half = {}
      /\ plan = 0 /\ armed = 0 /\ loose = {} /\ late = {}
  BY DEF Init, Fired, Half, Making
<1>3. LockInv /\ LooseLate /\ LookInv /\ ToldInv
  BY <1>2, Names DEF LockInv, LockOf, LooseLate, LookInv, LookOf, ToldInv, Told, NoJob
<1>4. FiredCalm /\ HalfCalm /\ PlanCalm /\ ArmedCalm /\ NullInv
  BY <1>2 DEF FiredCalm, HalfCalm, PlanCalm, ArmedCalm, NullInv
<1> QED BY <1>1, <1>3, <1>4 DEF CalmInv

\* The command runs for no plan that new work called off: no item waits, no turn is
\* live that the monitor has heard of, and the users still want it, unless no call-off
\* reached the plan (cancel_scheduled_shutdown_for_activity, maybe_schedule_global_shutdown,
\* arm_scheduled_shutdown, execute_scheduled_shutdown).
THEOREM WorkIsSpared == Spec => []ShutdownSparesWork
<1>1. CalmInv => ShutdownSparesWork
  BY DEF CalmInv, FiredCalm, Fired, Calm, ShutdownSparesWork
<1> QED BY <1>1, CalmInvInit, CalmInvSteps, PTL DEF Spec

----------------------------------------------------------------------------
(* Whoever ends last makes the plan.                                       *)

\* What is started or ends is noted, and the monitor takes the notes in their order.
NoteChange ==
  \/ running' = running /\ notes' = notes
  \/ \E s \in Sessions :
       /\ running' = running \cup {s}
       /\ notes' = IF s \in running THEN notes ELSE Append(notes, <<"started", s>>)
  \/ \E s \in Sessions : EndTurn(s)
  \/ HandleStarted \/ HandleCompleted \/ Crash

\* Nothing else is done to the notes.
LEMMA NoteChanges ==
  ASSUME GoalInv, Next
  PROVE  NoteChange
<1>1. ASSUME NEW p \in Procs, Ask(p) PROVE NoteChange
  <2>1. job[p].on \in Sessions
    BY <1>1 DEF Ask, GoalInv, GoalOf, Aimed
  <2>2. \/ UNCHANGED <<running, notes>>
        \/ /\ running' = running \cup {job[p].on}
           /\ notes' = IF job[p].on \in running THEN notes ELSE Append(notes, <<"started", job[p].on>>)
    BY <1>1 DEF Ask
  <2> QED BY <2>1, <2>2 DEF NoteChange
<1>2. ASSUME NEW s \in Sessions, EndTurn(s) PROVE NoteChange
  BY <1>2 DEF NoteChange
<1>3. ASSUME HandleStarted PROVE NoteChange
  BY <1>3 DEF NoteChange
<1>4. ASSUME HandleCompleted PROVE NoteChange
  BY <1>4 DEF NoteChange
<1>5. ASSUME Crash PROVE NoteChange
  BY <1>5 DEF NoteChange
<1>6. ASSUME UNCHANGED <<running, notes>> PROVE NoteChange
  BY <1>6 DEF NoteChange
<1>7. ASSUME
       Leave \/ Mark \/ Look \/ Forget \/ Judge \/ Reprime \/ Unprime \/ Tick
      PROVE NoteChange
  BY <1>7, <1>6 DEF Leave, work, Mark, Look, Forget, Judge, Reprime, Unprime, Tick
<1>8. ASSUME NEW p \in Procs,
       Cancel(p) \/ Prime(p) \/ Clear(p) \/ Null(p) \/ Settings(p) \/ Work(p) \/ Turns(p)
       \/ Threads(p) \/ Write(p) \/ Stop(p) \/ Start(p) \/ Answered(p)
      PROVE NoteChange
  BY <1>8, <1>6 DEF Cancel, work, Prime, Clear, Null, Settings, Work, Turns, Threads, Write,
                    Stop, Start, Answered
<1>9. ASSUME NEW s \in Sessions,
       Drain(s) \/ Probe(s) \/ Sent(s)
      PROVE NoteChange
  BY <1>9, <1>6 DEF Drain, work, Probe, Sends, Sent
<1>10. ASSUME NEW u \in Users,
       Queueing(u) \/ Arm(u) \/ ForceErases(u) \/ ForceExecutes(u) \/ ArmLooks(u) \/
       Disarm(u) \/ ForceTakes(u)
      PROVE NoteChange
  BY <1>10, <1>6 DEF Queueing, work, Arm, ForceErases, ForceExecutes, ArmLooks, Disarm,
                     ForceTakes
<1>11. ASSUME NEW u \in Users, NEW s \in Sessions,
       UserSends(u, s) \/ Enqueue(u, s) \/ RemoveItem(u, s) \/ Resume(u, s)
      PROVE NoteChange
  BY <1>11, <1>6 DEF UserSends, Sends, Enqueue, work, RemoveItem, Resume
<1>12. ASSUME NEW k \in Plans,
       Wake(k) \/ Erase(k) \/ Execute(k)
      PROVE NoteChange
  BY <1>12, <1>6 DEF Wake, work, Erase, Execute
<1>13. ASSUME NEW u \in Users, Survey(u) PROVE NoteChange
  BY <1>13, <1>6 DEF Survey, work
<1>14. ASSUME NEW p \in Users \cup Sessions, Drop(p) PROVE NoteChange
  BY <1>14, <1>6 DEF Drop, work
<1> QED BY <1>1, <1>2, <1>3, <1>4, <1>5, <1>6, <1>7, <1>8, <1>9, <1>10, <1>11, <1>12, <1>13, <1>14
     DEF Next, vars, Continue, Queues, User, Request, Timers, Monitor, Restore

\* A turn has been started, or its end is to be handled.
Ended(s) == <<"completed", s>> \in Range(notes)
Live(s)  == s \in running \/ Ended(s)

\* A note that a turn started is followed by one that it ended, unless it runs.
NoteInv ==
  \A i \in DOMAIN notes, s \in Sessions : notes[i] = <<"started", s>> =>
    s \in running \/ \E j \in DOMAIN notes : j > i /\ notes[j] = <<"completed", s>>

\* What is in a sequence of notes after one is appended,
LEMMA AppendNote ==
  \A n \in Seq(Notes), e \in Notes :
    /\ DOMAIN n = 1..Len(n) /\ Len(n) \in Nat
    /\ DOMAIN Append(n, e) = 1..(Len(n) + 1)
    /\ \A i \in 1..Len(n) : Append(n, e)[i] = n[i]
    /\ Append(n, e)[Len(n) + 1] = e
  OBVIOUS

\* and after one is taken.
LEMMA TailNote ==
  \A n \in Seq(Notes) : n # <<>> =>
    /\ DOMAIN n = 1..Len(n) /\ Len(n) \in Nat \ {0} /\ Head(n) = n[1] /\ n[1] \in Notes
    /\ Len(Tail(n)) = Len(n) - 1 /\ DOMAIN Tail(n) = 1..(Len(n) - 1)
    /\ \A i \in 1..(Len(n) - 1) : Tail(n)[i] = n[i + 1]
  OBVIOUS

\* NoteInv is inductive.
LEMMA NoteInvSteps ==
  ASSUME WorkTypes, GoalInv, NoteInv, Next PROVE NoteInv'
<1> USE DEF NoteInv
<1>1. CASE running' = running /\ notes' = notes
  BY <1>1
<1>2. ASSUME NEW s \in Sessions, running' = running \cup {s},
             notes' = IF s \in running THEN notes ELSE Append(notes, <<"started", s>>)
      PROVE  NoteInv'
  <2>1. CASE notes' = notes
    BY <1>2, <2>1
  <2>2. CASE notes' = Append(notes, <<"started", s>>)
    <3> DEFINE a == Append(notes, <<"started", s>>)
    <3>1. notes \in Seq(Notes) /\ <<"started", s>> \in Notes
      BY DEF WorkTypes, Notes
    <3>2. /\ DOMAIN notes = 1..Len(notes) /\ Len(notes) \in Nat /\ DOMAIN a = 1..(Len(notes) + 1)
          /\ \A i \in 1..Len(notes) : a[i] = notes[i]
          /\ a[Len(notes) + 1] = <<"started", s>>
      BY <3>1, AppendNote
    <3> HIDE DEF a
    <3>3. notes' = a
      BY <2>2 DEF a
    <3> SUFFICES ASSUME NEW i \in DOMAIN a, NEW t \in Sessions, a[i] = <<"started", t>>
                 PROVE  t \in running' \/ \E j \in DOMAIN a : j > i /\ a[j] = <<"completed", t>>
      BY <3>3
    <3>4. CASE i = Len(notes) + 1
      <4>1. t = s
        BY <3>2, <3>4
      <4> QED BY <1>2, <4>1
    <3>5. CASE i \in 1..Len(notes)
      <4>1. i \in DOMAIN notes /\ notes[i] = <<"started", t>>
        BY <3>2, <3>5
      <4>2. t \in running \/ \E j \in DOMAIN notes : j > i /\ notes[j] = <<"completed", t>>
        BY <4>1
      <4>3. \A j \in DOMAIN notes : j \in DOMAIN a /\ a[j] = notes[j]
        BY <3>2
      <4> QED BY <1>2, <4>2, <4>3
    <3> QED BY <3>2, <3>4, <3>5
  <2> QED BY <1>2, <2>1, <2>2
<1>3. ASSUME NEW s \in Sessions, EndTurn(s) PROVE NoteInv'
  <2> DEFINE a == Append(notes, <<"completed", s>>)
  <2>1. running' = running \ {s} /\ notes' = a
    BY <1>3 DEF EndTurn
  <2>2. notes \in Seq(Notes) /\ <<"completed", s>> \in Notes
    BY DEF WorkTypes, Notes
  <2>3. /\ DOMAIN notes = 1..Len(notes) /\ Len(notes) \in Nat /\ DOMAIN a = 1..(Len(notes) + 1)
        /\ \A i \in 1..Len(notes) : a[i] = notes[i]
        /\ a[Len(notes) + 1] = <<"completed", s>>
    BY <2>2, AppendNote
  <2> HIDE DEF a
  <2> SUFFICES ASSUME NEW i \in DOMAIN a, NEW t \in Sessions, a[i] = <<"started", t>>
               PROVE  t \in running' \/ \E j \in DOMAIN a : j > i /\ a[j] = <<"completed", t>>
    BY <2>1
  <2>4. i \in 1..Len(notes) /\ notes[i] = <<"started", t>>
    BY <2>3
  <2>5. CASE t = s
    BY <2>3, <2>4, <2>5
  <2>6. CASE t # s
    <3>1. t \in running \/ \E j \in DOMAIN notes : j > i /\ notes[j] = <<"completed", t>>
      BY <2>3, <2>4
    <3> QED BY <2>1, <2>3, <2>6, <3>1
  <2> QED BY <2>5, <2>6
<1>4. CASE HandleStarted \/ HandleCompleted
  <2>1. running' = running /\ notes' = Tail(notes) /\ notes # <<>> /\ notes \in Seq(Notes)
    BY <1>4 DEF HandleStarted, HandleCompleted, WorkTypes
  <2> DEFINE a == Tail(notes)
  <2>2. /\ DOMAIN notes = 1..Len(notes) /\ Len(notes) \in Nat \ {0}
        /\ DOMAIN a = 1..(Len(notes) - 1)
        /\ \A i \in 1..(Len(notes) - 1) : a[i] = notes[i + 1]
    BY <2>1, TailNote
  <2>3. notes' = a
    BY <2>1
  <2> HIDE DEF a
  <2> SUFFICES ASSUME NEW i \in DOMAIN a, NEW t \in Sessions, a[i] = <<"started", t>>, t \notin running
               PROVE  \E j \in DOMAIN a : j > i /\ a[j] = <<"completed", t>>
    BY <2>1, <2>3
  <2>4. i + 1 \in DOMAIN notes /\ notes[i + 1] = <<"started", t>>
    BY <2>2
  <2>5. PICK j \in DOMAIN notes : j > i + 1 /\ notes[j] = <<"completed", t>>
    BY <2>4
  <2>6. j - 1 \in DOMAIN a /\ j - 1 > i /\ a[j - 1] = <<"completed", t>>
    BY <2>2, <2>5
  <2> QED BY <2>6
<1>5. CASE Crash
  BY <1>5 DEF Crash
<1> QED BY <1>1, <1>2, <1>3, <1>4, <1>5, NoteChanges DEF NoteChange

\* The end of a turn is handled.
Ends(s) ==
  /\ HandleCompleted /\ Head(notes)[2] = s /\ <<"started", s>> \notin Range(Tail(notes))

\* A turn runs, or its end is to be handled, until it is.
LEMMA LiveKept ==
  ASSUME WorkTypes, GoalInv, NoteInv, Next, NEW t \in Sessions, Live(t)
  PROVE  Live(t)' \/ Ends(t) \/ Crash
<1>1. CASE running' = running /\ notes' = notes
  BY <1>1 DEF Live, Ended
<1>2. ASSUME NEW s \in Sessions, running' = running \cup {s},
             notes' = IF s \in running THEN notes ELSE Append(notes, <<"started", s>>)
      PROVE  Live(t)'
  <2>1. Range(notes) \subseteq Range(notes')
    BY <1>2, RangeAppend DEF WorkTypes
  <2> QED BY <1>2, <2>1 DEF Live, Ended
<1>3. ASSUME NEW s \in Sessions, EndTurn(s) PROVE Live(t)'
  <2>1. running' = running \ {s} /\ notes' = Append(notes, <<"completed", s>>)
    BY <1>3 DEF EndTurn
  <2>2. Range(notes) \cup {<<"completed", s>>} \subseteq Range(notes')
    BY <2>1, RangeAppend DEF WorkTypes
  <2> QED BY <2>1, <2>2 DEF Live, Ended
<1>4. ASSUME HandleStarted \/ HandleCompleted, ~Ends(t) PROVE Live(t)'
  <2>1. running' = running /\ notes' = Tail(notes) /\ notes # <<>> /\ notes \in Seq(Notes)
    BY <1>4 DEF HandleStarted, HandleCompleted, WorkTypes
  <2>2. CASE t \in running
    BY <2>1, <2>2 DEF Live
  <2>3. CASE Ended(t) /\ Head(notes) # <<"completed", t>>
    <3>1. <<"completed", t>> \in Range(Tail(notes))
      BY <2>1, <2>3, RangeTail DEF Ended
    <3> QED BY <2>1, <3>1 DEF Live, Ended
  <2>4. CASE t \notin running /\ Head(notes) = <<"completed", t>>
    <3>1. Head(notes)[1] = "completed" /\ Head(notes)[2] = t
      BY <2>4
    <3>2. HandleCompleted
      BY <1>4, <3>1 DEF HandleStarted
    <3>3. <<"started", t>> \in Range(Tail(notes))
      BY <1>4, <3>1, <3>2 DEF Ends
    <3> DEFINE a == Tail(notes)
    <3>4. /\ DOMAIN notes = 1..Len(notes) /\ Len(notes) \in Nat \ {0}
          /\ DOMAIN a = 1..(Len(notes) - 1)
          /\ \A i \in 1..(Len(notes) - 1) : a[i] = notes[i + 1]
      BY <2>1, TailNote
    <3> HIDE DEF a
    <3>5. PICK i \in DOMAIN a : a[i] = <<"started", t>>
      BY <3>3 DEF Range, a
    <3>6. PICK j \in DOMAIN notes : j > i + 1 /\ notes[j] = <<"completed", t>>
      <4>1. i + 1 \in DOMAIN notes /\ notes[i + 1] = <<"started", t>>
        BY <3>4, <3>5
      <4> QED BY <2>4, <4>1 DEF NoteInv
    <3>7. j - 1 \in DOMAIN a /\ a[j - 1] = <<"completed", t>>
      BY <3>4, <3>5, <3>6
    <3>8. <<"completed", t>> \in Range(a)
      BY <3>7 DEF Range
    <3> QED BY <2>1, <3>8 DEF Live, Ended, a
  <2> QED BY <2>2, <2>3, <2>4 DEF Live
<1> QED BY <1>1, <1>2, <1>3, <1>4, NoteChanges DEF NoteChange

\* What a process calls off for, and for whom a drain dispatches.
CallsOff == {"cancel", "prime", "clear", "null"}
Scheduling == {"settings", "work", "turns", "threads", "write", "stop", "start"}
Restoring == {"mark", "look", "reprime", "unprime", "forget"}
AimOf(p) ==
  /\ job[p].goal = "dispatch" => p \in Sessions /\ job[p].on = p /\ p \in queued
  /\ job[p].goal = "disarm" => p \in Users /\ (~after \/ stalled)
  /\ job[p].goal = "started" => p = "monitor"
  /\ job[p].goal = "completed" => p = "monitor" /\ pc[p] \in Scheduling \cup {"leave"}
  /\ pc[p] \in CallsOff => job[p].goal \in {"send", "enqueue", "dispatch", "started", "disarm"}
  /\ pc[p] \in Restoring \cup {"judge"} => p = "restore"
AimInv == \A p \in Procs : AimOf(p)

\* AimInv is inductive.
LEMMA AimSteps ==
  ASSUME ProcTypes, GoalInv, AimInv, Next, NEW q \in Procs
  PROVE  AimOf(q)'
<1>1. job[q] \in Job /\ pc[q] \in Steps
  BY DEF ProcTypes
<1>2. AimOf(q) /\ GoalOf(q)
  BY DEF AimInv, GoalInv
<1>3. ASSUME NEW p \in Procs, Cancel(p) PROVE AimOf(q)'
  <2>1. (after' => after \/ stalled') /\ (stalled => stalled')
    BY <1>3, Zenon DEF Cancel, disk
  <2>2. CASE q = p
    <3>1. job'[q].goal = job[q].goal /\ job'[q].on = job[q].on /\ pc[q] = "cancel"
      BY <1>3, <2>2, CancelMoves, Names
    <3>2. queued' = queued /\ after' = after
      BY <1>3 DEF Cancel, disk
    <3>3. pc'[q] \notin Restoring \cup {"judge"}
      BY <1>3, <2>2, CancelMoves, Names DEF Then, Restoring
    <3> QED BY <1>2, <2>1, <3>1, <3>2, <3>3, Zenon DEF AimOf, CallsOff, Scheduling
  <2>3. CASE q # p
    <3>1. pc'[q] = pc[q] /\ job'[q].goal = job[q].goal /\ job'[q].on = job[q].on
      BY <1>3, <2>3, CancelMoves, Names DEF Overtakes
    <3>2. queued \subseteq queued'
      BY <1>3 DEF Cancel, disk
    <3> QED BY <1>2, <2>1, <3>1, <3>2 DEF AimOf
  <2> QED BY <2>2, <2>3
<1>4. ASSUME NEW p \in Procs, Prime(p) PROVE AimOf(q)'
  BY <1>4, <1>1, <1>2, Names DEF Prime, Then, ProcTypes, Job, NoJob, AimOf, CallsOff,
                                 Scheduling, Restoring
<1>5. ASSUME NEW p \in Procs, Clear(p) PROVE AimOf(q)'
  BY <1>5, <1>1, <1>2, Names DEF Clear, Goes, disk, ProcTypes, Job, NoJob, AimOf, CallsOff,
                                 Scheduling, Restoring
<1>6. ASSUME NEW p \in Procs, Null(p) PROVE AimOf(q)'
  BY <1>6, <1>1, <1>2, Names DEF Null, Goes, Then, ProcTypes, Job, NoJob, AimOf, CallsOff,
                                 Scheduling, Restoring
<1>7. ASSUME NEW p \in Procs, Settings(p) PROVE AimOf(q)'
  <2>1. stalled => stalled'
    BY <1>7, Zenon DEF Settings
  <2>2. after' = after /\ queued' = queued
    BY <1>7 DEF Settings, disk
  <2>3. CASE q = p
    BY <1>7, <1>1, <1>2, <2>1, <2>2, <2>3, Names DEF Settings, Goes, ProcTypes, Job, NoJob, AimOf, CallsOff, Scheduling, Restoring
  <2>4. CASE q # p
    <3>1. pc'[q] = pc[q] /\ job'[q] = job[q]
      BY <1>7, <1>1, <2>4, Names DEF Settings, Goes, ProcTypes
    <3> QED BY <1>2, <2>1, <2>2, <3>1 DEF AimOf
  <2> QED BY <2>3, <2>4
<1>8. ASSUME NEW p \in Procs, Work(p) PROVE AimOf(q)'
  BY <1>8, <1>1, <1>2, Names DEF Work, Goes, disk, ProcTypes, Job, NoJob, AimOf, CallsOff,
                                 Scheduling, Restoring
<1>9. ASSUME NEW p \in Procs, Turns(p) PROVE AimOf(q)'
  BY <1>9, <1>1, <1>2, Names DEF Turns, Goes, disk, ProcTypes, Job, NoJob, AimOf, CallsOff,
                                 Scheduling, Restoring
<1>10. ASSUME NEW p \in Procs, Threads(p) PROVE AimOf(q)'
  <2>1. stalled => stalled'
    BY <1>10, Zenon DEF Threads
  <2>2. after' = after /\ queued' = queued
    BY <1>10 DEF Threads, disk
  <2>3. CASE q = p
    BY <1>10, <1>1, <1>2, <2>1, <2>2, <2>3, Names DEF Threads, Goes, ProcTypes, Job, NoJob, AimOf, CallsOff, Scheduling, Restoring
  <2>4. CASE q # p
    <3>1. pc'[q] = pc[q] /\ job'[q] = job[q]
      BY <1>10, <1>1, <2>4, Names DEF Threads, Goes, ProcTypes
    <3> QED BY <1>2, <2>1, <2>2, <3>1 DEF AimOf
  <2> QED BY <2>3, <2>4
<1>11. ASSUME NEW p \in Procs, Write(p) PROVE AimOf(q)'
  <2>1. stalled => stalled'
    BY <1>11, Zenon DEF Write
  <2>2. after' = after /\ queued' = queued
    BY <1>11 DEF Write, disk
  <2>3. CASE q = p
    BY <1>11, <1>1, <1>2, <2>1, <2>2, <2>3, Names DEF Write, Goes, ProcTypes, Job, NoJob, AimOf, CallsOff, Scheduling, Restoring
  <2>4. CASE q # p
    <3>1. pc'[q] = pc[q] /\ job'[q] = job[q]
      BY <1>11, <1>1, <2>4, Names DEF Write, Goes, ProcTypes
    <3> QED BY <1>2, <2>1, <2>2, <3>1 DEF AimOf
  <2> QED BY <2>3, <2>4
<1>12. ASSUME NEW p \in Procs, Stop(p) PROVE AimOf(q)'
  BY <1>12, <1>1, <1>2, Names DEF Stop, Goes, disk, ProcTypes, Job, NoJob, AimOf, CallsOff,
                                  Scheduling, Restoring
<1>13. ASSUME NEW p \in Procs, Start(p) PROVE AimOf(q)'
  BY <1>13, <1>1, <1>2, Names DEF Start, Goes, disk, ProcTypes, Job, NoJob, AimOf, CallsOff,
                                  Scheduling, Restoring
<1>14. ASSUME NEW p \in Procs, Ask(p) PROVE AimOf(q)'
  <2>1. stalled => stalled'
    BY <1>14, Zenon DEF Ask
  <2>2. after' = after /\ queued' = queued
    BY <1>14 DEF Ask, disk
  <2>3. CASE q = p
    BY <1>14, <1>1, <1>2, <2>1, <2>2, <2>3, Names DEF Ask, Goes, ProcTypes, Job, NoJob, AimOf, CallsOff, Scheduling, Restoring
  <2>4. CASE q # p
    <3>1. pc'[q] = pc[q] /\ job'[q] = job[q]
      BY <1>14, <1>1, <2>4, Names DEF Ask, Goes, ProcTypes
    <3> QED BY <1>2, <2>1, <2>2, <3>1 DEF AimOf
  <2> QED BY <2>3, <2>4
<1>15. ASSUME NEW p \in Procs, Answered(p) PROVE AimOf(q)'
  BY <1>15, <1>1, <1>2, Names DEF Answered, Goes, disk, ProcTypes, Job, NoJob, AimOf,
                                  CallsOff, Scheduling, Restoring
<1>16. ASSUME NEW s \in Sessions, Drain(s) PROVE AimOf(q)'
  <2>0. stalled => stalled'
    BY <1>16, Zenon DEF Drain
  <2>1. after' = after /\ queued' = queued /\ (stalled => stalled')
    BY <1>16, <2>0 DEF Drain, disk
  <2>2. UNCHANGED <<pc, job>> \/ Begins(s, "probe", "drain", s) \/ Begins(s, "settings", "drain", s)
    BY <1>16 DEF Drain
  <2>3. CASE UNCHANGED <<pc, job>>
    BY <1>2, <2>1, <2>3 DEF AimOf
  <2>4. CASE q = s /\ ~UNCHANGED <<pc, job>>
    BY <2>2, <2>4, BegunJob, Names DEF AimOf, CallsOff, Scheduling, Restoring
  <2>5. CASE q # s /\ ~UNCHANGED <<pc, job>>
    <3>1. pc'[q] = pc[q] /\ job'[q] = job[q]
      BY <2>2, <2>5, BegunJob, Names
    <3> QED BY <1>2, <2>1, <3>1 DEF AimOf
  <2> QED BY <2>3, <2>4, <2>5
<1>17. ASSUME NEW s \in Sessions, Probe(s) PROVE AimOf(q)'
  <2>1. after' = after /\ queued' = queued /\ stalled' = stalled
    BY <1>17 DEF Probe, disk
  <2>2. pc[s] = "probe" /\ (Goes(s, "leave") \/ (Begins(s, "cancel", "dispatch", s) /\ s \in queued))
    BY <1>17 DEF Probe, Sends
  <2>3. CASE q = s
    BY <1>2, <2>1, <2>2, <2>3, BegunJob, Names DEF Goes, ProcTypes, NoJob, AimOf, CallsOff, Scheduling, Restoring
  <2>4. CASE q # s
    <3>1. pc'[q] = pc[q] /\ job'[q] = job[q]
      BY <2>2, <2>4, BegunJob, Names DEF Goes, ProcTypes
    <3> QED BY <1>2, <2>1, <3>1 DEF AimOf
  <2> QED BY <2>3, <2>4
<1>18. ASSUME NEW s \in Sessions, Sent(s) PROVE AimOf(q)'
  <2>1. pc[s] = "sent" /\ queued' = queued \ {s} /\ after' = after /\ stalled' = stalled
    BY <1>18 DEF Sent
  <2>2. CASE q = s
    <3>1. pc'[q] = "idle" /\ job'[q] = NoJob
      BY <1>18, <2>2, Names DEF Sent, Goes, ProcTypes
    <3> QED BY <3>1 DEF AimOf, NoJob, CallsOff, Scheduling, Restoring
  <2>3. CASE q # s
    <3>1. pc'[q] = pc[q] /\ job'[q] = job[q]
      BY <1>18, <2>3, Names DEF Sent, Goes, ProcTypes
    <3> QED BY <1>2, <2>1, <2>3, <3>1 DEF AimOf
  <2> QED BY <2>2, <2>3
<1>19. ASSUME NEW u \in Users, Queueing(u) PROVE AimOf(q)'
  <2>1. (after' => after \/ stalled') /\ (stalled => stalled')
    BY <1>19, Zenon DEF Queueing, disk
  <2>2. CASE q = u
    BY <1>19, <2>2, QueueingMoves, Names DEF AimOf, NoJob, CallsOff, Scheduling, Restoring, Scheduling, Restoring
  <2>3. CASE q # u
    <3>1. pc'[q] = pc[q] /\ job'[q].goal = job[q].goal /\ job'[q].on = job[q].on
      BY <1>19, <2>3, QueueingMoves, Names DEF Overtakes
    <3>2. queued \subseteq queued'
      BY <1>19 DEF Queueing, disk
    <3> QED BY <1>2, <2>1, <3>1, <3>2 DEF AimOf
  <2> QED BY <2>2, <2>3
<1>20. ASSUME NEW u \in Users, Arm(u) PROVE AimOf(q)'
  <2>1. queued' = queued /\ (\E v \in Users : job[v].goal = "disarm") => stalled'
    BY <1>20 DEF Arm
  <2>2. queued' = queued /\ (stalled => stalled')
    BY <1>20 DEF Arm
  <2>3. pc[u] = "arm" /\ pc' = [pc EXCEPT ![u] = "settings"] /\ job' = job
    BY <1>20 DEF Arm, Goes
  <2>4. CASE q = u
    BY <1>2, <2>1, <2>2, <2>3, <2>4, Names DEF AimOf, CallsOff, Scheduling, Restoring, ProcTypes
  <2>5. CASE q # u
    BY <1>2, <2>1, <2>2, <2>3, <2>5, Names DEF AimOf, CallsOff, Scheduling, Restoring, ProcTypes
  <2> QED BY <2>4, <2>5
<1>21. ASSUME NEW u \in Users, ForceErases(u) PROVE AimOf(q)'
  BY <1>21, <1>1, <1>2, Names DEF ForceErases, Goes, ProcTypes, Job, NoJob, AimOf, CallsOff,
                                  Scheduling, Restoring
<1>22. ASSUME NEW u \in Users, ForceExecutes(u) PROVE AimOf(q)'
  <2>1. stalled => stalled'
    BY <1>22, Zenon DEF ForceExecutes
  <2>2. after' = after /\ queued' = queued
    BY <1>22 DEF ForceExecutes, disk
  <2>3. CASE q = u
    BY <1>22, <1>1, <1>2, <2>1, <2>2, <2>3, Names DEF ForceExecutes, Goes, ProcTypes, Job, NoJob, AimOf, CallsOff, Scheduling, Restoring
  <2>4. CASE q # u
    <3>1. pc'[q] = pc[q] /\ job'[q] = job[q]
      BY <1>22, <1>1, <2>4, Names DEF ForceExecutes, Goes, ProcTypes
    <3> QED BY <1>2, <2>1, <2>2, <3>1 DEF AimOf
  <2> QED BY <2>3, <2>4
<1>23. ASSUME NEW u \in Users, ArmLooks(u) PROVE AimOf(q)'
  BY <1>23, <1>1, <1>2, Names DEF ArmLooks, Asks, disk, ProcTypes, Job, NoJob, AimOf,
                                  CallsOff, Scheduling, Restoring
<1>24. ASSUME NEW u \in Users, Disarm(u) PROVE AimOf(q)'
  <2>1. (after' => after \/ stalled') /\ (stalled => stalled')
    BY <1>24, Zenon DEF Disarm, disk
  <2>2. CASE q = u
    <3>1. pc'[q] = "clear" /\ job'[q].goal = "disarm" /\ ~after'
      BY <1>24, <2>2, DisarmMoves, Names DEF Disarm
    <3> QED BY <2>2, <3>1 DEF AimOf, Restoring
  <2>3. CASE q # u
    <3>1. pc'[q] = pc[q] /\ job'[q].goal = job[q].goal /\ job'[q].on = job[q].on
      BY <1>24, <2>3, DisarmMoves, Names DEF Overtakes
    <3>2. queued \subseteq queued'
      BY <1>24 DEF Disarm, disk
    <3> QED BY <1>2, <2>1, <3>1, <3>2 DEF AimOf
  <2> QED BY <2>2, <2>3
<1>25. ASSUME NEW u \in Users, ForceTakes(u) PROVE AimOf(q)'
  BY <1>25, <1>1, <1>2, Names DEF ForceTakes, Begins, Asks, disk, ProcTypes, Job, NoJob,
                                  AimOf, CallsOff, Scheduling, Restoring
<1>26. ASSUME NEW u \in Users, NEW s \in Sessions, UserSends(u, s) PROVE AimOf(q)'
  BY <1>26, <1>1, <1>2, Names DEF UserSends, Sends, Asks, disk, Begins, ProcTypes, Job,
                                  NoJob, AimOf, CallsOff, Scheduling, Restoring
<1>27. ASSUME NEW u \in Users, NEW s \in Sessions, Enqueue(u, s) PROVE AimOf(q)'
  BY <1>27, <1>1, <1>2, Names DEF Enqueue, Begins, Asks, disk, ProcTypes, Job, NoJob, AimOf,
                                  CallsOff, Scheduling, Restoring
<1>28. ASSUME NEW u \in Users, NEW s \in Sessions, RemoveItem(u, s) PROVE AimOf(q)'
  <2>1. job[s].goal # "dispatch" /\ queued' = queued \ {s} /\ after' = after /\ stalled' = stalled
    BY <1>28 DEF RemoveItem
  <2>2. Begins(u, "settings", "remove", s)
    BY <1>28 DEF RemoveItem
  <2>3. CASE q = u
    BY <2>2, <2>3, BegunJob, Names DEF AimOf, CallsOff, Scheduling, Restoring
  <2>4. CASE q # u
    <3>1. pc'[q] = pc[q] /\ job'[q] = job[q]
      BY <2>2, <2>4, BegunJob, Names
    <3> QED BY <1>2, <2>1, <3>1 DEF AimOf
  <2> QED BY <2>3, <2>4
<1>29. ASSUME NEW k \in Plans, Execute(k) PROVE AimOf(q)'
  <2>1. stalled => stalled'
    BY <1>29, Zenon DEF Execute
  <2>2. after' = after /\ queued' = queued /\ pc' = pc /\ job' = job
    BY <1>29 DEF Execute, disk
  <2> QED BY <1>2, <2>1, <2>2 DEF AimOf
<1>30. ASSUME HandleStarted PROVE AimOf(q)'
  BY <1>30, <1>1, <1>2, Names DEF HandleStarted, Begins, disk, ProcTypes, Job, NoJob, AimOf,
                                  CallsOff, Scheduling, Restoring
<1>31. ASSUME HandleCompleted PROVE AimOf(q)'
  <2>1. after' = after /\ queued' = queued /\ stalled' = stalled
    BY <1>31 DEF HandleCompleted, disk
  <2>2. UNCHANGED <<pc, job>> \/ Begins("monitor", "settings", "completed", Head(notes)[2])
    BY <1>31 DEF HandleCompleted
  <2>3. CASE UNCHANGED <<pc, job>>
    BY <1>2, <2>1, <2>3 DEF AimOf
  <2>4. CASE q = "monitor" /\ ~UNCHANGED <<pc, job>>
    BY <2>2, <2>4, BegunJob, Names DEF AimOf, CallsOff, Scheduling, Restoring
  <2>5. CASE q # "monitor" /\ ~UNCHANGED <<pc, job>>
    <3>1. pc'[q] = pc[q] /\ job'[q] = job[q]
      BY <2>2, <2>5, BegunJob, Names
    <3> QED BY <1>2, <2>1, <3>1 DEF AimOf
  <2> QED BY <2>3, <2>4, <2>5
<1>32. ASSUME Leave PROVE AimOf(q)'
  BY <1>32, <1>1, <1>2, Names DEF Leave, disk, ProcTypes, Job, NoJob, AimOf, CallsOff,
                                  Scheduling, Restoring
<1>33. ASSUME Mark PROVE AimOf(q)'
  BY <1>33, <1>1, <1>2, Names DEF Mark, Goes, ProcTypes, Job, NoJob, AimOf, CallsOff,
                                  Scheduling, Restoring
<1>34. ASSUME Look PROVE AimOf(q)'
  BY <1>34, <1>1, <1>2, Names DEF Look, Goes, disk, ProcTypes, Job, NoJob, AimOf, CallsOff,
                                  Scheduling, Restoring
<1>35. ASSUME Forget PROVE AimOf(q)'
  <2>1. (after' => after \/ stalled') /\ (stalled => stalled')
    BY <1>35, Zenon DEF Forget, disk
  <2>2. CASE q = "restore"
    BY <1>35, <2>2, ForgetMoves, Names DEF AimOf, NoJob, CallsOff, Scheduling, Restoring, Scheduling, Restoring
  <2>3. CASE q # "restore"
    <3>1. pc'[q] = pc[q] /\ job'[q].goal = job[q].goal /\ job'[q].on = job[q].on
      BY <1>35, <2>3, ForgetMoves, Names DEF Overtakes
    <3>2. queued \subseteq queued'
      BY <1>35 DEF Forget, disk
    <3> QED BY <1>2, <2>1, <3>1, <3>2 DEF AimOf
  <2> QED BY <2>2, <2>3
<1>36. ASSUME Judge PROVE AimOf(q)'
  BY <1>36, <1>1, <1>2, Names DEF Judge, Goes, disk, ProcTypes, Job, NoJob, AimOf, CallsOff,
                                  Scheduling, Restoring
<1>37. ASSUME Reprime PROVE AimOf(q)'
  BY <1>37, <1>1, <1>2, Names DEF Reprime, Goes, ProcTypes, Job, NoJob, AimOf, CallsOff,
                                  Scheduling, Restoring
<1>38. ASSUME Unprime PROVE AimOf(q)'
  BY <1>38, <1>1, <1>2, Names DEF Unprime, Goes, ProcTypes, Job, NoJob, AimOf, CallsOff,
                                  Scheduling, Restoring
<1>39. ASSUME Crash PROVE AimOf(q)'
  <2>1. /\ job'[q].goal \in {"none", "restore"} /\ pc'[q] \in {"mark", "idle"}
        /\ pc'[q] = "mark" => q = "restore"
    BY <1>39 DEF Crash, NoJob
  <2> QED BY <2>1 DEF AimOf, CallsOff, Scheduling, Restoring
<1>40. ASSUME UNCHANGED <<pc, job, queued, after, stalled>> PROVE AimOf(q)'
  BY <1>40, <1>1, <1>2, Names DEF ProcTypes, Job, NoJob, AimOf, CallsOff, Scheduling, Restoring
<1>41. ASSUME
       Tick
      PROVE AimOf(q)'
  BY <1>41, <1>40 DEF Tick, disk
<1>42. ASSUME NEW s \in Sessions,
       EndTurn(s)
      PROVE AimOf(q)'
  BY <1>42, <1>40 DEF EndTurn, disk
<1>43. ASSUME NEW u \in Users, NEW s \in Sessions,
       Resume(u, s)
      PROVE AimOf(q)'
  BY <1>43, <1>40 DEF Resume
<1>44. ASSUME NEW k \in Plans,
       Wake(k) \/ Erase(k)
      PROVE AimOf(q)'
  BY <1>44, <1>40 DEF Wake, disk, Erase
<1>45. ASSUME NEW u \in Users, Survey(u) PROVE AimOf(q)'
  <2>1. after' = after /\ queued' = queued /\ stalled' = stalled
    BY <1>45 DEF Survey, disk
  <2> QED BY <1>45, <1>2, <2>1, SurveyMoves, Names DEF AimOf, CallsOff, Scheduling, Restoring
<1>46. ASSUME NEW p \in Users \cup Sessions, Drop(p) PROVE AimOf(q)'
  <2>1. after' = after /\ queued' = queued /\ (stalled => stalled')
    BY <1>46 DEF Drop, disk
  <2> QED BY <1>46, <1>2, <2>1, DropMoves, Names DEF NoJob, AimOf, CallsOff, Restoring
<1> QED BY <1>3, <1>4, <1>5, <1>6, <1>7, <1>8, <1>9, <1>10, <1>11, <1>12, <1>13, <1>14,
           <1>15, <1>16, <1>17, <1>18, <1>19, <1>20, <1>21, <1>22, <1>23, <1>24, <1>25,
           <1>26, <1>27, <1>28, <1>29, <1>30, <1>31, <1>32, <1>33, <1>34, <1>35, <1>36,
           <1>37, <1>38, <1>39, <1>40, <1>41, <1>42, <1>43, <1>44, <1>45, <1>46
     DEF Next, vars, Continue, Queues, User, Request, Timers, Monitor, Restore

\* A send waits for its answer once app-server has the turn; a dispatch goes on when it
\* has the answer.
Answers(q) ==
  /\ pc'[q] = "answer" =>
       job'[q].on \in running' \/ (pc[q] = "answer" /\ job'[q].on = job[q].on)
  /\ pc'[q] = "sent" => pc[q] = "sent" \/ (Answered(q) /\ job[q].goal # "send")

\* Nobody gets to an answer in another way.
LEMMA AnswerMoves ==
  ASSUME ProcTypes, Next, NEW q \in Procs
  PROVE  Answers(q)
<1>1. job[q] \in Job /\ pc[q] \in Steps
  BY DEF ProcTypes
<1>2. ASSUME NEW p \in Procs, Cancel(p) PROVE Answers(q)
  <2>1. CASE q = p
    BY <1>2, <2>1, CancelMoves, Names DEF Answers, Then
  <2>2. CASE q # p
    <3>1. pc'[q] = pc[q] /\ job'[q].goal = job[q].goal /\ job'[q].on = job[q].on
      BY <1>2, <2>2, CancelMoves, Names DEF Overtakes
    <3> QED BY <3>1 DEF Answers
  <2> QED BY <2>1, <2>2
<1>3. ASSUME NEW p \in Procs, Prime(p) PROVE Answers(q)
  BY <1>3, <1>1, Names DEF Prime, Then, ProcTypes, Job, NoJob, Answers
<1>4. ASSUME NEW p \in Procs, Clear(p) PROVE Answers(q)
  BY <1>4, <1>1, Names DEF Clear, Goes, ProcTypes, Job, NoJob, Answers
<1>5. ASSUME NEW p \in Procs, Null(p) PROVE Answers(q)
  BY <1>5, <1>1, Names DEF Null, Goes, Then, ProcTypes, Job, NoJob, Answers
<1>6. ASSUME NEW p \in Procs, Settings(p) PROVE Answers(q)
  BY <1>6, <1>1, Names DEF Settings, Goes, ProcTypes, Job, NoJob, Answers
<1>7. ASSUME NEW p \in Procs, Work(p) PROVE Answers(q)
  BY <1>7, <1>1, Names DEF Work, Goes, ProcTypes, Job, NoJob, Answers
<1>8. ASSUME NEW p \in Procs, Turns(p) PROVE Answers(q)
  BY <1>8, <1>1, Names DEF Turns, Goes, ProcTypes, Job, NoJob, Answers
<1>9. ASSUME NEW p \in Procs, Threads(p) PROVE Answers(q)
  BY <1>9, <1>1, Names DEF Threads, Goes, ProcTypes, Job, NoJob, Answers
<1>10. ASSUME NEW p \in Procs, Write(p) PROVE Answers(q)
  BY <1>10, <1>1, Names DEF Write, Goes, ProcTypes, Job, NoJob, Answers
<1>11. ASSUME NEW p \in Procs, Stop(p) PROVE Answers(q)
  BY <1>11, <1>1, Names DEF Stop, Goes, ProcTypes, Job, NoJob, Answers
<1>12. ASSUME NEW p \in Procs, Start(p) PROVE Answers(q)
  BY <1>12, <1>1, Names DEF Start, Goes, ProcTypes, Job, NoJob, Answers
<1>13. ASSUME NEW p \in Procs, Ask(p) PROVE Answers(q)
  <2>1. CASE q = p
    <3>1. \/ running' = running \cup {job[p].on} /\ Goes(p, "answer")
          \/ Goes(p, "leave")
      BY <1>13 DEF Ask
    <3> QED BY <1>1, <2>1, <3>1, Names DEF Goes, ProcTypes, Job, NoJob, Answers
  <2>2. CASE q # p
    BY <1>13, <1>1, <2>2, Names DEF Ask, Goes, ProcTypes, Job, Answers
  <2> QED BY <2>1, <2>2
<1>14. ASSUME NEW p \in Procs, Answered(p) PROVE Answers(q)
  <2>1. CASE q = p
    BY <1>14, <1>1, <2>1, Names DEF Answered, Goes, ProcTypes, Job, NoJob, Answers
  <2>2. CASE q # p
    BY <1>14, <1>1, <2>2, Names DEF Answered, Goes, ProcTypes, Job, Answers
  <2> QED BY <2>1, <2>2
<1>15. ASSUME NEW s \in Sessions, Drain(s) PROVE Answers(q)
  BY <1>15, <1>1, Names DEF Drain, Begins, ProcTypes, Job, NoJob, Answers
<1>16. ASSUME NEW s \in Sessions, Probe(s) PROVE Answers(q)
  BY <1>16, <1>1, Names DEF Probe, Goes, Sends, Begins, ProcTypes, Job, NoJob, Answers
<1>17. ASSUME NEW s \in Sessions, Sent(s) PROVE Answers(q)
  BY <1>17, <1>1, Names DEF Sent, Goes, ProcTypes, Job, NoJob, Answers
<1>18. ASSUME NEW u \in Users, Queueing(u) PROVE Answers(q)
  <2>1. CASE q = u
    BY <1>18, <2>1, QueueingMoves, Names DEF Answers
  <2>2. CASE q # u
    <3>1. pc'[q] = pc[q] /\ job'[q].goal = job[q].goal /\ job'[q].on = job[q].on
      BY <1>18, <2>2, QueueingMoves, Names DEF Overtakes
    <3> QED BY <3>1 DEF Answers
  <2> QED BY <2>1, <2>2
<1>19. ASSUME NEW u \in Users, Arm(u) PROVE Answers(q)
  BY <1>19, <1>1, Names DEF Arm, Goes, ProcTypes, Job, NoJob, Answers
<1>20. ASSUME NEW u \in Users, ForceErases(u) PROVE Answers(q)
  BY <1>20, <1>1, Names DEF ForceErases, Goes, ProcTypes, Job, NoJob, Answers
<1>21. ASSUME NEW u \in Users, ForceExecutes(u) PROVE Answers(q)
  BY <1>21, <1>1, Names DEF ForceExecutes, Goes, ProcTypes, Job, NoJob, Answers
<1>22. ASSUME NEW u \in Users, ArmLooks(u) PROVE Answers(q)
  BY <1>22, <1>1, Names DEF ArmLooks, ProcTypes, Job, NoJob, Answers
<1>23. ASSUME NEW u \in Users, Disarm(u) PROVE Answers(q)
  <2>1. CASE q = u
    BY <1>23, <2>1, DisarmMoves, Names DEF Answers
  <2>2. CASE q # u
    <3>1. pc'[q] = pc[q] /\ job'[q].goal = job[q].goal /\ job'[q].on = job[q].on
      BY <1>23, <2>2, DisarmMoves, Names DEF Overtakes
    <3> QED BY <3>1 DEF Answers
  <2> QED BY <2>1, <2>2
<1>24. ASSUME NEW u \in Users, ForceTakes(u) PROVE Answers(q)
  BY <1>24, <1>1, Names DEF ForceTakes, Begins, ProcTypes, Job, NoJob, Answers
<1>25. ASSUME NEW u \in Users, NEW s \in Sessions, UserSends(u, s) PROVE Answers(q)
  BY <1>25, <1>1, Names DEF UserSends, Sends, Begins, ProcTypes, Job, NoJob, Answers
<1>26. ASSUME NEW u \in Users, NEW s \in Sessions, Enqueue(u, s) PROVE Answers(q)
  BY <1>26, <1>1, Names DEF Enqueue, Begins, ProcTypes, Job, NoJob, Answers
<1>27. ASSUME NEW u \in Users, NEW s \in Sessions, RemoveItem(u, s) PROVE Answers(q)
  BY <1>27, <1>1, Names DEF RemoveItem, Begins, ProcTypes, Job, NoJob, Answers
<1>28. ASSUME HandleStarted PROVE Answers(q)
  BY <1>28, <1>1, Names DEF HandleStarted, Begins, ProcTypes, Job, NoJob, Answers
<1>29. ASSUME HandleCompleted PROVE Answers(q)
  BY <1>29, <1>1, Names DEF HandleCompleted, Begins, ProcTypes, Job, NoJob, Answers
<1>30. ASSUME Leave PROVE Answers(q)
  BY <1>30, <1>1, Names DEF Leave, ProcTypes, Job, NoJob, Answers
<1>31. ASSUME Mark PROVE Answers(q)
  BY <1>31, <1>1, Names DEF Mark, Goes, ProcTypes, Job, NoJob, Answers
<1>32. ASSUME Look PROVE Answers(q)
  BY <1>32, <1>1, Names DEF Look, Goes, ProcTypes, Job, NoJob, Answers
<1>33. ASSUME Forget PROVE Answers(q)
  <2>1. CASE q = "restore"
    BY <1>33, <2>1, ForgetMoves, Names DEF Answers
  <2>2. CASE q # "restore"
    <3>1. pc'[q] = pc[q] /\ job'[q].goal = job[q].goal /\ job'[q].on = job[q].on
      BY <1>33, <2>2, ForgetMoves, Names DEF Overtakes
    <3> QED BY <3>1 DEF Answers
  <2> QED BY <2>1, <2>2
<1>34. ASSUME Judge PROVE Answers(q)
  BY <1>34, <1>1, Names DEF Judge, Goes, ProcTypes, Job, NoJob, Answers
<1>35. ASSUME Reprime PROVE Answers(q)
  BY <1>35, <1>1, Names DEF Reprime, Goes, ProcTypes, Job, NoJob, Answers
<1>36. ASSUME Unprime PROVE Answers(q)
  BY <1>36, <1>1, Names DEF Unprime, Goes, ProcTypes, Job, NoJob, Answers
<1>37. ASSUME Crash PROVE Answers(q)
  BY <1>37, <1>1, Names DEF Crash, ProcTypes, Job, NoJob, Answers
<1>38. ASSUME UNCHANGED <<pc, job>> PROVE Answers(q)
  BY <1>38, <1>1, Names DEF ProcTypes, Job, NoJob, Answers
<1>39. ASSUME
       Tick
      PROVE Answers(q)
  BY <1>39, <1>38 DEF Tick
<1>40. ASSUME NEW s \in Sessions,
       EndTurn(s)
      PROVE Answers(q)
  BY <1>40, <1>38 DEF EndTurn
<1>41. ASSUME NEW u \in Users, NEW s \in Sessions,
       Resume(u, s)
      PROVE Answers(q)
  BY <1>41, <1>38 DEF Resume
<1>42. ASSUME NEW k \in Plans,
       Wake(k) \/ Erase(k) \/ Execute(k)
      PROVE Answers(q)
  BY <1>42, <1>38 DEF Wake, Erase, Execute
<1>43. ASSUME NEW u \in Users, Survey(u) PROVE Answers(q)
  BY <1>43, SurveyMoves, Names DEF Answers
<1>44. ASSUME NEW p \in Users \cup Sessions, Drop(p) PROVE Answers(q)
  BY <1>44, DropMoves, Names DEF Answers
<1> QED BY <1>2, <1>3, <1>4, <1>5, <1>6, <1>7, <1>8, <1>9, <1>10, <1>11, <1>12, <1>13, <1>14,
           <1>15, <1>16, <1>17, <1>18, <1>19, <1>20, <1>21, <1>22, <1>23, <1>24, <1>25,
           <1>26, <1>27, <1>28, <1>29, <1>30, <1>31, <1>32, <1>33, <1>34, <1>35, <1>36,
           <1>37, <1>38, <1>39, <1>40, <1>41, <1>42, <1>43, <1>44
     DEF Next, vars, Continue, Queues, User, Request, Timers, Monitor, Restore

\* A turn is listed when its start is answered, or heard of, until its end is handled.
Lists(t) ==
  t \in active' =>
    \/ t \in active
    \/ \E p \in Procs : Answered(p) /\ job[p].on = t
    \/ HandleStarted /\ Head(notes)[2] = t

\* No turn is listed in another way.
LEMMA ActiveMoves ==
  ASSUME Next, NEW t
  PROVE  Lists(t)
<1>1. ASSUME NEW p \in Procs, Answered(p) PROVE Lists(t)
  BY <1>1 DEF Answered, Lists
<1>2. ASSUME NEW s \in Sessions, Probe(s) PROVE Lists(t)
  BY <1>2 DEF Probe, Sends, Lists
<1>3. ASSUME NEW u \in Users, NEW s \in Sessions, UserSends(u, s) PROVE Lists(t)
  BY <1>3 DEF UserSends, Sends, Lists
<1>4. ASSUME HandleStarted PROVE Lists(t)
  BY <1>4 DEF HandleStarted, Lists
<1>5. ASSUME HandleCompleted PROVE Lists(t)
  BY <1>5 DEF HandleCompleted, Lists
<1>6. ASSUME Crash PROVE Lists(t)
  BY <1>6 DEF Crash, Lists
<1>7. ASSUME UNCHANGED active PROVE Lists(t)
  BY <1>7 DEF Lists
<1>8. ASSUME
       Leave \/ Mark \/ Look \/ Forget \/ Judge \/ Reprime \/ Unprime \/ Tick
      PROVE Lists(t)
  BY <1>8, <1>7 DEF Leave, work, Mark, Look, Forget, Judge, Reprime, Unprime, Tick
<1>9. ASSUME NEW p \in Procs,
       Cancel(p) \/ Prime(p) \/ Clear(p) \/ Null(p) \/ Settings(p) \/ Work(p) \/ Turns(p)
       \/ Threads(p) \/ Write(p) \/ Stop(p) \/ Start(p) \/ Ask(p)
      PROVE Lists(t)
  BY <1>9, <1>7 DEF Cancel, work, Prime, Clear, Null, Settings, Work, Turns, Threads, Write,
                    Stop, Start, Ask
<1>10. ASSUME NEW s \in Sessions,
       Drain(s) \/ Sent(s) \/ EndTurn(s)
      PROVE Lists(t)
  BY <1>10, <1>7 DEF Drain, work, Sent, EndTurn
<1>11. ASSUME NEW u \in Users,
       Queueing(u) \/ Arm(u) \/ ForceErases(u) \/ ForceExecutes(u) \/ ArmLooks(u) \/
       Disarm(u) \/ ForceTakes(u)
      PROVE Lists(t)
  BY <1>11, <1>7 DEF Queueing, work, Arm, ForceErases, ForceExecutes, ArmLooks, Disarm,
                     ForceTakes
<1>12. ASSUME NEW u \in Users, NEW s \in Sessions,
       Enqueue(u, s) \/ RemoveItem(u, s) \/ Resume(u, s)
      PROVE Lists(t)
  BY <1>12, <1>7 DEF Enqueue, work, RemoveItem, Resume
<1>13. ASSUME NEW k \in Plans,
       Wake(k) \/ Erase(k) \/ Execute(k)
      PROVE Lists(t)
  BY <1>13, <1>7 DEF Wake, work, Erase, Execute
<1>14. ASSUME NEW u \in Users, Survey(u) PROVE Lists(t)
  BY <1>14, <1>7 DEF Survey, work
<1>15. ASSUME NEW p \in Users \cup Sessions, Drop(p) PROVE Lists(t)
  BY <1>15, <1>7 DEF Drop, work
<1> QED BY <1>1, <1>2, <1>3, <1>4, <1>5, <1>6, <1>7, <1>8, <1>9, <1>10, <1>11, <1>12, <1>13, <1>14, <1>15
     DEF Next, vars, Continue, Queues, User, Request, Timers, Monitor, Restore

\* A turn whose end is handled is not listed.
LEMMA Unlists ==
  ASSUME NEW t PROVE Crash \/ Ends(t) => t \notin active'
  BY DEF Crash, Ends, HandleCompleted

\* A turn that is listed runs, or its end is to be handled; so does one that a send
\* has heard of.
ActiveInv == \A s \in active : Live(s)
Finishing(s) == job["monitor"].goal = "completed" /\ job["monitor"].on = s
AnswerInv == \A p \in Procs : pc[p] = "answer" => Live(job[p].on)
SentInv == \A p \in Procs : pc[p] = "sent" => Live(p) \/ p \in wake \/ Finishing(p)
TurnInv == Base /\ LockInv /\ NoteInv /\ AimInv /\ ActiveInv /\ AnswerInv /\ SentInv

\* An answer is about a session.
LEMMA AnsweredOn ==
  ASSUME Base, NEW p \in Procs, pc[p] = "answer"
  PROVE  job[p].goal \in {"send", "dispatch"} /\ job[p].on \in Sessions
  BY DEF Base, GoalInv, GoalOf, Aimed

\* What nobody touches stays.
LEMMA LiveStays ==
  ASSUME NEW t, Live(t), running' = running, notes' = notes PROVE Live(t)'
  BY DEF Live, Ended

\* ActiveInv is inductive over the rest.
LEMMA ActiveInvSteps ==
  ASSUME TurnInv, Next PROVE ActiveInv'
<1> USE DEF TurnInv
<1> SUFFICES ASSUME NEW t \in active' PROVE Live(t)'
  BY DEF ActiveInv
<1>1. CASE t \in active
  <2>1. Live(t) /\ t \in Sessions
    BY <1>1 DEF ActiveInv, Base, WorkTypes
  <2> QED BY <2>1, LiveKept, Unlists DEF Base
<1>2. ASSUME NEW p \in Procs, Answered(p), job[p].on = t PROVE Live(t)'
  <2>1. pc[p] = "answer" /\ running' = running /\ notes' = notes
    BY <1>2 DEF Answered
  <2> QED BY <1>2, <2>1, LiveStays DEF AnswerInv
<1>3. CASE HandleStarted /\ Head(notes)[2] = t
  <2>1. running' = running /\ notes' = Tail(notes) /\ notes # <<>> /\ notes \in Seq(Notes)
    BY <1>3 DEF HandleStarted, Base, WorkTypes
  <2> DEFINE a == Tail(notes)
  <2>2. /\ DOMAIN notes = 1..Len(notes) /\ Len(notes) \in Nat \ {0} /\ Head(notes) = notes[1]
        /\ DOMAIN a = 1..(Len(notes) - 1) /\ notes[1] \in Notes
        /\ \A i \in 1..(Len(notes) - 1) : a[i] = notes[i + 1]
    BY <2>1, TailNote
  <2> HIDE DEF a
  <2>3. notes[1] = <<"started", t>> /\ t \in Sessions /\ 1 \in DOMAIN notes
    BY <1>3, <2>2 DEF HandleStarted, Notes
  <2>4. CASE t \in running
    BY <2>1, <2>4 DEF Live
  <2>5. CASE t \notin running
    <3>1. PICK j \in DOMAIN notes : j > 1 /\ notes[j] = <<"completed", t>>
      BY <2>3, <2>5 DEF NoteInv
    <3>2. j - 1 \in DOMAIN a /\ a[j - 1] = <<"completed", t>>
      BY <2>2, <3>1
    <3> QED BY <2>1, <3>2 DEF Live, Ended, Range, a
  <2> QED BY <2>4, <2>5
<1> QED BY <1>1, <1>2, <1>3, ActiveMoves DEF Lists

\* So is AnswerInv.
LEMMA AnswerInvSteps ==
  ASSUME TurnInv, Next PROVE AnswerInv'
<1> USE DEF TurnInv
<1> SUFFICES ASSUME NEW q \in Procs, pc'[q] = "answer"
             PROVE  job'[q].on \in running' \/ <<"completed", job'[q].on>> \in Range(notes')
  BY DEF AnswerInv, Live, Ended
<1>1. CASE job'[q].on \in running'
  BY <1>1
<1>2. ASSUME NEW t, pc[q] = "answer", t = job[q].on, job'[q].on = t
      PROVE  job'[q].on \in running' \/ <<"completed", job'[q].on>> \in Range(notes')
  <2>1. Live(t) /\ t \in Sessions /\ lock[t] = q
    BY <1>2, AnsweredOn DEF AnswerInv, LockInv, LockOf
  <2>2. ~Crash
    BY DEF Crash
  <2>3. ~Ends(t)
    BY <2>1, Names DEF Ends, HandleCompleted
  <2>4. Live(t)'
    BY <2>1, <2>2, <2>3, LiveKept DEF Base
  <2> QED BY <1>2, <2>4 DEF Live, Ended
<1> QED BY <1>1, <1>2, AnswerMoves DEF Answers, Base

\* A drain that is spawned begins.
LEMMA WakeMoves ==
  ASSUME Next, NEW t
  PROVE  (t \in wake => t \in wake' \/ pc[t] = "idle") \/ Crash
<1> DEFINE Goal == (t \in wake => t \in wake' \/ pc[t] = "idle") \/ Crash
<1>1. ASSUME NEW p \in Procs, Ask(p) PROVE Goal
  BY <1>1 DEF Ask
<1>2. ASSUME NEW s \in Sessions, Drain(s) PROVE Goal
  BY <1>2 DEF Drain
<1>3. ASSUME NEW s \in Sessions, Probe(s) PROVE Goal
  BY <1>3 DEF Probe, Sends
<1>4. ASSUME NEW u \in Users, Queueing(u) PROVE Goal
  BY <1>4 DEF Queueing
<1>5. ASSUME NEW u \in Users, NEW s \in Sessions, Resume(u, s) PROVE Goal
  BY <1>5 DEF Resume
<1>6. ASSUME Leave PROVE Goal
  BY <1>6 DEF Leave
<1>7. ASSUME Crash PROVE Goal
  BY <1>7
<1>8. ASSUME UNCHANGED wake PROVE Goal
  BY <1>8
<1>9. ASSUME
       HandleStarted \/ HandleCompleted \/ Mark \/ Look \/ Forget \/ Judge \/ Reprime \/
       Unprime \/ Tick
      PROVE Goal
  BY <1>9, <1>8 DEF HandleStarted, HandleCompleted, Mark, Look, Forget, Judge, Reprime,
                    Unprime, Tick
<1>10. ASSUME NEW p \in Procs,
       Cancel(p) \/ Prime(p) \/ Clear(p) \/ Null(p) \/ Settings(p) \/ Work(p) \/ Turns(p)
       \/ Threads(p) \/ Write(p) \/ Stop(p) \/ Start(p) \/ Answered(p)
      PROVE Goal
  BY <1>10, <1>8 DEF Cancel, Prime, Clear, Null, Settings, Work, Turns, Threads, Write, Stop,
                     Start, Answered
<1>11. ASSUME NEW s \in Sessions,
       Sent(s) \/ EndTurn(s)
      PROVE Goal
  BY <1>11, <1>8 DEF Sent, EndTurn
<1>12. ASSUME NEW u \in Users,
       Arm(u) \/ ForceErases(u) \/ ForceExecutes(u) \/ ArmLooks(u) \/ Disarm(u) \/
       ForceTakes(u)
      PROVE Goal
  BY <1>12, <1>8 DEF Arm, ForceErases, ForceExecutes, ArmLooks, Disarm, ForceTakes
<1>13. ASSUME NEW u \in Users, NEW s \in Sessions,
       UserSends(u, s) \/ Enqueue(u, s) \/ RemoveItem(u, s)
      PROVE Goal
  BY <1>13, <1>8 DEF UserSends, Sends, Enqueue, RemoveItem
<1>14. ASSUME NEW k \in Plans,
       Wake(k) \/ Erase(k) \/ Execute(k)
      PROVE Goal
  BY <1>14, <1>8 DEF Wake, Erase, Execute
<1>15. ASSUME NEW u \in Users, Survey(u) PROVE Goal
  BY <1>15, <1>8 DEF Survey
<1>16. ASSUME NEW p \in Users \cup Sessions, Drop(p) PROVE Goal
  BY <1>16, <1>8 DEF Drop
<1> QED BY <1>1, <1>2, <1>3, <1>4, <1>5, <1>6, <1>7, <1>8, <1>9, <1>10, <1>11, <1>12, <1>13,
           <1>14, <1>15, <1>16
     DEF Next, vars, Continue, Queues, User, Request, Timers, Monitor, Restore

\* The end of a turn is handled by the monitor.
LEMMA EndsFinishing ==
  ASSUME Base, NEW t, Ends(t) PROVE Finishing(t)'
<1>1. HandleCompleted /\ Head(notes)[2] = t /\ <<"started", t>> \notin Range(Tail(notes))
  BY DEF Ends
<1>2. Begins("monitor", "settings", "completed", t)
  BY <1>1 DEF HandleCompleted
<1> QED BY <1>2, BegunJob, Names DEF Base, Finishing

\* SentInv is inductive over the rest.
LEMMA SentInvSteps ==
  ASSUME TurnInv, Next PROVE SentInv'
<1> USE DEF TurnInv
<1> SUFFICES ASSUME NEW q \in Procs, pc'[q] = "sent"
             PROVE  Live(q)' \/ q \in wake' \/ Finishing(q)'
  BY DEF SentInv
<1>1. ~Crash
  BY DEF Crash
<1>2. CASE pc[q] = "sent"
  <2>1. q \in Sessions
    BY <1>2 DEF AimInv, AimOf, Base, GoalInv, GoalOf
  <2>2. CASE Live(q)
    BY <1>1, <2>1, <2>2, LiveKept, EndsFinishing DEF Base
  <2>3. CASE q \in wake
    BY <1>1, <1>2, <2>3, WakeMoves
  <2>4. CASE Finishing(q)
    <3>1. pc["monitor"] # "idle"
      BY <2>4, Names DEF Finishing, Base, GoalInv, GoalOf
    <3>2. ~HandleStarted /\ ~HandleCompleted
      BY <3>1 DEF HandleStarted, HandleCompleted
    <3>3. Leave => q \in wake'
      BY <2>4 DEF Leave, Finishing
    <3>4. SameHeard => Finishing(q)'
      BY <2>4 DEF SameHeard, Finishing
    <3> QED BY <1>1, <3>2, <3>3, <3>4, MonitorSteps DEF Base
  <2> QED BY <1>2, <2>2, <2>3, <2>4 DEF SentInv
<1>3. CASE Answered(q) /\ job[q].goal # "send"
  <2>1. pc[q] = "answer" /\ running' = running /\ notes' = notes
    BY <1>3 DEF Answered
  <2>2. job[q].on = q
    BY <1>3, <2>1, AnsweredOn DEF AimInv, AimOf
  <2>3. Live(q)
    BY <2>1, <2>2 DEF AnswerInv
  <2>4. Live(q)'
    BY <2>1, <2>3, LiveStays
  <2> QED BY <2>4
<1> QED BY <1>2, <1>3, AnswerMoves DEF Answers, Base

\* TurnInv is inductive.
LEMMA TurnInvSteps ==
  ASSUME TurnInv, [Next]_vars PROVE TurnInv'
<1>1. CASE Next
  <2>1. Base' /\ LockInv'
    BY <1>1, BaseSteps, LockSteps DEF TurnInv, Base, LockInv, Procs
  <2>2. AimInv'
    BY <1>1, AimSteps DEF TurnInv, Base, AimInv, Procs
  <2> QED BY <1>1, <2>1, <2>2, NoteInvSteps, ActiveInvSteps, AnswerInvSteps, SentInvSteps
          DEF TurnInv, Base
<1>2. CASE UNCHANGED vars
  <2>1. Base'
    BY <1>2, BaseSteps DEF TurnInv
  <2>2. LockInv' /\ NoteInv' /\ AimInv'
    BY <1>2 DEF TurnInv, LockInv, LockOf, NoteInv, AimInv, AimOf, vars, disk, work
  <2>3. ActiveInv' /\ AnswerInv' /\ SentInv'
    BY <1>2 DEF TurnInv, ActiveInv, AnswerInv, SentInv, Live, Ended, Finishing, vars, work
  <2> QED BY <2>1, <2>2, <2>3 DEF TurnInv
<1> QED BY <1>1, <1>2

\* It holds at the start.
LEMMA TurnInvInit == Init => TurnInv
<1> SUFFICES ASSUME Init PROVE TurnInv
  OBVIOUS
<1>1. Base
  BY BaseInit
<1>2. \A p \in Procs : pc[p] = "idle" /\ job[p] = NoJob
  BY DEF Init
<1>3. LockInv /\ AimInv /\ AnswerInv /\ SentInv
  BY <1>2 DEF LockInv, LockOf, AimInv, AimOf, CallsOff, Restoring, AnswerInv, SentInv, NoJob
<1>4. NoteInv /\ ActiveInv
  BY DEF Init, NoteInv, ActiveInv
<1> QED BY <1>1, <1>3, <1>4 DEF TurnInv

\* Somebody is on the way to the plan, or to what makes somebody be.
Due == Done /\ ~stalled
Bringing == {"send", "enqueue", "dispatch"}
Busy(p) ==
  \/ pc[p] \in Scheduling \cup Restoring
  \/ pc[p] \in (CallsOff \ {"cancel"}) \cup {"ask", "queueing"} /\ job[p].goal \in Bringing
  \/ pc[p] = "judge" /\ job[p].wish = "primed"
  \/ p = "monitor" /\ pc[p] = "leave" /\ job[p].goal = "completed"
Token == Coming \/ wake # {} \/ (\E s \in Sessions : Ended(s)) \/ \E p \in Procs : Busy(p)
DueInv == Due => Token
DoneInv == TurnInv /\ ToldInv /\ DueInv

\* A call-off is on behalf of work that comes, or a turn has ended.
LEMMA CallOffEnds ==
  ASSUME TurnInv, ToldInv, NEW p \in Procs, pc[p] \in CallsOff, after, ~stalled, running = {}
  PROVE  job[p].goal \in Bringing \/ \E s \in Sessions : Ended(s)
<1>1. job[p].goal \in Bringing \cup {"started", "disarm"} /\ job[p].goal # "disarm"
  BY DEF TurnInv, AimInv, AimOf, Bringing
<1>2. CASE job[p].goal = "started"
  <2>1. Told /\ job["monitor"].on \in active
    BY <1>2 DEF TurnInv, AimInv, AimOf, Told, ToldInv
  <2>2. job["monitor"].on \in Sessions /\ Live(job["monitor"].on)
    BY <2>1 DEF TurnInv, ActiveInv, Base, WorkTypes
  <2> QED BY <2>2 DEF Live
<1> QED BY <1>1, <1>2

\* The note that a turn ended is enough.
LEMMA EndedStays ==
  ASSUME NEW s \in Sessions, Ended(s), notes' = notes PROVE Token'
  BY DEF Ended, Token

\* Work that comes is asked for or queued after the call-off.
LEMMA Brings ==
  \A g \in Bringing : Then(g) \in {"ask", "queueing"}
  BY DEF Bringing, Then

\* What it means that the plan is due.
LEMMA DueNow ==
  ASSUME Due' PROVE after' /\ primed' /\ running' = {} /\ queued' = {} /\ ~stalled'
  BY DEF Due, Done

\* After a restart the restoration is on its way.
LEMMA CrashBusy ==
  ASSUME Crash PROVE Token'
<1>1. pc'["restore"] = "mark" /\ "restore" \in Procs
  BY Names DEF Crash
<1> QED BY <1>1 DEF Token, Busy, Restoring

\* Whoever ends the work last is on the way to the plan.
LEMMA DueComes ==
  ASSUME TurnInv, ToldInv, Next, Due'
  PROVE  Due \/ Token'
<1>1. after' /\ primed' /\ running' = {} /\ queued' = {} /\ ~stalled'
  BY DueNow
<1>2. ASSUME NEW p \in Procs, Prime(p) PROVE Due \/ Token'
  <2>1. /\ pc[p] = "prime" /\ after' = after /\ running' = running /\ notes' = notes /\ stalled' = stalled
        /\ pc'[p] \in {"clear", Then(job[p].goal)} /\ job'[p].goal = job[p].goal
    BY <1>2 DEF Prime, work, Base, ProcTypes, Job, TurnInv
  <2>2. CASE job[p].goal \in Bringing
    <3>1. Busy(p)'
      BY <2>1, <2>2, Brings DEF Busy, CallsOff
    <3> QED BY <3>1 DEF Token
  <2>3. CASE job[p].goal \notin Bringing
    <3>1. \E s \in Sessions : Ended(s)
      BY <1>1, <2>1, <2>3, CallOffEnds DEF CallsOff
    <3> QED BY <2>1, <3>1, EndedStays
  <2> QED BY <2>2, <2>3
<1>3. ASSUME NEW p \in Procs, Settings(p) PROVE Due \/ Token'
  <2>1. stalled => stalled'
    BY <1>3, Zenon DEF Settings
  <2>2. UNCHANGED <<after, primed, running, queued>>
    BY <1>3 DEF Settings, disk, work
  <2> QED BY <1>1, <2>1, <2>2, Zenon DEF Due, Done
<1>4. ASSUME NEW p \in Procs, Threads(p) PROVE Due \/ Token'
  <2>1. stalled => stalled'
    BY <1>4, Zenon DEF Threads
  <2>2. UNCHANGED <<after, primed, running, queued>>
    BY <1>4 DEF Threads, disk, work
  <2> QED BY <1>1, <2>1, <2>2, Zenon DEF Due, Done
<1>5. ASSUME NEW p \in Procs, Write(p) PROVE Due \/ Token'
  <2>1. stalled => stalled'
    BY <1>5, Zenon DEF Write
  <2>2. UNCHANGED <<after, primed, running, queued>>
    BY <1>5 DEF Write, work
  <2> QED BY <1>1, <2>1, <2>2, Zenon DEF Due, Done
<1>6. ASSUME NEW p \in Procs, Ask(p) PROVE Due \/ Token'
  <2>1. UNCHANGED <<after, primed, running, queued>> /\ (stalled => stalled')
    <3>1. running' = running
      BY <1>6, <1>1 DEF Ask
    <3> QED BY <1>6, <3>1, Zenon DEF Ask
  <2> QED BY <1>1, <2>1, Zenon DEF Due, Done
<1>7. ASSUME NEW s \in Sessions, Sent(s) PROVE Due \/ Token'
  <2>1. /\ pc[s] = "sent" /\ wake' = wake /\ running' = running /\ notes' = notes /\ lock' = lock
        /\ s \in Procs /\ s # "monitor"
    BY <1>7, Names DEF Sent, work
  <2>2. CASE Live(s)
    BY <1>1, <2>1, <2>2, EndedStays DEF Live
  <2>3. CASE s \in wake
    BY <2>1, <2>3 DEF Token
  <2>4. CASE Finishing(s)
    <3>1. pc'["monitor"] = pc["monitor"] /\ job'["monitor"] = job["monitor"]
      BY <1>7, <2>1, Names DEF Sent, Goes, TurnInv, Base, ProcTypes
    <3>2. pc["monitor"] \in Scheduling \cup {"leave"}
      BY <2>4, Names DEF Finishing, TurnInv, AimInv, AimOf
    <3>3. Busy("monitor")'
      BY <2>4, <3>1, <3>2 DEF Busy, Finishing
    <3> QED BY <3>3, Names DEF Token
  <2> QED BY <2>1, <2>2, <2>3, <2>4 DEF TurnInv, SentInv
<1>8. ASSUME NEW s \in Sessions, EndTurn(s) PROVE Due \/ Token'
  <2>1. Ended(s)'
    BY <1>8, RangeAppend DEF EndTurn, Ended, TurnInv, Base, WorkTypes
  <2> QED BY <2>1 DEF Token
<1>9. ASSUME NEW u \in Users, Queueing(u) PROVE Due \/ Token'
  BY <1>9, <1>1 DEF Queueing
<1>10. ASSUME NEW u \in Users, Arm(u) PROVE Due \/ Token'
  <2>1. pc'[u] = "settings" /\ u \in Procs
    BY <1>10, Names DEF Arm, Goes, TurnInv, Base, ProcTypes
  <2> QED BY <2>1 DEF Token, Busy, Scheduling
<1>11. ASSUME NEW u \in Users, ForceExecutes(u) PROVE Due \/ Token'
  <2>1. stalled => stalled'
    BY <1>11, Zenon DEF ForceExecutes
  <2>2. UNCHANGED <<after, primed, running, queued>>
    BY <1>11 DEF ForceExecutes, disk, work
  <2> QED BY <1>1, <2>1, <2>2, Zenon DEF Due, Done
<1>12. ASSUME NEW u \in Users, Disarm(u) PROVE Due \/ Token'
  BY <1>12, <1>1 DEF Disarm
<1>13. ASSUME NEW u \in Users, NEW s \in Sessions, RemoveItem(u, s) PROVE Due \/ Token'
  <2>1. pc'[u] = "settings" /\ u \in Procs
    BY <1>13, BegunJob, Names DEF RemoveItem, TurnInv, Base
  <2> QED BY <2>1 DEF Token, Busy, Scheduling
<1>14. ASSUME NEW k \in Plans, Execute(k) PROVE Due \/ Token'
  <2>1. stalled => stalled'
    BY <1>14, Zenon DEF Execute
  <2>2. UNCHANGED <<after, primed, running, queued>>
    BY <1>14 DEF Execute, disk, work
  <2> QED BY <1>1, <2>1, <2>2, Zenon DEF Due, Done
<1>15. ASSUME Forget PROVE Due \/ Token'
  BY <1>15, <1>1 DEF Forget
<1>16. ASSUME Reprime PROVE Due \/ Token'
  <2>1. pc'["restore"] \in {"stop", "settings"} /\ "restore" \in Procs
    BY <1>16, Names DEF Reprime, Goes, TurnInv, Base, ProcTypes
  <2> QED BY <2>1 DEF Token, Busy, Scheduling
<1>17. ASSUME Unprime PROVE Due \/ Token'
  BY <1>17, <1>1 DEF Unprime
<1>18. ASSUME Crash PROVE Due \/ Token'
  BY <1>18, CrashBusy
<1>19. ASSUME UNCHANGED <<after, primed, running, queued, stalled>> PROVE Due \/ Token'
  BY <1>19 DEF Due, Done
<1>20. ASSUME
       HandleStarted \/ HandleCompleted \/ Leave \/ Mark \/ Look \/ Judge \/ Tick
      PROVE Due \/ Token'
  BY <1>20, <1>19 DEF HandleStarted, disk, HandleCompleted, Leave, work, Mark, Look, Judge,
                      Tick
<1>21. ASSUME NEW p \in Procs,
       Cancel(p) \/ Clear(p) \/ Null(p) \/ Work(p) \/ Turns(p) \/ Stop(p) \/ Start(p) \/
       Answered(p)
      PROVE Due \/ Token'
  BY <1>21, <1>19 DEF Cancel, disk, work, Clear, Null, Work, Turns, Stop, Start, Answered
<1>22. ASSUME NEW s \in Sessions,
       Probe(s)
      PROVE Due \/ Token'
  BY <1>22, <1>19 DEF disk, Probe, Sends
<1>23. ASSUME NEW u \in Users,
       ForceErases(u) \/ ArmLooks(u) \/ ForceTakes(u)
      PROVE Due \/ Token'
  BY <1>23, <1>19 DEF ForceErases, work, ArmLooks, disk, ForceTakes
<1>24. ASSUME NEW u \in Users, NEW s \in Sessions,
       UserSends(u, s) \/ Enqueue(u, s) \/ Resume(u, s)
      PROVE Due \/ Token'
  BY <1>24, <1>19 DEF UserSends, Sends, disk, Enqueue, work, Resume
<1>25. ASSUME NEW k \in Plans,
       Wake(k) \/ Erase(k)
      PROVE Due \/ Token'
  BY <1>25, <1>19 DEF Wake, disk, work, Erase
<1>26. ASSUME NEW u \in Users, Survey(u) PROVE Due \/ Token'
  BY <1>26, <1>19 DEF Survey, disk, work
<1>27. ASSUME NEW p \in Users \cup Sessions, Drop(p) PROVE Due \/ Token'
  BY <1>27 DEF Drop, disk, work, Due, Done
<1>28. ASSUME NEW s \in Sessions, Drain(s) PROVE Due \/ Token'
  BY <1>28 DEF Drain, disk, work, Due, Done
<1> QED BY <1>2, <1>3, <1>4, <1>5, <1>6, <1>7, <1>8, <1>9, <1>10, <1>11, <1>12, <1>13, <1>14,
           <1>15, <1>16, <1>17, <1>18, <1>19, <1>20, <1>21, <1>22, <1>23, <1>24, <1>25, <1>26, <1>27, <1>28
     DEF Next, vars, Continue, Queues, User, Request, Timers, Monitor, Restore

\* A timer that is stopped is called off for work, or another is about to be started.
LEMMA ComingKept ==
  ASSUME TurnInv, ToldInv, Next, Due', Coming
  PROVE  Token'
<1>1. after' /\ primed' /\ running' = {} /\ queued' = {} /\ ~stalled'
  BY DueNow
<1>2. ASSUME NEW p \in Procs, Clear(p) PROVE Token'
  <2>1. /\ pc[p] = "clear" /\ after' = after /\ running' = running /\ notes' = notes /\ stalled' = stalled
        /\ pc'[p] = "null" /\ job'[p].goal = job[p].goal
    BY <1>2 DEF Clear, Goes, disk, work, Base, ProcTypes, Job, TurnInv
  <2>2. CASE job[p].goal \in Bringing
    <3>1. Busy(p)'
      BY <2>1, <2>2 DEF Busy, CallsOff
    <3> QED BY <3>1 DEF Token
  <2>3. CASE job[p].goal \notin Bringing
    <3>1. \E s \in Sessions : Ended(s)
      BY <1>1, <2>1, <2>3, CallOffEnds DEF CallsOff
    <3> QED BY <2>1, <3>1, EndedStays
  <2> QED BY <2>2, <2>3
<1>3. ASSUME NEW p \in Procs, Stop(p) PROVE Token'
  <2>1. pc'[p] = "start"
    BY <1>3 DEF Stop, Goes, TurnInv, Base, ProcTypes
  <2> QED BY <2>1 DEF Token, Busy, Scheduling
<1>4. ASSUME NEW p \in Procs, Start(p) PROVE Token'
  <2>1. armed' # 0
    BY <1>4 DEF Start, TurnInv, Base, GoalInv, GoalOf, Making
  <2> QED BY <2>1 DEF Token, Coming
<1>5. ASSUME NEW u \in Users, ForceTakes(u) PROVE Token'
  <2>1. loose' = loose \cup Timer /\ firing' = firing
    BY <1>5 DEF ForceTakes
  <2>2. loose' # {} \/ \E n \in Plans : firing'[n] # "no"
    BY <2>1 DEF Coming, Timer
  <2> QED BY <2>2 DEF Token, Coming
<1>6. ASSUME NEW k \in Plans, Wake(k) PROVE Token'
  <2>1. firing'[k] # "no"
    BY <1>6 DEF Wake, TurnInv, Base, PlanTypes
  <2> QED BY <2>1 DEF Token, Coming
<1>7. ASSUME NEW k \in Plans, Erase(k) PROVE Token'
  <2>1. firing'[k] # "no"
    BY <1>7 DEF Erase, TurnInv, Base, PlanTypes
  <2> QED BY <2>1 DEF Token, Coming
<1>8. ASSUME NEW k \in Plans, Execute(k) PROVE Token'
  <2>1. firing'[k] # "no"
    BY <1>8, <1>1 DEF Execute, TurnInv, Base, PlanTypes
  <2> QED BY <2>1 DEF Token, Coming
<1>9. ASSUME Crash PROVE Token'
  BY <1>9, CrashBusy
<1>10. ASSUME UNCHANGED <<armed, loose, firing>> PROVE Token'
  BY <1>10 DEF Token, Coming
<1>11. ASSUME
       HandleStarted \/ HandleCompleted \/ Leave \/ Mark \/ Look \/ Forget \/ Judge \/
       Reprime \/ Unprime \/ Tick
      PROVE Token'
  BY <1>11, <1>10 DEF HandleStarted, timers, HandleCompleted, Leave, Mark, Look, Forget,
                      Judge, Reprime, Unprime, Tick
<1>12. ASSUME NEW p \in Procs,
       Cancel(p) \/ Prime(p) \/ Null(p) \/ Settings(p) \/ Work(p) \/ Turns(p) \/ Threads(p)
       \/ Write(p) \/ Ask(p) \/ Answered(p)
      PROVE Token'
  BY <1>12, <1>10 DEF Cancel, timers, Prime, Null, Settings, Work, Turns, Threads, Write,
                      Ask, Answered
<1>13. ASSUME NEW s \in Sessions,
       Drain(s) \/ Probe(s) \/ Sent(s) \/ EndTurn(s)
      PROVE Token'
  BY <1>13, <1>10 DEF Drain, timers, Probe, Sends, Sent, EndTurn
<1>14. ASSUME NEW u \in Users,
       Queueing(u) \/ Arm(u) \/ ForceErases(u) \/ ForceExecutes(u) \/ ArmLooks(u) \/
       Disarm(u)
      PROVE Token'
  BY <1>14, <1>10 DEF Queueing, timers, Arm, ForceErases, ForceExecutes, ArmLooks, Disarm
<1>15. ASSUME NEW u \in Users, NEW s \in Sessions,
       UserSends(u, s) \/ Enqueue(u, s) \/ RemoveItem(u, s) \/ Resume(u, s)
      PROVE Token'
  BY <1>15, <1>10 DEF UserSends, Sends, timers, Enqueue, RemoveItem, Resume
<1>16. ASSUME NEW u \in Users, Survey(u) PROVE Token'
  BY <1>16, <1>10 DEF Survey, timers
<1>17. ASSUME NEW p \in Users \cup Sessions, Drop(p) PROVE Token'
  BY <1>17 DEF Drop, Token, Coming
<1> QED BY <1>2, <1>3, <1>4, <1>5, <1>6, <1>7, <1>8, <1>9, <1>10, <1>11, <1>12, <1>13, <1>14,
           <1>15, <1>16, <1>17
     DEF Next, vars, Continue, Queues, User, Request, Timers, Monitor, Restore

\* A drain that finds nothing makes the plan.
LEMMA WakeKept ==
  ASSUME TurnInv, Next, Due', wake # {}
  PROVE  Token'
<1>1. after' /\ primed' /\ running' = {} /\ queued' = {} /\ ~stalled'
  BY DueNow
<1>2. ASSUME NEW p \in Procs, Ask(p) PROVE Token'
  BY <1>2 DEF Ask, Token
<1>3. ASSUME NEW s \in Sessions, Drain(s) PROVE Token'
  <2>1. Begins(s, "settings", "drain", s)
    BY <1>3, <1>1 DEF Drain, disk
  <2>2. pc'[s] = "settings" /\ s \in Procs
    BY <2>1, BegunJob, Names DEF TurnInv, Base
  <2> QED BY <2>2 DEF Token, Busy, Scheduling
<1>4. ASSUME NEW s \in Sessions, Probe(s) PROVE Token'
  BY <1>4 DEF Probe, Sends, Token
<1>5. ASSUME NEW u \in Users, Queueing(u) PROVE Token'
  BY <1>5 DEF Queueing, Token
<1>6. ASSUME NEW u \in Users, NEW s \in Sessions, Resume(u, s) PROVE Token'
  BY <1>6 DEF Resume, Token
<1>7. ASSUME Leave PROVE Token'
  BY <1>7 DEF Leave, Token
<1>8. ASSUME Crash PROVE Token'
  BY <1>8, CrashBusy
<1>9. ASSUME UNCHANGED wake PROVE Token'
  BY <1>9 DEF Token
<1>10. ASSUME
       HandleStarted \/ HandleCompleted \/ Mark \/ Look \/ Forget \/ Judge \/ Reprime \/
       Unprime \/ Tick
      PROVE Token'
  BY <1>10, <1>9 DEF HandleStarted, HandleCompleted, Mark, Look, Forget, Judge, Reprime,
                     Unprime, Tick
<1>11. ASSUME NEW p \in Procs,
       Cancel(p) \/ Prime(p) \/ Clear(p) \/ Null(p) \/ Settings(p) \/ Work(p) \/ Turns(p)
       \/ Threads(p) \/ Write(p) \/ Stop(p) \/ Start(p) \/ Answered(p)
      PROVE Token'
  BY <1>11, <1>9 DEF Cancel, Prime, Clear, Null, Settings, Work, Turns, Threads, Write, Stop,
                     Start, Answered
<1>12. ASSUME NEW s \in Sessions,
       Sent(s) \/ EndTurn(s)
      PROVE Token'
  BY <1>12, <1>9 DEF Sent, EndTurn
<1>13. ASSUME NEW u \in Users,
       Arm(u) \/ ForceErases(u) \/ ForceExecutes(u) \/ ArmLooks(u) \/ Disarm(u) \/
       ForceTakes(u)
      PROVE Token'
  BY <1>13, <1>9 DEF Arm, ForceErases, ForceExecutes, ArmLooks, Disarm, ForceTakes
<1>14. ASSUME NEW u \in Users, NEW s \in Sessions,
       UserSends(u, s) \/ Enqueue(u, s) \/ RemoveItem(u, s)
      PROVE Token'
  BY <1>14, <1>9 DEF UserSends, Sends, Enqueue, RemoveItem
<1>15. ASSUME NEW k \in Plans,
       Wake(k) \/ Erase(k) \/ Execute(k)
      PROVE Token'
  BY <1>15, <1>9 DEF Wake, Erase, Execute
<1>16. ASSUME NEW u \in Users, Survey(u) PROVE Token'
  BY <1>16, <1>9 DEF Survey
<1>17. ASSUME NEW p \in Users \cup Sessions, Drop(p) PROVE Token'
  BY <1>17, <1>9 DEF Drop
<1> QED BY <1>2, <1>3, <1>4, <1>5, <1>6, <1>7, <1>8, <1>9, <1>10, <1>11, <1>12, <1>13, <1>14,
           <1>15, <1>16, <1>17
     DEF Next, vars, Continue, Queues, User, Request, Timers, Monitor, Restore

\* The end of a turn is handled, and its handler makes the plan.
LEMMA EndedKept ==
  ASSUME TurnInv, Next, Due', NEW t \in Sessions, Ended(t)
  PROVE  Token'
<1>1. CASE Live(t)'
  <2>1. Ended(t)'
    BY <1>1, DueNow DEF Live
  <2> QED BY <2>1 DEF Token
<1>2. CASE Ends(t)
  <2>1. Begins("monitor", "settings", "completed", t)
    BY <1>2 DEF Ends, HandleCompleted
  <2>2. pc'["monitor"] = "settings" /\ "monitor" \in Procs
    BY <2>1, BegunJob, Names DEF TurnInv, Base
  <2> QED BY <2>2 DEF Token, Busy, Scheduling
<1> QED BY <1>1, <1>2, LiveKept, CrashBusy DEF TurnInv, Base, Live

\* Who stays where it is stays busy.
Rests(q) == pc'[q] = pc[q] /\ job'[q].goal = job[q].goal /\ job'[q].wish = job[q].wish

\* Such a process is still busy.
LEMMA BusyStays ==
  ASSUME NEW q \in Procs, Busy(q), Rests(q) PROVE Token'
  BY DEF Rests, Busy, Token

\* Who is on the way to the plan goes on, or has good reason not to.
LEMMA BusyKept ==
  ASSUME TurnInv, Next, Due', NEW q \in Procs, Busy(q)
  PROVE  Token'
<1>1. after' /\ primed' /\ running' = {} /\ queued' = {} /\ ~stalled'
  BY DueNow
<1>2. job[q] \in Job /\ pc[q] \in Steps /\ pc \in [Procs -> Steps] /\ job \in [Procs -> Job]
  BY DEF TurnInv, Base, ProcTypes
<1>3. Rests(q) \/ Busy(q)' => Token'
  BY BusyStays DEF Token
<1>4. ASSUME NEW p \in Procs, Cancel(p) PROVE Token'
  <2>1. ASSUME q # p PROVE Rests(q)
    BY <1>4, <2>1, CancelMoves, Names DEF Overtakes, Rests, TurnInv, Base
  <2>2. ASSUME q = p PROVE Token'
    <3>1. pc[q] = "cancel" /\ job'[q].goal = job[q].goal /\ pc'[q] \in {"prime", "clear", Then(job[q].goal)}
      BY <1>4, <2>2, CancelMoves DEF TurnInv, Base
    <3>2. Busy(q)'
      BY <3>1, Brings DEF Busy, CallsOff, Scheduling, Restoring
    <3> QED BY <1>3, <3>2
  <2> QED BY <1>3, <2>1, <2>2
<1>5. ASSUME NEW p \in Procs, Prime(p) PROVE Token'
  <2>1. ASSUME q # p PROVE Rests(q)
    BY <1>5, <1>2, <2>1 DEF Prime, Rests, Job
  <2>2. ASSUME q = p PROVE Token'
    <3>1. pc[q] = "prime" /\ job'[q].goal = job[q].goal /\ pc'[q] \in {"clear", Then(job[q].goal)}
      BY <1>5, <1>2, <2>2 DEF Prime, Job
    <3>2. Busy(q)'
      BY <3>1, Brings DEF Busy, CallsOff, Scheduling, Restoring
    <3> QED BY <1>3, <3>2
  <2> QED BY <1>3, <2>1, <2>2
<1>6. ASSUME NEW p \in Procs, Clear(p) PROVE Token'
  <2>1. ASSUME q # p PROVE Rests(q)
    BY <1>6, <1>2, <2>1 DEF Clear, Goes, Rests, Job
  <2>2. ASSUME q = p PROVE Token'
    <3>1. pc[q] = "clear" /\ job'[q].goal = job[q].goal /\ pc'[q] \in {"null"}
      BY <1>6, <1>2, <2>2 DEF Clear, Goes, Job
    <3>2. Busy(q)'
      BY <3>1, Brings DEF Busy, CallsOff, Scheduling, Restoring
    <3> QED BY <1>3, <3>2
  <2> QED BY <1>3, <2>1, <2>2
<1>7. ASSUME NEW p \in Procs, Null(p) PROVE Token'
  <2>1. ASSUME q # p PROVE Rests(q)
    BY <1>7, <1>2, <2>1 DEF Null, Goes, Rests, Job
  <2>2. ASSUME q = p PROVE Token'
    <3>1. pc[q] = "null" /\ job[q].goal \in Bringing
      BY <1>7, <2>2 DEF Null, Busy, CallsOff, Scheduling, Restoring
    <3>2. Then(job[q].goal) \in {"ask", "queueing"}
      BY <3>1, Brings
    <3>3. job'[q].goal = job[q].goal /\ pc'[q] = Then(job[q].goal)
      BY <1>7, <1>2, <2>2, <3>2 DEF Null, Goes
    <3>4. Busy(q)'
      BY <3>1, <3>2, <3>3 DEF Busy
    <3> QED BY <1>3, <3>4
  <2> QED BY <1>3, <2>1, <2>2
<1>8. ASSUME NEW p \in Procs, Settings(p) PROVE Token'
  <2>1. ASSUME q # p PROVE Rests(q)
    BY <1>8, <1>2, <2>1, Names DEF Settings, Goes, Rests, Job
  <2>2. ASSUME q = p PROVE Token'
    <3>1. pc'[q] \in Scheduling
      BY <1>8, <1>1, <1>2, <2>2 DEF Settings, Goes, Scheduling, disk
    <3> QED BY <1>3, <3>1 DEF Busy
  <2> QED BY <1>3, <2>1, <2>2
<1>9. ASSUME NEW p \in Procs, Work(p) PROVE Token'
  <2>1. ASSUME q # p PROVE Rests(q)
    BY <1>9, <1>2, <2>1, Names DEF Work, Goes, Rests, Job
  <2>2. ASSUME q = p PROVE Token'
    <3>1. pc'[q] \in Scheduling
      BY <1>9, <1>1, <1>2, <2>2 DEF Work, Goes, Scheduling, disk
    <3> QED BY <1>3, <3>1 DEF Busy
  <2> QED BY <1>3, <2>1, <2>2
<1>10. ASSUME NEW p \in Procs, Turns(p) PROVE Token'
  <2>1. ASSUME q # p PROVE Rests(q)
    BY <1>10, <1>2, <2>1, Names DEF Turns, Goes, Rests, Job
  <2>2. ASSUME q = p PROVE Token'
    <3>1. CASE active = {}
      <4>1. pc'[q] \in Scheduling
        BY <1>10, <1>2, <2>2, <3>1 DEF Turns, Goes, Scheduling
      <4> QED BY <1>3, <4>1 DEF Busy
    <3>2. ASSUME NEW t \in active PROVE Token'
      <4>1. t \in Sessions /\ Live(t)
        BY DEF TurnInv, Base, WorkTypes, ActiveInv
      <4>2. running' = running /\ notes' = notes
        BY <1>10 DEF Turns, work
      <4> QED BY <1>1, <4>1, <4>2, EndedStays DEF Live
    <3> QED BY <3>1, <3>2
  <2> QED BY <1>3, <2>1, <2>2
<1>11. ASSUME NEW p \in Procs, Threads(p) PROVE Token'
  <2>1. ASSUME q # p PROVE Rests(q)
    BY <1>11, <1>2, <2>1, Names DEF Threads, Goes, Rests, Job
  <2>2. ASSUME q = p PROVE Token'
    <3>1. pc'[q] \in Scheduling
      BY <1>11, <1>1, <1>2, <2>2 DEF Threads, Goes, Scheduling, work
    <3> QED BY <1>3, <3>1 DEF Busy
  <2> QED BY <1>3, <2>1, <2>2
<1>12. ASSUME NEW p \in Procs, Write(p) PROVE Token'
  <2>1. ASSUME q # p PROVE Rests(q)
    BY <1>12, <1>2, <2>1, Names DEF Write, Goes, Rests, Job
  <2>2. ASSUME q = p PROVE Token'
    <3>1. pc'[q] \in Scheduling
      BY <1>12, <1>1, <1>2, <2>2 DEF Write, Goes, Scheduling
    <3> QED BY <1>3, <3>1 DEF Busy
  <2> QED BY <1>3, <2>1, <2>2
<1>13. ASSUME NEW p \in Procs, Stop(p) PROVE Token'
  <2>1. ASSUME q # p PROVE Rests(q)
    BY <1>13, <1>2, <2>1, Names DEF Stop, Goes, Rests, Job
  <2>2. ASSUME q = p PROVE Token'
    <3>1. pc'[q] \in Scheduling
      BY <1>13, <1>1, <1>2, <2>2 DEF Stop, Goes, Scheduling
    <3> QED BY <1>3, <3>1 DEF Busy
  <2> QED BY <1>3, <2>1, <2>2
<1>14. ASSUME NEW p \in Procs, Start(p) PROVE Token'
  <2>1. ASSUME q # p PROVE Rests(q)
    BY <1>14, <1>2, <2>1, Names DEF Start, Goes, Rests, Job
  <2>2. ASSUME q = p PROVE Token'
    <3>1. armed' # 0
      BY <1>14 DEF Start, TurnInv, Base, GoalInv, GoalOf, Making
    <3> QED BY <3>1 DEF Token, Coming
  <2> QED BY <1>3, <2>1, <2>2
<1>15. ASSUME NEW p \in Procs, Ask(p) PROVE Token'
  <2>1. ASSUME q # p PROVE Rests(q)
    BY <1>15, <1>2, <2>1, Names DEF Ask, Goes, Rests, Job
  <2>2. ASSUME q = p PROVE Token'
    <3>1. job[q].goal \in {"send", "dispatch"} /\ queued' = queued
      BY <1>15, <2>2 DEF Ask, TurnInv, Base, GoalInv, GoalOf
    <3>2. job[q].goal # "dispatch"
      BY <1>1, <3>1 DEF TurnInv, AimInv, AimOf
    <3>3. job[q].on \in running' \/ stalled'
      BY <1>15, <2>2, <3>1, <3>2 DEF Ask
    <3> QED BY <1>1, <3>3
  <2> QED BY <1>3, <2>1, <2>2
<1>16. ASSUME NEW p \in Procs, Answered(p) PROVE Token'
  <2>1. ASSUME q # p PROVE Rests(q)
    BY <1>16, <1>2, <2>1, Names DEF Answered, Goes, Rests, Job
  <2>2. ASSUME q = p PROVE Token'
    BY <1>16, <2>2, Names DEF Answered, Busy, Scheduling, Restoring, CallsOff
  <2> QED BY <1>3, <2>1, <2>2
<1>17. ASSUME NEW s \in Sessions, Drain(s) PROVE Token'
  <2>1. ASSUME q # s PROVE Rests(q)
    BY <1>17, <1>2, <2>1, Names DEF Drain, Begins, Rests
  <2>2. ASSUME q = s PROVE Token'
    BY <1>17, <2>2, Names DEF Drain, Busy, Scheduling, Restoring, CallsOff
  <2> QED BY <1>3, <2>1, <2>2
<1>18. ASSUME NEW s \in Sessions, Probe(s) PROVE Token'
  <2>1. ASSUME q # s PROVE Rests(q)
    BY <1>18, <1>2, <2>1, Names DEF Probe, Goes, Sends, Begins, Rests
  <2>2. ASSUME q = s PROVE Token'
    BY <1>18, <2>2, Names DEF Probe, Busy, Scheduling, Restoring, CallsOff
  <2> QED BY <1>3, <2>1, <2>2
<1>19. ASSUME NEW s \in Sessions, Sent(s) PROVE Token'
  <2>1. ASSUME q # s PROVE Rests(q)
    BY <1>19, <1>2, <2>1, Names DEF Sent, Goes, Rests, Job
  <2>2. ASSUME q = s PROVE Token'
    BY <1>19, <2>2, Names DEF Sent, Busy, Scheduling, Restoring, CallsOff
  <2> QED BY <1>3, <2>1, <2>2
<1>20. ASSUME NEW u \in Users, Queueing(u) PROVE Token'
  <2>1. ASSUME q # u PROVE Rests(q)
    BY <1>20, <2>1, QueueingMoves, Names DEF Overtakes, Rests, TurnInv, Base
  <2>2. ASSUME q = u PROVE Token'
    BY <1>20, <1>1, <2>2 DEF Queueing
  <2> QED BY <1>3, <2>1, <2>2
<1>21. ASSUME NEW u \in Users, Arm(u) PROVE Token'
  <2>1. ASSUME q # u PROVE Rests(q)
    BY <1>21, <1>2, <2>1, Names DEF Arm, Goes, Rests, Job
  <2>2. ASSUME q = u PROVE Token'
    BY <1>21, <2>2, Names DEF Arm, Busy, Scheduling, Restoring, CallsOff
  <2> QED BY <1>3, <2>1, <2>2
<1>22. ASSUME NEW u \in Users, ForceErases(u) PROVE Token'
  <2>1. ASSUME q # u PROVE Rests(q)
    BY <1>22, <1>2, <2>1, Names DEF ForceErases, Goes, Rests, Job
  <2>2. ASSUME q = u PROVE Token'
    BY <1>22, <2>2, Names DEF ForceErases, Busy, Scheduling, Restoring, CallsOff
  <2> QED BY <1>3, <2>1, <2>2
<1>23. ASSUME NEW u \in Users, ForceExecutes(u) PROVE Token'
  <2>1. ASSUME q # u PROVE Rests(q)
    BY <1>23, <1>2, <2>1, Names DEF ForceExecutes, Goes, Rests, Job
  <2>2. ASSUME q = u PROVE Token'
    BY <1>23, <2>2, Names DEF ForceExecutes, Busy, Scheduling, Restoring, CallsOff
  <2> QED BY <1>3, <2>1, <2>2
<1>24. ASSUME NEW u \in Users, ArmLooks(u) PROVE Token'
  <2>1. ASSUME q # u PROVE Rests(q)
    BY <1>24, <1>2, <2>1, Names DEF ArmLooks, Rests
  <2>2. ASSUME q = u PROVE Token'
    BY <1>24, <2>2, Names DEF ArmLooks, Asks, Busy, Scheduling, Restoring, CallsOff
  <2> QED BY <1>3, <2>1, <2>2
<1>25. ASSUME NEW u \in Users, Disarm(u) PROVE Token'
  <2>1. ASSUME q # u PROVE Rests(q)
    BY <1>25, <2>1, DisarmMoves, Names DEF Overtakes, Rests, TurnInv, Base
  <2>2. ASSUME q = u PROVE Token'
    BY <1>25, <2>2, Names DEF Disarm, Asks, Busy, Scheduling, Restoring, CallsOff
  <2> QED BY <1>3, <2>1, <2>2
<1>26. ASSUME NEW u \in Users, ForceTakes(u) PROVE Token'
  <2>1. ASSUME q # u PROVE Rests(q)
    BY <1>26, <1>2, <2>1, Names DEF ForceTakes, Begins, Rests
  <2>2. ASSUME q = u PROVE Token'
    BY <1>26, <2>2, Names DEF ForceTakes, Asks, Busy, Scheduling, Restoring, CallsOff
  <2> QED BY <1>3, <2>1, <2>2
<1>27. ASSUME NEW u \in Users, NEW s \in Sessions, UserSends(u, s) PROVE Token'
  <2>1. ASSUME q # u PROVE Rests(q)
    BY <1>27, <1>2, <2>1, Names DEF UserSends, Sends, Begins, Rests
  <2>2. ASSUME q = u PROVE Token'
    BY <1>27, <2>2, Names DEF UserSends, Asks, Busy, Scheduling, Restoring, CallsOff
  <2> QED BY <1>3, <2>1, <2>2
<1>28. ASSUME NEW u \in Users, NEW s \in Sessions, Enqueue(u, s) PROVE Token'
  <2>1. ASSUME q # u PROVE Rests(q)
    BY <1>28, <1>2, <2>1, Names DEF Enqueue, Begins, Rests
  <2>2. ASSUME q = u PROVE Token'
    BY <1>28, <2>2, Names DEF Enqueue, Asks, Busy, Scheduling, Restoring, CallsOff
  <2> QED BY <1>3, <2>1, <2>2
<1>29. ASSUME NEW u \in Users, NEW s \in Sessions, RemoveItem(u, s) PROVE Token'
  <2>1. ASSUME q # u PROVE Rests(q)
    BY <1>29, <1>2, <2>1, Names DEF RemoveItem, Begins, Rests
  <2>2. ASSUME q = u PROVE Token'
    BY <1>29, <2>2, Names DEF RemoveItem, Asks, Busy, Scheduling, Restoring, CallsOff
  <2> QED BY <1>3, <2>1, <2>2
<1>30. ASSUME HandleStarted PROVE Token'
  <2>1. ASSUME q # "monitor" PROVE Rests(q)
    BY <1>30, <1>2, <2>1, Names DEF HandleStarted, Begins, Rests
  <2>2. ASSUME q = "monitor" PROVE Token'
    BY <1>30, <2>2, Names DEF HandleStarted, Busy, Scheduling, Restoring, CallsOff
  <2> QED BY <1>3, <2>1, <2>2
<1>31. ASSUME HandleCompleted PROVE Token'
  <2>1. ASSUME q # "monitor" PROVE Rests(q)
    BY <1>31, <1>2, <2>1, Names DEF HandleCompleted, Begins, Rests
  <2>2. ASSUME q = "monitor" PROVE Token'
    BY <1>31, <2>2, Names DEF HandleCompleted, Busy, Scheduling, Restoring, CallsOff
  <2> QED BY <1>3, <2>1, <2>2
<1>32. ASSUME Leave PROVE Token'
  <2>1. ASSUME q # "monitor" PROVE Rests(q)
    BY <1>32, <1>2, <2>1, Names DEF Leave, Rests
  <2>2. ASSUME q = "monitor" PROVE Token'
    <3>1. job["monitor"].goal = "completed"
      BY <1>32, <2>2, Names DEF Leave, Busy, Scheduling, Restoring, CallsOff
    <3>2. wake' # {}
      BY <1>32, <3>1 DEF Leave
    <3> QED BY <3>2 DEF Token
  <2> QED BY <1>3, <2>1, <2>2
<1>33. ASSUME Mark PROVE Token'
  <2>1. ASSUME q # "restore" PROVE Rests(q)
    BY <1>33, <1>2, <2>1, Names DEF Mark, Goes, Rests, Job
  <2>2. ASSUME q = "restore" PROVE Token'
    <3>1. pc'[q] \in {"look"}
      BY <1>33, <1>1, <1>2, <2>2, Names DEF Mark, Goes, disk
    <3> QED BY <1>3, <3>1 DEF Busy, Scheduling, Restoring
  <2> QED BY <1>3, <2>1, <2>2
<1>34. ASSUME Look PROVE Token'
  <2>1. ASSUME q # "restore" PROVE Rests(q)
    BY <1>34, <1>2, <2>1, Names DEF Look, Goes, Rests, Job
  <2>2. ASSUME q = "restore" PROVE Token'
    <3>1. after /\ primed
      BY <1>34, <1>1 DEF Look, disk
    <3>2. pc'[q] = "forget" \/ (pc'[q] = "judge" /\ job' = [job EXCEPT !["restore"].wish = "primed", !["restore"].plan = plan])
      BY <1>34, <1>2, <2>2, <3>1, Names DEF Look, Goes
    <3>3. pc'[q] = "judge" => job'[q].wish = "primed"
      BY <1>2, <2>2, <3>2 DEF Job
    <3> QED BY <1>3, <3>2, <3>3 DEF Busy, Restoring
  <2> QED BY <1>3, <2>1, <2>2
<1>35. ASSUME Forget PROVE Token'
  <2>1. ASSUME q # "restore" PROVE Rests(q)
    BY <1>35, <2>1, ForgetMoves, Names DEF Overtakes, Rests, TurnInv, Base
  <2>2. ASSUME q = "restore" PROVE Token'
    BY <1>35, <1>1 DEF Forget
  <2> QED BY <1>3, <2>1, <2>2
<1>36. ASSUME Judge PROVE Token'
  <2>1. ASSUME q # "restore" PROVE Rests(q)
    BY <1>36, <1>2, <2>1, Names DEF Judge, Goes, Rests, Job
  <2>2. ASSUME q = "restore" PROVE Token'
    <3>1. job["restore"].wish = "primed"
      BY <1>36, <2>2, Names DEF Judge, Busy, Scheduling, Restoring, CallsOff
    <3>2. pc'["restore"] \in {"stop", "settings", "unprime"}
      BY <1>36, <1>2, <2>2, <3>1, Names DEF Judge, Goes
    <3> QED BY <1>3, <2>2, <3>2 DEF Busy, Scheduling, Restoring
  <2> QED BY <1>3, <2>1, <2>2
<1>37. ASSUME Reprime PROVE Token'
  <2>1. ASSUME q # "restore" PROVE Rests(q)
    BY <1>37, <1>2, <2>1, Names DEF Reprime, Goes, Rests, Job
  <2>2. ASSUME q = "restore" PROVE Token'
    <3>1. pc'[q] \in {"stop", "settings"}
      BY <1>37, <1>1, <1>2, <2>2, Names DEF Reprime, Goes, disk
    <3> QED BY <1>3, <3>1 DEF Busy, Scheduling, Restoring
  <2> QED BY <1>3, <2>1, <2>2
<1>38. ASSUME Unprime PROVE Token'
  BY <1>38, <1>1 DEF Unprime
<1>39. ASSUME Crash PROVE Token'
  BY <1>39, CrashBusy
<1>40. ASSUME UNCHANGED <<pc, job>> PROVE Token'
  BY <1>40, <1>3 DEF Rests
<1>41. ASSUME
       Tick
      PROVE Token'
  BY <1>41, <1>40 DEF Tick
<1>42. ASSUME NEW s \in Sessions,
       EndTurn(s)
      PROVE Token'
  BY <1>42, <1>40 DEF EndTurn
<1>43. ASSUME NEW u \in Users, NEW s \in Sessions,
       Resume(u, s)
      PROVE Token'
  BY <1>43, <1>40 DEF Resume
<1>44. ASSUME NEW k \in Plans,
       Wake(k) \/ Erase(k) \/ Execute(k)
      PROVE Token'
  BY <1>44, <1>40 DEF Wake, Erase, Execute
<1>45. ASSUME NEW u \in Users, Survey(u) PROVE Token'
  <2>1. ASSUME q # u PROVE Rests(q)
    BY <1>45, <2>1, SurveyMoves, Names DEF Rests, TurnInv, Base
  <2>2. ASSUME q = u PROVE Token'
    BY <1>45, <2>2, Names DEF Survey, Busy, Scheduling, Restoring, CallsOff
  <2> QED BY <1>3, <2>1, <2>2
<1>46. ASSUME NEW p \in Users \cup Sessions, Drop(p) PROVE Token'
  <2>1. ASSUME q # p PROVE Rests(q)
    BY <1>46, <2>1, DropMoves, Names DEF Rests, TurnInv, Base
  <2>2. ASSUME q = p PROVE Token'
    <3>1. /\ pc[q] \notin {"settings", "work"} \cup Trusting \cup Making
          /\ job[q].goal \in {"send", "enqueue"} => pc[q] \in {"cancel", "answer"}
          /\ queued' = queued
      BY <1>46, <1>1, <2>2, Zenon DEF Drop, disk
    <3>2. pc[q] \notin Restoring \cup {"judge"} /\ (job[q].goal = "dispatch" => q \in queued)
      BY <2>2, Names DEF TurnInv, AimInv, AimOf
    <3> QED BY <1>1, <2>2, <3>1, <3>2, Names
            DEF Busy, Scheduling, Trusting, Making, CallsOff, Bringing
  <2> QED BY <1>3, <2>1, <2>2
<1> QED BY <1>4, <1>5, <1>6, <1>7, <1>8, <1>9, <1>10, <1>11, <1>12, <1>13, <1>14, <1>15,
           <1>16, <1>17, <1>18, <1>19, <1>20, <1>21, <1>22, <1>23, <1>24, <1>25, <1>26,
           <1>27, <1>28, <1>29, <1>30, <1>31, <1>32, <1>33, <1>34, <1>35, <1>36, <1>37,
           <1>38, <1>39, <1>40, <1>41, <1>42, <1>43, <1>44, <1>45, <1>46
     DEF Next, vars, Continue, Queues, User, Request, Timers, Monitor, Restore

\* DueInv is inductive over the rest.
LEMMA DueInvSteps ==
  ASSUME DoneInv, Next PROVE DueInv'
<1> SUFFICES ASSUME Due' PROVE Token'
  BY DEF DueInv
<1>1. Due \/ Token'
  BY DueComes DEF DoneInv
<1>2. ASSUME Due PROVE Token'
  <2>1. Token
    BY <1>2 DEF DoneInv, DueInv
  <2> QED BY <2>1, ComingKept, WakeKept, EndedKept, BusyKept DEF DoneInv, Token
<1> QED BY <1>1, <1>2

\* It stutters.
LEMMA DueInvStutters ==
  ASSUME DueInv, UNCHANGED vars PROVE DueInv'
<1>1. Due' = Due /\ Coming' = Coming
  BY DEF vars, disk, work, timers, Due, Done, Coming
<1>2. \A p \in Procs : Busy(p)' <=> Busy(p)
  BY DEF vars, Busy
<1>3. \A s \in Sessions : Ended(s)' <=> Ended(s)
  BY DEF vars, work, Ended
<1>4. Token' <=> Token
  BY <1>1, <1>2, <1>3 DEF vars, Token
<1> QED BY <1>1, <1>4 DEF DueInv

\* When all the work is done and nobody is on the way, the shutdown that the users
\* wait for is coming: whichever of a turn, a queue, a removal or a restoration ended
\* last has made the plan (handle_session_notification, the drain of a queue, the
\* removal of an item, update_config_payload, restore_persisted_shutdown_state).
THEOREM DoneHasPlan == Spec => []DoneIsScheduled
<1>1. Init => TurnInv /\ CalmInv /\ DueInv
  <2>1. Init => DueInv
    BY DEF Init, DueInv, Due, Done
  <2> QED BY <2>1, TurnInvInit, CalmInvInit
<1>2. TurnInv /\ CalmInv /\ DueInv /\ [Next]_vars => (TurnInv /\ CalmInv /\ DueInv)'
  BY TurnInvSteps, CalmInvSteps, DueInvSteps, DueInvStutters DEF DoneInv, CalmInv
<1>3. TurnInv /\ DueInv => DoneIsScheduled
  <2> SUFFICES ASSUME DueInv, TurnInv, Quiet, Done, ~stalled PROVE Coming
    BY DEF DoneIsScheduled, TurnInv
  <2>1. \A s \in Sessions : ~Ended(s)
    BY DEF Quiet, Ended, Range
  <2>2. \A p \in Procs : ~Busy(p)
    BY DEF Quiet, Busy, Scheduling, Restoring, CallsOff
  <2> QED BY <2>1, <2>2 DEF Quiet, DueInv, Due, Token
<1> QED BY <1>1, <1>2, <1>3, PTL DEF Spec
================================================================================
