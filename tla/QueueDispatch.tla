---------------------------- MODULE QueueDispatch ----------------------------
(***************************************************************************)
(* The follow-up queue of one session of one profile: the persisted queue  *)
(* object (queuesByThreadId[session] in ui-state.json), the mutations that *)
(* browsers make on it, and the tasks that take its items and hand them to *)
(* codex app-server as turn/start or turn/steer requests.                  *)
(*                                                                         *)
(* Every action is one critical section of the code: what a task does      *)
(* between two awaits, or one with_ui_state_write closure, which runs      *)
(* under the profile's ui-state lock and is on disk before its caller goes *)
(* on.  The session's turn is abstracted to what the queue can see of it.  *)
(*                                                                         *)
(* Drains and timers are tasks of their own.  A request of a browser over  *)
(* HTTP is a future that hyper drops when the connection closes: it ends   *)
(* at whichever await it is, with what it has written left behind.         *)
(***************************************************************************)
EXTENDS Naturals, FiniteSets, SequencesExt

CONSTANTS
  Items,      \* queue item ids; each is a fresh Uuid, so none is used twice
  Requests,   \* clientRequestIds that browsers put on what they enqueue
  NoRequest,  \* an enqueue without a clientRequestId
  Workers,    \* tasks that can be inside the dispatch guard
  Nobody,     \* no task, no item
  UserOps,    \* the queue mutations the users of this instance make
  Faults,     \* what can go wrong in this instance
  MaxOps,     \* bound: user operations in a behaviour
  MaxFaults,  \* bound: faults in a behaviour
  MaxSpawned  \* bound: drains waiting to start when another event spawns one

AllOps == {"remove", "update", "reorder", "resume", "message", "steer", "direct"}
AllFaults == {"transient", "permanent", "timeout", "interrupted", "stale", "aged",
              "drop", "unreadable", "crash"}

ASSUME QueueConstants ==
  /\ NoRequest \notin Requests
  /\ Requests \cap Items = {}
  /\ Nobody \notin Items \cup Workers
  /\ "direct" \notin Workers \cup {Nobody}
  /\ UserOps \subseteq AllOps
  /\ Faults \subseteq AllFaults
  /\ MaxOps \in Nat /\ MaxFaults \in Nat /\ MaxSpawned \in Nat \ {0}

VARIABLES
  \* The persisted queue object.
  order,          \* items, as a sequence of ids
  status,         \* the status field of each id; "absent" if it is not queued
  request,        \* the clientRequestId of each id
  edition,        \* how many accepted edits an item's prompt and skills had
  resumePending,  \* the queue waits for the user
  \* The gateway's memory.
  used,           \* ids handed out so far
  holder,         \* queue_dispatching: the task inside the dispatch guard
  pc, task, item, carried, failure, \* where each task is, and what it carries
  spawned,        \* drain tasks that have not started
  retry,          \* queue_drain_retries holds a timer for the session
  resuming,       \* a resume request has found the queue free and not written yet
  updating,       \* the item an edit request has read and not written yet
  waking,         \* requests that have written and not spawned their drain yet
  recent,         \* recent_client_user_messages
  turn,           \* the session's turn: "idle", "starting", "running", or "left",
                  \* a start that nobody will settle: its handler was dropped
  sessionLock,    \* session_operation_locks, while a turn/start or steer is out
  restored,       \* restore_runtime_profile_state has run since the last start
  \* codex app-server, and what happened so far.
  delivered,      \* how often app-server took a message with this client id
  unanswered,     \* client ids of timed-out turn/start requests it may still take
  doubtful,       \* client ids of turn/starts that timed out, and of steers that
                  \* were dropped, before app-server took them
  forgiven,       \* deliveries the gateway could not know of any more
  removed,        \* items a browser removed
  missed,         \* a drain was not spawned, or gave up, and none has read since
  abandoned,      \* claims whose task was dropped, or died with the gateway
  ops, faults     \* user operations and faults so far

queueVars  == <<order, status, request, edition, resumePending>>
guardVars  == <<holder, spawned, retry>>
workVars   == <<pc, task, item, carried, failure>>
userVars   == <<resuming, updating, waking>>
turnVars   == <<turn, sessionLock>>
engineVars == <<delivered, unanswered, doubtful, forgiven>>
leftVars   == <<missed, abandoned>>
vars == <<queueVars, guardVars, workVars, userVars, turnVars, engineVars,
          used, recent, restored, removed, leftVars, ops, faults>>

Keys == Items \cup Requests
\* clientUserMessageId, else clientRequestId, else the item's own id: the id
\* under which send_turn_payload and steer_turn_payload remember the message.
Key(i) == IF request[i] = NoRequest THEN i ELSE request[i]

Queued(i)      == status[i] # "absent"
Dispatching(i) == status[i] = "dispatching"
\* queue_item_is_dispatching refuses an item claimed for dispatch.
Editable(i) == status[i] \in {"waiting", "failed"}
Holds(w)    == pc[w] # "idle"
Sending     == {"send", "accept", "accepted"}

QueueTypes ==
  /\ order \in Seq(Items)
  /\ status \in [Items -> {"absent", "waiting", "dispatching", "failed"}]
  /\ request \in [Items -> Requests \cup {NoRequest}]
  /\ edition \in [Items -> Nat]
  /\ used \subseteq Items /\ removed \subseteq Items

WorkTypes ==
  /\ holder \in Workers \cup {Nobody}
  /\ pc \in [Workers -> {"idle", "recover", "find", "pending", "read", "probe",
                         "claim", "send", "accept", "accepted", "remove", "continue",
                         "unclaim", "fail", "release"}]
  /\ task \in [Workers -> {"drain", "message", "steer"}]
  /\ item \in [Workers -> Items \cup {Nobody}]
  /\ carried \in [Workers -> Nat]
  /\ failure \in [Workers -> {"none", "transient", "permanent"}]

EngineTypes ==
  /\ recent \subseteq Keys
  /\ turn \in {"idle", "starting", "running", "left"}
  /\ sessionLock \in Workers \cup {Nobody, "direct"}
  /\ delivered \in [Keys -> Nat]
  /\ unanswered \subseteq Keys /\ doubtful \subseteq Keys
  /\ forgiven \in [Keys -> Nat]

CountTypes ==
  /\ updating \in Items \cup {Nobody}
  /\ waking \in Nat /\ abandoned \subseteq Items
  /\ spawned \in Nat /\ ops \in Nat /\ faults \in Nat

FlagTypes ==
  /\ resumePending \in BOOLEAN /\ retry \in BOOLEAN
  /\ resuming \in BOOLEAN /\ restored \in BOOLEAN /\ missed \in BOOLEAN

TypeOK == QueueTypes /\ WorkTypes /\ EngineTypes /\ CountTypes /\ FlagTypes

Init ==
  /\ order = <<>>
  /\ status = [i \in Items |-> "absent"]
  /\ request = [i \in Items |-> NoRequest]
  /\ edition = [i \in Items |-> 0]
  /\ resumePending = FALSE
  /\ used = {}
  /\ holder = Nobody
  /\ pc = [w \in Workers |-> "idle"]
  /\ task = [w \in Workers |-> "drain"]
  /\ item = [w \in Workers |-> Nobody]
  /\ carried = [w \in Workers |-> 0]
  /\ failure = [w \in Workers |-> "none"]
  /\ spawned = 0 /\ retry = FALSE
  /\ resuming = FALSE /\ updating = Nobody /\ waking = 0
  /\ recent = {}
  /\ turn = "idle" /\ sessionLock = Nobody
  /\ restored = TRUE
  /\ delivered = [k \in Keys |-> 0]
  /\ unanswered = {} /\ doubtful = {}
  /\ forgiven = [k \in Keys |-> 0]
  /\ removed = {}
  /\ missed = FALSE /\ abandoned = {}
  /\ ops = 0 /\ faults = 0

UserActs(op) == op \in UserOps /\ ops < MaxOps /\ ops' = ops + 1
Fault(f)     == f \in Faults /\ faults < MaxFaults /\ faults' = faults + 1
NoFault      == UNCHANGED faults
Spawn        == spawned' = spawned + 1
SpawnRoom    == spawned < MaxSpawned

----------------------------------------------------------------------------
(* Mutations by browsers.                                                  *)

\* clear_queue_item_dispatch_error: an item claimed for dispatch keeps its status.
WithoutErrorBug(i) == IF Dispatching(i) THEN "dispatching" ELSE "cleared"
WithoutError(i) == IF Dispatching(i) THEN "dispatching" ELSE "waiting"

\* The item a clientRequestId is queued under already, if it is.
AlreadyQueued(r) == {i \in Items : Queued(i) /\ r # NoRequest /\ request[i] = r}

EnqueueAgain(r) ==
  /\ \E i \in AlreadyQueued(r) :
       status' = [status EXCEPT ![i] = WithoutError(i)]
  /\ UNCHANGED <<order, request, edition, used>>

EnqueueNew(r) ==
  /\ AlreadyQueued(r) = {}
  /\ \E i \in Items \ used :
       /\ order' = Append(order, i)
       /\ status' = [status EXCEPT ![i] = "waiting"]
       /\ request' = [request EXCEPT ![i] = r]
       /\ used' = used \cup {i}
  /\ UNCHANGED edition

Enqueue ==
  /\ ops < MaxOps /\ ops' = ops + 1
  /\ \E r \in Requests \cup {NoRequest} :
       EnqueueAgain(r) \/ EnqueueNew(r)
  /\ resumePending' = FALSE
  /\ waking' = waking + 1
  /\ UNCHANGED <<guardVars, workVars, turnVars, engineVars, resuming, updating,
                 recent, restored, removed, leftVars, faults>>

\* spawn_queue_drain, after the write, a read of the queue and an event.
WakeDrain ==
  /\ waking > 0 /\ waking' = waking - 1
  /\ SpawnRoom /\ Spawn
  /\ UNCHANGED <<queueVars, workVars, turnVars, engineVars, holder, retry, resuming,
                 updating, used, recent, restored, removed, leftVars, ops, faults>>

\* A request ends at an await, or because that read fails: what it has written
\* stays, what it was about to do is not done.
RequestEnds ==
  /\ \/ /\ Fault("drop") \/ Fault("unreadable")
        /\ waking > 0 /\ waking' = waking - 1
        /\ missed' = TRUE
        /\ UNCHANGED <<resuming, updating>>
     \/ /\ Fault("drop")
        /\ \/ resuming /\ resuming' = FALSE /\ UNCHANGED updating
           \/ updating # Nobody /\ updating' = Nobody /\ UNCHANGED resuming
        /\ UNCHANGED <<waking, missed>>
  /\ UNCHANGED <<queueVars, guardVars, workVars, turnVars, engineVars,
                 used, recent, restored, removed, abandoned, ops>>

\* items.retain(..) / items.remove(..): the queue object goes with its last
\* item, and resumePending with it.
Drop(i) ==
  /\ \E k \in DOMAIN order : order[k] = i /\ order' = RemoveAt(order, k)
  /\ status' = [status EXCEPT ![i] = "absent"]

RemoveItem ==
  /\ UserActs("remove")
  /\ \E i \in Items :
       /\ Editable(i)
       /\ Drop(i)
       /\ removed' = removed \cup {i}
  /\ resumePending' = (resumePending /\ Len(order) > 1)
  /\ UNCHANGED <<request, edition, guardVars, workVars, userVars, turnVars,
                 engineVars, used, recent, restored, leftVars, faults>>

\* update_session_queue_item_payload reads the item, then awaits the check of
\* its attachments, then looks the item up again and writes it.
UpdateRead ==
  /\ UserActs("update")
  /\ updating = Nobody
  /\ \E i \in Items : Editable(i) /\ updating' = i
  /\ UNCHANGED <<queueVars, guardVars, workVars, turnVars, engineVars,
                 used, resuming, waking, recent, restored, removed, leftVars, faults>>

UpdateWrite ==
  /\ updating # Nobody
  /\ updating' = Nobody
  /\ IF Editable(updating)
     THEN /\ edition' = [edition EXCEPT ![updating] = @ + 1]
          /\ status' = [status EXCEPT ![updating] = "waiting"]
     ELSE UNCHANGED <<edition, status>>
  /\ UNCHANGED <<order, request, resumePending, guardVars, workVars, turnVars,
                 engineVars, used, resuming, waking, recent, restored, removed, leftVars,
                 ops, faults>>

\* A permutation of the ids in which every claimed item keeps its place.
ClaimsStay(p) == \A k \in DOMAIN order : Dispatching(order[k]) => p[k] = k
ReorderingBug(p) == ClaimsStay(p)
Reordering(p) ==
  ClaimsStay(p) /\ \A j \in DOMAIN order : \E k \in DOMAIN order : p[k] = j

Reorder ==
  /\ UserActs("reorder")
  /\ Len(order) > 1
  /\ \E p \in [DOMAIN order -> DOMAIN order] :
       /\ Reordering(p)
       /\ order' = [k \in DOMAIN order |-> order[p[k]]]
  /\ UNCHANGED <<status, request, edition, resumePending, guardVars, workVars,
                 userVars, turnVars, engineVars, used, recent, restored, removed, leftVars,
                 faults>>

\* resume_session_queue_payload tests the guard, lets it go, and only then
\* writes: the write clears the status of every item, claimed or not.
ResumeCheck ==
  /\ UserActs("resume")
  /\ ~resuming /\ holder = Nobody
  /\ resuming' = TRUE
  /\ UNCHANGED <<queueVars, guardVars, workVars, turnVars, engineVars,
                 used, updating, waking, recent, restored, removed, leftVars, faults>>

ResumeWrite ==
  /\ resuming /\ resuming' = FALSE
  /\ resumePending' = FALSE
  /\ status' = [i \in Items |-> IF Queued(i) THEN "waiting" ELSE "absent"]
  /\ waking' = waking + 1
  /\ UNCHANGED <<order, request, edition, guardVars, workVars, turnVars, engineVars,
                 used, updating, recent, restored, removed, leftVars, ops, faults>>

----------------------------------------------------------------------------
(* The dispatch guard, and the tasks that take it.                         *)

EnterBug(w, kind, i) ==
  /\ pc[w] = "idle"
  /\ holder' = w
  /\ pc' = [pc EXCEPT ![w] = "recover"]
  /\ task' = [task EXCEPT ![w] = kind]
  /\ item' = [item EXCEPT ![w] = i]
  /\ UNCHANGED <<carried, failure>>

Enter(w, kind, i) ==
  /\ holder = Nobody
  /\ pc[w] = "idle"
  /\ holder' = w
  /\ pc' = [pc EXCEPT ![w] = "recover"]
  /\ task' = [task EXCEPT ![w] = kind]
  /\ item' = [item EXCEPT ![w] = i]
  /\ UNCHANGED <<carried, failure>>

BeginDrain(w) ==
  /\ spawned > 0 /\ spawned' = spawned - 1
  /\ Enter(w, "drain", Nobody)
  /\ UNCHANGED <<queueVars, userVars, turnVars, engineVars, retry,
                 used, recent, restored, removed, leftVars, ops, faults>>

\* with_queue_dispatch_guard answers None: the drain comes back with a timer.
DrainFindsBusy ==
  /\ spawned > 0 /\ spawned' = spawned - 1
  /\ holder # Nobody
  /\ retry' = TRUE
  /\ UNCHANGED <<queueVars, workVars, userVars, turnVars, engineVars, holder,
                 used, recent, restored, removed, leftVars, ops, faults>>

RetryFires ==
  /\ retry /\ retry' = FALSE
  /\ Spawn
  /\ UNCHANGED <<queueVars, workVars, userVars, turnVars, engineVars, holder,
                 used, recent, restored, removed, leftVars, ops, faults>>

BeginManual(w) ==
  /\ \E op \in {"message", "steer"}, i \in Items : UserActs(op) /\ Enter(w, op, i)
  /\ UNCHANGED <<queueVars, userVars, turnVars, engineVars, spawned, retry,
                 used, recent, restored, removed, leftVars, faults>>

ManualFindsBusy ==
  /\ \E op \in {"message", "steer"} : UserActs(op)
  /\ holder # Nobody
  /\ SpawnRoom /\ Spawn
  /\ UNCHANGED <<queueVars, workVars, userVars, turnVars, engineVars, holder, retry,
                 used, recent, restored, removed, leftVars, faults>>

Goto(w, where) == pc' = [pc EXCEPT ![w] = where]

\* Leave the guarded section, with or without a timer for the next attempt.
LeaveQuietly(w)   == Goto(w, "release") /\ UNCHANGED <<spawned, retry>>
LeaveAndRetryBug(w) == LeaveQuietly(w)
LeaveAndRetry(w)  == Goto(w, "release") /\ retry' = TRUE /\ UNCHANGED spawned

\* Whoever holds the guard takes every claim it finds for an orphan.  A request
\* that lifts resumePending this way spawns no drain for the rest of the queue.
RecoverOrphans(w) ==
  /\ pc[w] = "recover"
  /\ status' = [i \in Items |-> IF Dispatching(i) THEN "waiting" ELSE status[i]]
  /\ resumePending' =
       (resumePending /\ ((\A i \in Items : ~Dispatching(i))
                          \/ (\E i \in Items : status[i] = "failed")))
  /\ abandoned' = {}
  /\ missed' = (missed \/ (task[w] # "drain" /\ resumePending /\ ~resumePending'))
  /\ Goto(w, IF task[w] = "drain" THEN "pending" ELSE "find")
  /\ UNCHANGED <<order, request, edition, guardVars, task, item, carried, failure,
                 userVars, turnVars, engineVars, used, recent, restored, removed,
                 ops, faults>>

Watching == <<queueVars, holder, task, carried, failure, userVars, sessionLock,
              engineVars, used, recent, restored, removed, abandoned, ops>>

\* A read of the profile's state fails.  Only a drain that has not read its queue
\* yet, or that comes back for the rest of it, sets a timer for another attempt.
ReadFails(w) ==
  /\ Fault("unreadable")
  /\ \/ /\ pc[w] \in {"recover", "continue"} /\ task[w] = "drain"
        /\ LeaveAndRetry(w)
        /\ UNCHANGED missed
     \/ /\ pc[w] \in {"recover", "find"} /\ task[w] # "drain"
        /\ LeaveQuietly(w)
        /\ UNCHANGED missed
     \/ /\ pc[w] = "read" \/ (pc[w] = "continue" /\ task[w] # "drain")
        /\ LeaveQuietly(w)
        /\ missed' = TRUE
  /\ UNCHANGED <<Watching, item, turn>>

FindItem(w) ==
  /\ pc[w] = "find"
  /\ IF Queued(item[w]) THEN Goto(w, "claim") /\ UNCHANGED <<spawned, retry>>
                        ELSE LeaveQuietly(w)
  /\ UNCHANGED <<Watching, item, turn, missed, faults>>

\* pending_turn_starts: a mark whose process is gone, and whose recorded status
\* is old, is cleared, and the drain goes on.
CheckPendingStart(w) ==
  /\ pc[w] = "pending"
  /\ \/ turn \in {"starting", "left"} /\ LeaveAndRetry(w) /\ UNCHANGED turn /\ NoFault
     \/ turn \in {"starting", "left"} /\ Fault("stale") /\ turn' = "idle"
        /\ Goto(w, "read") /\ UNCHANGED <<spawned, retry>>
     \/ turn \notin {"starting", "left"} /\ UNCHANGED turn /\ NoFault
        /\ Goto(w, "read") /\ UNCHANGED <<spawned, retry>>
  /\ UNCHANGED <<Watching, item, missed>>

\* An empty queue, or one that waits for the user, leaves a drain nothing to do.
NothingToDrain == order = <<>> \/ resumePending

\* The snapshot of the queue from which the drain later takes the first item.
ReadQueue(w) ==
  /\ pc[w] = "read"
  /\ IF NothingToDrain
     THEN LeaveQuietly(w) /\ UNCHANGED item
     ELSE /\ Goto(w, "probe")
          /\ item' = [item EXCEPT ![w] = Head(order)]
          /\ UNCHANGED <<spawned, retry>>
  /\ missed' = FALSE
  /\ UNCHANGED <<Watching, turn, faults>>

\* session_turn_activity.  A start that went out after CheckPendingStart is not
\* yet visible as a live turn, so it may be seen as Idle; a probe that fails
\* while the recorded status is old clears the gateway's record of the turn.
ProbeActivity(w) ==
  /\ pc[w] = "probe"
  /\ \/ turn # "running" /\ Goto(w, "claim") /\ NoFault
        /\ UNCHANGED <<spawned, retry, turn>>
     \/ turn # "idle" /\ LeaveAndRetry(w) /\ NoFault /\ UNCHANGED turn
     \/ turn # "idle" /\ Fault("stale") /\ turn' = "idle" /\ Goto(w, "claim")
        /\ UNCHANGED <<spawned, retry>>
  /\ UNCHANGED <<Watching, item, missed>>

----------------------------------------------------------------------------
(* Claiming an item and sending it.                                        *)

Claim(w) ==
  /\ pc[w] = "claim"
  /\ IF status[item[w]] \in {"waiting", "failed"}
     THEN /\ status' = [status EXCEPT ![item[w]] = "dispatching"]
          /\ carried' = [carried EXCEPT ![w] = edition[item[w]]]
          /\ Goto(w, "send")
          /\ UNCHANGED failure
     ELSE /\ Goto(w, "fail")
          /\ failure' = [failure EXCEPT ![w] = "permanent"]
          /\ UNCHANGED <<status, carried>>
  /\ UNCHANGED <<order, request, edition, resumePending, guardVars, task, item,
                 userVars, turnVars, engineVars, used, recent, restored, removed, leftVars,
                 ops, faults>>

RefusedBug(w, class) ==
  /\ Goto(w, "remove")
  /\ failure' = [failure EXCEPT ![w] = class]

Refused(w, class) ==
  /\ Goto(w, "unclaim")
  /\ failure' = [failure EXCEPT ![w] = class]

\* The part of send_turn_payload and steer_turn_payload before the request goes
\* out: an id sent before is answered with success, a turn that starts or runs
\* refuses a message, the lack of one refuses a steer.
Send(w) ==
  LET k == Key(item[w]) IN
  /\ pc[w] = "send"
  /\ \/ /\ task[w] # "steer" /\ k \in recent
        /\ Goto(w, "remove")
        /\ UNCHANGED <<failure, turnVars, recent>>
     \/ /\ task[w] # "steer" /\ k \notin recent /\ turn # "idle"
        /\ turn \in {"starting", "left"} \/ sessionLock = Nobody
        /\ Refused(w, "permanent")
        /\ UNCHANGED <<turnVars, recent>>
     \/ /\ task[w] # "steer" /\ k \notin recent /\ turn = "idle"
        /\ sessionLock = Nobody
        /\ turn' = "starting" /\ sessionLock' = w
        /\ Goto(w, "accept")
        /\ UNCHANGED <<failure, recent>>
     \/ /\ task[w] = "steer" /\ k \in recent /\ sessionLock = Nobody
        /\ Goto(w, "remove")
        /\ UNCHANGED <<failure, turnVars, recent>>
     \/ /\ task[w] = "steer" /\ k \notin recent /\ turn # "running"
        /\ sessionLock = Nobody
        /\ Refused(w, "permanent")
        /\ UNCHANGED <<turnVars, recent>>
     \/ /\ task[w] = "steer" /\ k \notin recent /\ turn = "running"
        /\ sessionLock = Nobody
        /\ sessionLock' = w /\ recent' = recent \cup {k}
        /\ Goto(w, "accept")
        /\ UNCHANGED <<failure, turn>>
  /\ UNCHANGED <<queueVars, guardVars, task, item, carried, userVars, engineVars,
                 used, restored, removed, leftVars, ops, faults>>

\* remember_sent_client_user_message.
RememberBug(k) == UNCHANGED recent
Remember(k)    == recent' = recent \cup {k}

\* codex app-server takes the message; its answer is still under way.
EngineAccepts(w) ==
  /\ pc[w] = "accept"
  /\ Goto(w, "accepted")
  /\ delivered' = [delivered EXCEPT ![Key(item[w])] = @ + 1]
  /\ UNCHANGED <<queueVars, guardVars, task, item, carried, failure, userVars,
                 turnVars, unanswered, doubtful, forgiven, used, recent, restored, removed,
                 leftVars, ops, faults>>

Requesting == <<queueVars, guardVars, task, item, carried, userVars, delivered,
                used, restored, removed, leftVars, ops>>

\* The answer: settle_accepted_turn_start, or for a steer nothing but the lock.
Answered(w) ==
  /\ pc[w] = "accepted"
  /\ sessionLock' = Nobody
  /\ turn' = "running"
  /\ Remember(Key(item[w]))
  /\ Goto(w, "remove")
  /\ UNCHANGED <<Requesting, failure, unanswered, doubtful, forgiven, faults>>

\* turn/start got no answer in time: the message counts as sent, and the start
\* stays pending until the reconciliation task has looked at the thread.
StartTimesOut(w) ==
  /\ pc[w] \in {"accept", "accepted"} /\ task[w] # "steer"
  /\ Fault("timeout")
  /\ sessionLock' = Nobody
  /\ Remember(Key(item[w]))
  /\ LET late == IF pc[w] = "accept" THEN {Key(item[w])} ELSE {} IN
       unanswered' = unanswered \cup late /\ doubtful' = doubtful \cup late
  /\ Goto(w, "remove")
  /\ UNCHANGED <<Requesting, failure, turn, forgiven>>

\* The gateway forgets the message, whether app-server has taken it or not.
Forgets(w) ==
  LET k == Key(item[w]) IN
  /\ recent' = IF task[w] = "steer" THEN recent \ {k} ELSE recent
  /\ forgiven' = [forgiven EXCEPT ![k] = IF pc[w] = "accepted" THEN delivered[k] ELSE @]

\* An error answer: the request never became a turn.
RequestRefused(w) ==
  /\ pc[w] = "accept"
  /\ \E class \in {"transient", "permanent"} : Fault(class) /\ Refused(w, class)
  /\ Forgets(w)
  /\ sessionLock' = Nobody
  /\ turn' = IF task[w] = "steer" THEN turn ELSE "idle"
  /\ UNCHANGED <<Requesting, unanswered, doubtful>>

\* app-server exits while the request is out, or a steer times out: an error
\* whose text calls for a retry, and no trace of what app-server did with it.
RequestInterrupted(w) ==
  /\ pc[w] \in {"accept", "accepted"}
  /\ \/ Fault("interrupted") /\ turn' = "idle"
     \/ Fault("timeout") /\ task[w] = "steer" /\ UNCHANGED turn
  /\ Refused(w, "transient")
  /\ Forgets(w)
  /\ sessionLock' = Nobody
  /\ UNCHANGED <<Requesting, unanswered, doubtful>>

----------------------------------------------------------------------------
(* After the send.                                                         *)

Quiet == <<request, edition, task, item, carried, failure, holder, userVars,
           turnVars, engineVars, used, recent, restored, removed, leftVars, ops, faults>>

\* The write of remove_session_queue_item_after_dispatch.  If the item is gone
\* the drain tries again later.
RemoveSent(w) ==
  /\ pc[w] = "remove"
  /\ IF Queued(item[w])
     THEN /\ Drop(item[w])
          /\ resumePending' = FALSE
          /\ Goto(w, "continue")
          /\ UNCHANGED <<spawned, retry>>
     ELSE /\ IF task[w] = "drain" THEN LeaveAndRetry(w) ELSE LeaveQuietly(w)
          /\ UNCHANGED <<order, status, resumePending>>
  /\ UNCHANGED Quiet

\* Its read of what is left, and what its two callers do with the rest.
Continue(w) ==
  /\ pc[w] = "continue"
  /\ IF NothingToDrain THEN LeaveQuietly(w)
     ELSE IF task[w] = "drain" THEN LeaveAndRetry(w)
     ELSE Goto(w, "release") /\ Spawn /\ UNCHANGED retry
  /\ UNCHANGED <<order, status, resumePending>>
  /\ UNCHANGED Quiet

\* release_session_queue_item_dispatch_claim.
WithoutClaimBug(i) == status
WithoutClaim(i) == IF Dispatching(i) THEN [status EXCEPT ![i] = "waiting"] ELSE status

\* dispatch_queue_item gives its claim back on every error; a drain that met a transient
\* error waits for its timer, one that met another error marks the item failed.
Unclaim(w) ==
  /\ pc[w] = "unclaim"
  /\ status' = WithoutClaim(item[w])
  /\ \/ task[w] # "drain" /\ LeaveQuietly(w)
     \/ task[w] = "drain" /\ failure[w] = "transient" /\ LeaveAndRetry(w)
     \/ task[w] = "drain" /\ failure[w] = "permanent" /\ Goto(w, "fail")
        /\ UNCHANGED <<spawned, retry>>
  /\ UNCHANGED <<order, resumePending>>
  /\ UNCHANGED Quiet

MarkFailed(w) ==
  /\ pc[w] = "fail"
  /\ IF task[w] = "drain" /\ order # <<>>
     THEN /\ resumePending' = TRUE
          /\ status' = IF Queued(item[w]) THEN [status EXCEPT ![item[w]] = "failed"]
                                          ELSE status
     ELSE UNCHANGED <<resumePending, status>>
  /\ LeaveQuietly(w)
  /\ UNCHANGED order
  /\ UNCHANGED Quiet

Asking(w) == pc[w] \in {"accept", "accepted"}
Owning == Sending \cup {"remove", "unclaim"}

\* The handler of a dispatch is dropped at an await: its claim, its mark of a
\* pending start and the id of its steer stay where they are, the session's lock
\* goes with the future, and Drop for QueueDispatchGuard spawns the release of
\* the guard.  A request that app-server takes after that counts as one that it
\* took just before.
Dropped(w) ==
  LET k == Key(item[w]) IN
  /\ task[w] # "drain" /\ pc[w] \notin {"idle", "release"}
  /\ Fault("drop")
  /\ LeaveQuietly(w)
  /\ sessionLock' = IF Asking(w) THEN Nobody ELSE sessionLock
  /\ turn' = IF Asking(w) /\ task[w] = "message" THEN "left" ELSE turn
  /\ forgiven' = IF pc[w] = "accepted" /\ task[w] = "message"
                 THEN [forgiven EXCEPT ![k] = delivered[k]] ELSE forgiven
  /\ doubtful' = doubtful \cup (IF pc[w] = "accept" /\ task[w] = "steer" THEN {k} ELSE {})
  /\ abandoned' = abandoned \cup (IF pc[w] \in Owning /\ Dispatching(item[w])
                                  THEN {item[w]} ELSE {})
  /\ missed' = (missed \/ pc[w] = "continue")
  /\ UNCHANGED <<queueVars, holder, task, item, carried, failure, userVars, delivered,
                 unanswered, used, recent, restored, removed, ops>>

Release(w) ==
  /\ pc[w] = "release"
  /\ holder' = Nobody
  /\ Goto(w, "idle")
  /\ item' = [item EXCEPT ![w] = Nobody]
  /\ UNCHANGED <<queueVars, spawned, retry, task, carried, failure, userVars,
                 turnVars, engineVars, used, recent, restored, removed, leftVars, ops, faults>>

----------------------------------------------------------------------------
(* The session's turn, as far as the queue can tell.                       *)

Idle == <<queueVars, holder, retry, workVars, userVars, doubtful, forgiven, used, recent,
          restored, removed, leftVars>>

\* A message typed into the composer of the session: another send_turn_payload.
DirectSend ==
  /\ UserActs("direct")
  /\ turn = "idle" /\ sessionLock = Nobody
  /\ turn' = "starting" /\ sessionLock' = "direct"
  /\ UNCHANGED <<Idle, spawned, delivered, unanswered, faults>>

DirectAnswered ==
  /\ sessionLock = "direct"
  /\ sessionLock' = Nobody
  /\ \/ turn' = "running" /\ NoFault
     \/ turn' = "idle" /\ (Fault("permanent") \/ Fault("transient"))
     \/ UNCHANGED turn /\ Fault("timeout")
     \/ turn' = "left" /\ Fault("drop")
  /\ UNCHANGED <<Idle, spawned, delivered, unanswered, ops>>

\* Nobody waits for a start whose handler was dropped: what clears its mark is
\* the notification of its turn, or of an idle thread, if one comes.
LeftStart ==
  /\ turn = "left"
  /\ turn' \in {"running", "idle"}
  /\ UNCHANGED <<Idle, spawned, sessionLock, delivered, unanswered, ops, faults>>

\* The reconciliation of a start without an answer finds a turn or none.
ReconcileStart ==
  /\ turn = "starting" /\ sessionLock = Nobody
  /\ turn' \in {"running", "idle"}
  /\ UNCHANGED <<Idle, spawned, sessionLock, delivered, unanswered, ops, faults>>

\* A turn/start that timed out reaches app-server after all.
LateAccept ==
  /\ turn = "starting" /\ sessionLock = Nobody
  /\ \E k \in unanswered :
       /\ unanswered' = unanswered \ {k}
       /\ delivered' = [delivered EXCEPT ![k] = @ + 1]
  /\ turn' = "running"
  /\ UNCHANGED <<Idle, spawned, sessionLock, ops, faults>>

\* turn/completed spawns a drain; a notification lost to lag spawns none.
TurnEnds ==
  /\ turn = "running"
  /\ turn' = "idle"
  /\ (SpawnRoom /\ Spawn) \/ UNCHANGED spawned
  /\ UNCHANGED <<Idle, sessionLock, delivered, unanswered, ops, faults>>

\* prune_recent_client_user_messages: an id is remembered for half an hour, which
\* is longer than any request is out.
Ages ==
  /\ Fault("aged")
  /\ \E k \in recent \ unanswered :
       /\ \A w \in Workers : Asking(w) => Key(item[w]) # k
       /\ recent' = recent \ {k}
       /\ forgiven' = [forgiven EXCEPT ![k] = delivered[k]]
  /\ UNCHANGED <<queueVars, guardVars, workVars, userVars, turnVars, delivered, unanswered,
                 doubtful, used, restored, removed, leftVars, ops>>

----------------------------------------------------------------------------
(* The gateway dies, with its child, and starts again.                     *)

Crash ==
  /\ Fault("crash")
  /\ holder' = Nobody /\ spawned' = 0 /\ retry' = FALSE
  /\ pc' = [w \in Workers |-> "idle"]
  /\ item' = [w \in Workers |-> Nobody]
  /\ resuming' = FALSE /\ updating' = Nobody /\ waking' = 0
  /\ missed' = FALSE /\ abandoned' = {i \in Items : Dispatching(i)}
  /\ recent' = {}
  /\ turn' = "idle" /\ sessionLock' = Nobody
  /\ unanswered' = {}
  /\ forgiven' = delivered
  /\ restored' = FALSE
  /\ UNCHANGED <<queueVars, task, carried, failure, delivered, doubtful, used,
                 removed, ops>>

\* mark_queues_pending_resume_payload, in a task of its own beside the server.
MarkPendingResume ==
  /\ ~restored /\ restored' = TRUE
  /\ resumePending' = (order # <<>>)
  /\ UNCHANGED <<order, status, request, edition, guardVars, workVars, userVars,
                 turnVars, engineVars, used, recent, removed, leftVars, ops, faults>>

----------------------------------------------------------------------------

Users == \/ Enqueue \/ RemoveItem \/ UpdateRead \/ Reorder \/ ResumeCheck
         \/ DirectSend \/ ManualFindsBusy
         \/ \E w \in Workers : BeginManual(w)

Step(w) == \/ RecoverOrphans(w) \/ FindItem(w) \/ CheckPendingStart(w)
           \/ ReadQueue(w) \/ ProbeActivity(w) \/ Claim(w) \/ Send(w)
           \/ EngineAccepts(w) \/ Answered(w)
           \/ RemoveSent(w) \/ Continue(w) \/ Unclaim(w) \/ MarkFailed(w) \/ Release(w)

Failure(w) == \/ StartTimesOut(w) \/ RequestRefused(w) \/ RequestInterrupted(w)
              \/ ReadFails(w) \/ Dropped(w)

Next == \/ Users
        \/ UpdateWrite \/ ResumeWrite \/ WakeDrain \/ RequestEnds
        \/ DrainFindsBusy \/ RetryFires
        \/ \E w \in Workers : BeginDrain(w) \/ Step(w) \/ Failure(w)
        \/ DirectAnswered \/ ReconcileStart \/ LateAccept \/ LeftStart \/ TurnEnds
        \/ Ages \/ Crash \/ MarkPendingResume

Spec == Init /\ [][Next]_vars

\* Spawned tasks run, timers fire, app-server answers and its turns end.  No
\* user is made to act.
Fairness ==
  /\ WF_vars(UpdateWrite) /\ WF_vars(ResumeWrite) /\ WF_vars(WakeDrain)
  /\ WF_vars(DrainFindsBusy) /\ WF_vars(RetryFires)
  /\ WF_vars(\E w \in Workers : BeginDrain(w))
  /\ \A w \in Workers : WF_vars(Step(w))
  /\ WF_vars(DirectAnswered) /\ WF_vars(ReconcileStart) /\ WF_vars(TurnEnds)
  /\ WF_vars(MarkPendingResume)

FairSpec == Spec /\ Fairness

----------------------------------------------------------------------------
(* Properties.                                                             *)

\* One task at a time is between the guard's acquisition and its release, and
\* queue_dispatching names it (with_queue_dispatch_guard).
SingleDispatcher ==
  \A w \in Workers : Holds(w) <=> holder = w

\* A claim has a task that is sending the item, so that none keeps an item from
\* being edited or removed for ever, or it is one of those that a crash or a
\* dropped handler has left, which the next task in the guard gives up.  The
\* comment on recover_orphaned_session_queue_dispatch_claims, which gives up every
\* claim it finds, relies on the converse as well: a task that has just entered
\* the guard is the only one there (SingleDispatcher).
ClaimsAreOwned ==
  \A i \in Items : Dispatching(i) =>
    i \in abandoned \/ \E w \in Workers : item[w] = i /\ pc[w] \in Owning

\* However often a browser enqueues or a drain retries, app-server takes a
\* message under one client id once, unless the gateway lost its memory of the
\* id: by a crash, by age, by an error that came after app-server took the
\* message, or because the handler was dropped before it could note the id.
AtMostOnce == \A k \in Keys : delivered[k] <= forgiven[k] + 1

\* The same without the excuses: one message for one client id.
SentOnce == \A k \in Keys : delivered[k] <= 1

\* An item leaves the queue because a browser removed it or because its message
\* was sent: taken by app-server, or out with a start that was never answered,
\* or noted as sent by a steer that was dropped before app-server took it.
Taken(k) == delivered[k] > 0 \/ k \in doubtful
NothingLost ==
  \A i \in used : Queued(i) \/ i \in removed \/ Taken(Key(i))

\* A replayed enqueue finds the item of the first one.
OneItemPerRequest ==
  \A i, j \in Items : Queued(i) /\ Queued(j) /\ request[i] = request[j] /\ i # j
                        => request[i] = NoRequest

\* The queue's ids and the items that have a status are the same; each item is
\* there once, and so is each request of a browser.
OrderIsFaithful ==
  /\ OneItemPerRequest
  /\ ToSet(order) = {i \in Items : Queued(i)}
  /\ Len(order) = Cardinality(ToSet(order))
  /\ ToSet(order) \subseteq used /\ removed \cap ToSet(order) = {}

\* No queue is left behind: as long as there is an item and nothing to wait for
\* a user, a drain is under way, spawned, or set on a timer, or a request is about
\* to see to it, unless one was stopped just there or a drain failed to read.
Draining(w) == task[w] = "drain" /\ pc[w] \notin {"idle", "release"}
NoLostWakeup ==
  order # <<>> /\ ~resumePending /\ restored =>
    \/ spawned > 0 \/ retry \/ waking > 0 \/ missed
    \/ \E w \in Workers : Draining(w) \/ pc[w] = "continue"

\* What is being sent is what the queue shows: the claimed item keeps its place
\* in the queue and its content until the send has been decided.
ClaimedItemFrozen ==
  [][\A w \in Workers :
       pc[w] \in Sending /\ pc'[w] \in Sending \cup {"remove"}
         => /\ status'[item[w]] # "absent"
            /\ edition'[item[w]] = carried'[w]]_vars

\* The claim is what protects it: as long as the queue shows an item as being
\* dispatched, no request of a user removes the item or changes its content.
ClaimShields ==
  [][\A w \in Workers :
       pc[w] \in Sending /\ pc'[w] \in Sending \cup {"remove"} /\ Dispatching(item[w])
         => /\ status'[item[w]] # "absent"
            /\ edition'[item[w]] = carried'[w]]_vars

\* What a claim is for: after every step it has an owner, and no step of a user
\* touches the item it shields.
ClaimsHold == [][ClaimsAreOwned']_vars /\ ClaimShields

=============================================================================
