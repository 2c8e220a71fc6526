---------------------------- MODULE TurnLifecycle ----------------------------
(***************************************************************************)
(* The life of the turns of one session: sending, compacting and steering  *)
(* (turn_execution_support.rs), the notifications of app-server and the    *)
(* reconciliation of what got lost (runtime_notification_support.rs), and  *)
(* the views that repair the same state on their way                       *)
(* (queue_runtime_support.rs, thread_detail_support.rs).                   *)
(*                                                                         *)
(* The gateway keeps a session's turn in four places: `active' (the map    *)
(* active_turns), `pending' (pending_turn_starts), `terminal' (the         *)
(* tombstones of recent_terminal_turns) and the stored `status'. The truth *)
(* is `running', the turn app-server works on.                             *)
(*                                                                         *)
(* Two locks matter: `sessionLock' is the session's operation lock, held   *)
(* across awaits; `activeLock' is the mutex of active_turns when a task    *)
(* keeps it across an await. Everything else that takes a mutex for one    *)
(* statement is part of an action. A handler that takes the session lock   *)
(* and does nothing under it but look at app-server and write is one       *)
(* action: what app-server does meanwhile reaches the gateway later.       *)
(***************************************************************************)
EXTENDS Naturals, Sequences, FiniteSets

CONSTANTS Tasks,       \* tasks that run a request, or reconcile after it
          Messages,    \* client ids of messages
          NoMessage,   \* the message of a compaction
          NoOne,       \* the holder of a free lock
          Kinds,       \* what tasks do: "send", "compact", "steer"
          Background,  \* "maintenance", "probe", "detail", "resolve"
          Faults,      \* "reject", "timeout", "exit", "lag", "drop", "misread"
          Attempts,    \* AMBIGUOUS_TURN_START_RECONCILE_ATTEMPTS
          MaxSends,    \* requests of users, hence turns
          MaxFaults    \* faults

ASSUME TurnConstants ==
    /\ NoOne \notin Tasks
    /\ NoMessage \notin Messages
    /\ Kinds \subseteq {"send", "compact", "steer"}
    /\ Background \subseteq {"maintenance", "probe", "detail", "resolve"}
    /\ Faults \subseteq {"reject", "timeout", "exit", "lag", "drop", "misread"}
    /\ Attempts \in Nat \ {0}
    /\ MaxSends \in Nat
    /\ MaxFaults \in Nat

VARIABLES
    running,      \* app-server: the turn it works on, or NoTurn
    started,      \* app-server: the number of turns it has begun
    alive,        \* app-server: the process is up
    inbox,        \* app-server: requests it has not looked at
    events,       \* notifications the monitor has not handled
    accepted,     \* how often app-server took each message
    active,       \* active_turns
    pending,      \* pending_turn_starts
    left,         \* history: the mark in pending_turn_starts is a dropped task's
    terminal,     \* recent_terminal_turns
    recent,       \* recent_client_user_messages
    epoch,        \* session_assignment_epochs
    status,       \* runtimeStatusByThreadId, on disk
    sessionLock,  \* session_operation_locks
    activeLock,   \* the mutex of active_turns, when held across an await
    pc,           \* where each task is
    job,          \* a task's request, the turn it saw, and its reconciliation
    peeked,       \* the monitor's item handler has made its first check
    suspect,      \* what maintenance has found idle: {} or {an active turn}
    view,         \* a view that has read app-server and not yet applied it
    sends, faults

appServer == <<running, started, alive, inbox, accepted>>
memory    == <<active, pending, left, terminal, recent, epoch>>
locks     == <<sessionLock, activeLock>>
tasks     == <<pc, job>>
watchers  == <<peeked, suspect, view>>
bounds    == <<sends, faults>>
vars      == <<appServer, events, memory, status, locks, tasks, watchers, bounds>>

NoTurn   == 0
Turns    == Nat \ {NoTurn}
TurnOrNo == Nat

Statuses == {"starting", "running", "completed", "failed", "stopped", "unknown"}

\* is_live_thread_status: `starting' is not a live status.
Live(s) == s = "running"

\* The steps of a task. "stuck" and "wedged" have no way out of their own: the
\* request, or the reconciler, waits for the mutex of active_turns, whose guard is a
\* temporary of its own `if let'.
Steps == {"idle", "sweep", "sweeping", "gate", "want", "check", "start", "ask",
          "asked", "answered", "late", "failing", "stuck",
          "recheck", "look", "relock", "wedged", "read", "settle", "giveup"}

\* The steps of a request, until it returns or leaves its start to a reconciler.
RequestSteps == {"sweep", "sweeping", "gate", "want", "check", "start", "ask",
                 "asked", "answered", "late", "failing", "stuck"}

NoJob == [kind |-> "send", msg |-> NoMessage, turn |-> NoTurn,
          fence |-> 0, tries |-> 0, negative |-> FALSE]

NoView == [by |-> "none", turn |-> NoTurn]

Init ==
    /\ running = NoTurn
    /\ started = 0
    /\ alive = TRUE
    /\ inbox = {}
    /\ events = <<>>
    /\ accepted = [m \in Messages \cup {NoMessage} |-> 0]
    /\ active = NoTurn
    /\ pending = FALSE
    /\ left = FALSE
    /\ terminal = {}
    /\ recent = {}
    /\ epoch = 0
    /\ status = "completed"
    /\ sessionLock = NoOne
    /\ activeLock = NoOne
    /\ pc = [t \in Tasks |-> "idle"]
    /\ job = [t \in Tasks |-> NoJob]
    /\ peeked = FALSE
    /\ suspect = {}
    /\ view = NoView
    /\ sends = 0
    /\ faults = 0

(***************************************************************************)
(* What several handlers do.                                               *)
(***************************************************************************)

SessionFree == sessionLock = NoOne
MapFree     == activeLock = NoOne

Goes(t, step) == pc' = [pc EXCEPT ![t] = step]
Returns(t) == /\ pc' = [pc EXCEPT ![t] = "idle"]
              /\ job' = [job EXCEPT ![t] = NoJob]

Fault(f) == /\ f \in Faults
            /\ faults < MaxFaults
            /\ faults' = faults + 1

\* A mark of pending_turn_starts is removed, whoever has set it.
Unmarks == pending' = FALSE /\ left' = FALSE

\* A read of the thread may have no answer, or an error for one.
Unread == Faults \cap {"timeout", "misread"} # {}

\* What a handler takes a read of the thread for: the turn in progress, or none also
\* when app-server answers with an error.
Sees(turn) == \/ turn = running /\ UNCHANGED faults
              \/ turn = NoTurn /\ Fault("misread")

\* settle_accepted_turn_start: the turn it is given replaces whatever is in the
\* map, and without one a status that is not live empties it.
Settles(turn, newStatus) ==
    /\ active' = IF turn # NoTurn THEN turn
                 ELSE IF Live(newStatus) THEN active ELSE NoTurn
    /\ Unmarks
    /\ status' = newStatus

\* mark_runtime_session_terminal_after_reconcile, under the session lock: nothing
\* but the pending start, if that is to be cleared, is touched when another turn
\* has taken the place of the expected one.
MarksTerminal(expected, clearPending, newStatus) ==
    IF (pending /\ ~clearPending) \/ active # expected
    THEN /\ IF clearPending THEN Unmarks ELSE UNCHANGED <<pending, left>>
         /\ UNCHANGED <<active, terminal, status>>
    ELSE /\ Unmarks
         /\ active' = NoTurn
         /\ terminal' = terminal \cup ({expected} \ {NoTurn})
         /\ status' = newStatus

(***************************************************************************)
(* Requests of users.                                                      *)
(***************************************************************************)

\* A send whose id has been sent is answered at once, before any lock.
Submit(t) ==
    /\ pc[t] = "idle"
    /\ sends < MaxSends
    /\ \A r \in inbox : r.task # t
    /\ \E k \in Kinds :
         \E m \in IF k = "compact" THEN {NoMessage} ELSE Messages :
            /\ k = "send" => m \notin recent
            /\ job' = [job EXCEPT ![t] = [NoJob EXCEPT !.kind = k, !.msg = m]]
            /\ Goes(t, IF k = "steer" THEN "want" ELSE "sweep")
    /\ sends' = sends + 1
    /\ UNCHANGED <<appServer, events, memory, status, locks, watchers, faults>>

\* clear_stale_session_runtime_activity_if_app_server_missing: only a live status
\* that is old enough is looked at, and only while there is no process.
Sweep(t) ==
    /\ pc[t] = "sweep"
    /\ MapFree
    /\ \/ /\ Goes(t, "gate")
          /\ UNCHANGED job
       \/ /\ ~alive
          /\ Live(status)
          /\ Goes(t, "sweeping")
          /\ job' = [job EXCEPT ![t].turn = active]
    /\ UNCHANGED <<appServer, events, memory, status, locks, watchers, bounds>>

SweepMarks(t) ==
    /\ pc[t] = "sweeping"
    /\ SessionFree
    /\ MapFree
    /\ MarksTerminal(job[t].turn, TRUE, "failed")
    /\ epoch' = IF active = job[t].turn THEN epoch + 1 ELSE epoch
    /\ job' = [job EXCEPT ![t].turn = NoTurn]
    /\ Goes(t, "gate")
    /\ UNCHANGED <<appServer, events, recent, locks, watchers, bounds>>

\* TURN_ALREADY_STARTING, before the lock.
Gate(t) ==
    /\ pc[t] = "gate"
    /\ IF pending THEN Returns(t) ELSE Goes(t, "want") /\ UNCHANGED job
    /\ UNCHANGED <<appServer, events, memory, status, locks, watchers, bounds>>

EnterBug(t) ==
    /\ pc[t] = "want"
    /\ job[t].kind # "steer"
    /\ IF pending
       THEN Returns(t) /\ UNCHANGED <<pending, sessionLock>>
       ELSE /\ pending' = TRUE
            /\ sessionLock' = t
            /\ Goes(t, "check")
            /\ UNCHANGED job
    /\ UNCHANGED <<appServer, events, active, left, terminal, recent, epoch, status,
                   activeLock, watchers, bounds>>

\* TURN_ALREADY_STARTING, with the lock.
Enter(t) ==
    /\ pc[t] = "want"
    /\ job[t].kind # "steer"
    /\ SessionFree
    /\ IF pending
       THEN Returns(t) /\ UNCHANGED <<pending, sessionLock>>
       ELSE /\ pending' = TRUE
            /\ sessionLock' = t
            /\ Goes(t, "check")
            /\ UNCHANGED job
    /\ UNCHANGED <<appServer, events, active, left, terminal, recent, epoch, status,
                   activeLock, watchers, bounds>>

\* TURN_ALREADY_RUNNING, unless app-server says that the cached turn is over. The
\* attachments of a message, or the read, may be refused.
Check(t) ==
    /\ pc[t] = "check"
    /\ MapFree
    /\ \/ /\ active = NoTurn
          /\ Goes(t, "start")
          /\ UNCHANGED <<alive, active, faults>>
       \/ /\ active # NoTurn
          /\ alive' = TRUE
          /\ active' = running
          /\ Goes(t, IF running = NoTurn THEN "start" ELSE "failing")
          /\ UNCHANGED faults
       \/ /\ \/ active # NoTurn /\ (Fault("timeout") \/ Fault("misread"))
             \/ job[t].kind = "send" /\ Fault("reject")
          /\ Goes(t, "failing")
          /\ UNCHANGED <<alive, active>>
    /\ UNCHANGED <<running, started, inbox, accepted, events, pending, left, terminal,
                   recent, epoch, status, locks, job, watchers, sends>>

BeginStart(t) ==
    /\ pc[t] = "start"
    /\ status' = "starting"
    /\ Goes(t, "ask")
    /\ UNCHANGED <<appServer, events, memory, locks, job, watchers, bounds>>

\* Connect, which starts a process when there is none, resume the thread, and send
\* turn/start or thread/compact/start; or fail on the way.
Ask(t) ==
    /\ pc[t] = "ask"
    /\ \/ /\ alive' = TRUE
          /\ inbox' = inbox \cup {[task |-> t, kind |-> job[t].kind,
                                   msg |-> job[t].msg, turn |-> NoTurn]}
          /\ Goes(t, "asked")
          /\ UNCHANGED faults
       \/ /\ Fault("reject")
          /\ Goes(t, "failing")
          /\ UNCHANGED <<alive, inbox>>
    /\ UNCHANGED <<running, started, accepted, events, memory, status, locks, job,
                   watchers, sends>>

\* A steer looks for the id and the turn under the lock. The browser may name the
\* turn; else the map does, or app-server. It registers the id before it asks.
SteerAsks(t) ==
    /\ pc[t] = "want"
    /\ job[t].kind = "steer"
    /\ SessionFree
    /\ MapFree
    /\ \E named \in 0 .. started :
         LET turn == IF named # NoTurn THEN named
                     ELSE IF active # NoTurn THEN active ELSE running
             found == named = NoTurn /\ active = NoTurn
             refused == job[t].msg \in recent \/ turn = NoTurn
         IN /\ alive' = (alive \/ job[t].msg \notin recent)
            /\ IF refused
               THEN Returns(t) /\ UNCHANGED <<inbox, active, recent, sessionLock>>
               ELSE /\ active' = IF found THEN running ELSE active
                    /\ recent' = recent \cup {job[t].msg}
                    /\ inbox' = inbox \cup {[task |-> t, kind |-> "steer",
                                             msg |-> job[t].msg, turn |-> turn]}
                    /\ sessionLock' = t
                    /\ job' = [job EXCEPT ![t].turn = turn]
                    /\ Goes(t, "asked")
    /\ UNCHANGED <<running, started, accepted, events, pending, left, terminal, epoch,
                   status, activeLock, watchers, bounds>>

\* The answer to turn/start: remember the id and settle.
SendSettles(t) ==
    /\ pc[t] = "answered"
    /\ job[t].kind = "send"
    /\ MapFree
    /\ recent' = recent \cup {job[t].msg}
    /\ Settles(job[t].turn, "running")
    /\ sessionLock' = NoOne
    /\ Returns(t)
    /\ UNCHANGED <<appServer, events, terminal, epoch, activeLock, watchers, bounds>>

\* The answer to thread/compact/start names no turn: read the thread, which may
\* fail, and settle with what it says.
CompactSettles(t) ==
    /\ pc[t] = "answered"
    /\ job[t].kind = "compact"
    /\ MapFree
    /\ alive' = TRUE
    /\ \E seen \in {running} \cup (IF Unread THEN {NoTurn} ELSE {}) :
         /\ active' = IF seen # NoTurn THEN seen ELSE active
         /\ status' = IF seen # NoTurn THEN "running" ELSE "completed"
    /\ Unmarks
    /\ sessionLock' = NoOne
    /\ Returns(t)
    /\ UNCHANGED <<running, started, inbox, accepted, events, terminal, recent,
                   epoch, activeLock, watchers, bounds>>

\* The answer to turn/steer: the turn that was steered is the active one.
SteerSettles(t) ==
    /\ pc[t] = "answered"
    /\ job[t].kind = "steer"
    /\ MapFree
    /\ active' = job[t].turn
    /\ sessionLock' = NoOne
    /\ Returns(t)
    /\ UNCHANGED <<appServer, events, pending, left, terminal, recent, epoch, status,
                   activeLock, watchers, bounds>>

\* No answer in time. The id counts as sent. If some turn is in the map the send
\* settles with it, while it still holds the guard of the map, so that it waits for
\* itself; else it leaves the pending start to a reconciler and returns.
Late(t) ==
    /\ pc[t] = "late"
    /\ MapFree
    /\ recent' = recent \cup {job[t].msg}
    /\ IF active # NoTurn
       THEN /\ activeLock' = t
            /\ Goes(t, "stuck")
            /\ UNCHANGED <<sessionLock, job>>
       ELSE /\ sessionLock' = NoOne
            /\ job' = [job EXCEPT ![t].fence = epoch]
            /\ Goes(t, "recheck")
            /\ UNCHANGED activeLock
    /\ UNCHANGED <<appServer, events, active, pending, left, terminal, epoch, status,
                   watchers, bounds>>

FailsStatusBug(t) ==
    /\ pc[t] = "failing"
    /\ IF job[t].kind = "steer"
       THEN recent' = recent \ {job[t].msg} /\ UNCHANGED <<pending, left>>
       ELSE Unmarks /\ UNCHANGED recent
    /\ sessionLock' = NoOne
    /\ Returns(t)
    /\ UNCHANGED <<appServer, events, active, terminal, epoch, status, activeLock,
                   watchers, bounds>>

FailsLockBug(t) ==
    /\ pc[t] = "failing"
    /\ IF job[t].kind = "steer"
       THEN /\ recent' = recent \ {job[t].msg}
            /\ UNCHANGED <<pending, left, status>>
       ELSE /\ Unmarks
            /\ status' = IF pending /\ status = "starting" THEN "failed" ELSE status
            /\ UNCHANGED recent
    /\ Returns(t)
    /\ UNCHANGED <<appServer, events, active, terminal, epoch, locks, watchers, bounds>>

\* An error. A start clears its pending mark, and the status it has set unless
\* somebody else has cleared the mark before; a steer forgets the id.
Fails(t) ==
    /\ pc[t] = "failing"
    /\ IF job[t].kind = "steer"
       THEN /\ recent' = recent \ {job[t].msg}
            /\ UNCHANGED <<pending, left, status>>
       ELSE /\ Unmarks
            /\ status' = IF pending /\ status = "starting" THEN "failed" ELSE status
            /\ UNCHANGED recent
    /\ sessionLock' = NoOne
    /\ Returns(t)
    /\ UNCHANGED <<appServer, events, active, terminal, epoch, activeLock, watchers,
                   bounds>>

\* A task past its insertion into pending_turn_starts that answers for it.
Starting(t) == /\ job[t].kind # "steer"
               /\ pc[t] \in {"check", "start", "ask", "asked", "answered", "late",
                             "failing"}

\* What a request has written when it is dropped between its own awaits: the id of an
\* accepted message, the turn it settles with, the end of its pending mark.
Interrupted(t) ==
    \/ UNCHANGED <<active, pending, recent>>
    \/ /\ pc[t] \in {"answered", "late"}
       /\ job[t].kind = "send"
       /\ recent' = recent \cup {job[t].msg}
       /\ UNCHANGED <<active, pending>>
    \/ /\ pc[t] = "answered"
       /\ job[t].kind # "steer"
       /\ MapFree
       /\ recent' = recent \cup ({job[t].msg} \ {NoMessage})
       /\ LET turn == IF job[t].kind = "send" THEN job[t].turn ELSE running
          IN  active' = IF turn # NoTurn THEN turn ELSE active
       /\ pending' \in {pending, FALSE}
    \/ /\ pc[t] = "failing"
       /\ job[t].kind # "steer"
       /\ pending' = FALSE
       /\ UNCHANGED <<active, recent>>

\* The connection of a request over HTTP is closed, and its handler is dropped at the
\* await where it is. Its locks are released; a mark in pending_turn_starts stays,
\* and what app-server has been asked for goes on.
Dropped(t) ==
    /\ pc[t] \in RequestSteps
    /\ Fault("drop")
    /\ Interrupted(t)
    /\ left' = (left \/ (pending' /\ (Starting(t) \/ pc[t] = "stuck")))
    /\ sessionLock' = IF sessionLock = t THEN NoOne ELSE sessionLock
    /\ activeLock' = IF activeLock = t THEN NoOne ELSE activeLock
    /\ Returns(t)
    /\ UNCHANGED <<appServer, events, terminal, epoch, status, watchers, sends>>

(***************************************************************************)
(* The reconciliation of a start without an answer.                        *)
(***************************************************************************)

Current(t) == job[t].fence = epoch

Recheck(t) ==
    /\ pc[t] = "recheck"
    /\ IF Current(t) /\ pending THEN Goes(t, "look") /\ UNCHANGED job ELSE Returns(t)
    /\ UNCHANGED <<appServer, events, memory, status, locks, watchers, bounds>>

\* A turn in the map: take the session lock and settle, holding the map's guard.
Look(t) ==
    /\ pc[t] = "look"
    /\ MapFree
    /\ IF active # NoTurn
       THEN activeLock' = t /\ Goes(t, "relock")
       ELSE UNCHANGED activeLock /\ Goes(t, "read")
    /\ UNCHANGED <<appServer, events, memory, status, sessionLock, job, watchers,
                   bounds>>

Relock(t) ==
    /\ pc[t] = "relock"
    /\ SessionFree
    /\ sessionLock' = t
    /\ Goes(t, "wedged")
    /\ UNCHANGED <<appServer, events, memory, status, activeLock, job, watchers,
                   bounds>>

NextTry(t) == Goes(t, IF job[t].tries + 1 = Attempts THEN "giveup" ELSE "recheck")

\* thread/read: a turn in progress or a turn with the message settles the start.
Read(t) ==
    /\ pc[t] = "read"
    /\ \/ /\ running # NoTurn \/ accepted[job[t].msg] > 0
          /\ alive' = TRUE
          /\ job' = [job EXCEPT ![t].turn = running]
          /\ Goes(t, "settle")
       \/ /\ running = NoTurn /\ accepted[job[t].msg] = 0
          /\ alive' = TRUE
          /\ job' = [job EXCEPT ![t].negative = TRUE, ![t].tries = @ + 1]
          /\ NextTry(t)
       \/ /\ Unread
          /\ job' = [job EXCEPT ![t].tries = @ + 1]
          /\ NextTry(t)
          /\ UNCHANGED alive
    /\ UNCHANGED <<running, started, inbox, accepted, events, memory, status, locks,
                   watchers, bounds>>

ReconcilerSettles(t) ==
    /\ pc[t] = "settle"
    /\ SessionFree
    /\ MapFree
    /\ IF Current(t)
       THEN Settles(job[t].turn,
                    IF job[t].turn # NoTurn THEN "running" ELSE "completed")
       ELSE UNCHANGED <<active, pending, left, status>>
    /\ Returns(t)
    /\ UNCHANGED <<appServer, events, terminal, recent, epoch, locks, watchers,
                   bounds>>

GivesUpBug(t) ==
    /\ pc[t] = "giveup"
    /\ SessionFree
    /\ IF Current(t) /\ pending /\ job[t].negative
       THEN Unmarks /\ status' = "failed"
       ELSE UNCHANGED <<pending, left, status>>
    /\ Returns(t)
    /\ UNCHANGED <<appServer, events, active, terminal, recent, epoch, locks,
                   watchers, bounds>>

GivesUp(t) ==
    /\ pc[t] = "giveup"
    /\ SessionFree
    /\ IF Current(t) /\ pending
       THEN /\ Unmarks
            /\ status' = IF job[t].negative THEN "failed" ELSE "unknown"
       ELSE UNCHANGED <<pending, left, status>>
    /\ Returns(t)
    /\ UNCHANGED <<appServer, events, active, terminal, recent, epoch, locks,
                   watchers, bounds>>

(***************************************************************************)
(* app-server, as far as the gateway relies on it. A turn/start while a    *)
(* turn is in progress joins that turn.                                    *)
(***************************************************************************)

\* The answer reaches a task only while it waits for it.
Answer(r, turn) ==
    IF pc[r.task] = "asked"
    THEN /\ Goes(r.task, "answered")
         /\ job' = [job EXCEPT ![r.task].turn = turn]
    ELSE UNCHANGED tasks

Begins(r) ==
    /\ r \in inbox
    /\ alive
    /\ r.kind # "steer"
    /\ inbox' = inbox \ {r}
    /\ accepted' = [accepted EXCEPT ![r.msg] = @ + 1]
    /\ IF running = NoTurn
       THEN /\ running' = started + 1
            /\ started' = started + 1
            /\ events' = events \o <<[kind |-> "active", turn |-> NoTurn],
                                     [kind |-> "started", turn |-> started + 1]>>
       ELSE UNCHANGED <<running, started, events>>
    /\ Answer(r, running')
    /\ UNCHANGED <<alive, memory, status, locks, watchers, bounds>>

Steers(r) ==
    /\ r \in inbox
    /\ alive
    /\ r.kind = "steer"
    /\ inbox' = inbox \ {r}
    /\ IF r.turn = running
       THEN /\ accepted' = [accepted EXCEPT ![r.msg] = @ + 1]
            /\ Answer(r, running)
       ELSE /\ pc' = [pc EXCEPT ![r.task] = IF @ = "asked" THEN "failing" ELSE @]
            /\ UNCHANGED <<accepted, job>>
    /\ UNCHANGED <<running, started, alive, events, memory, status, locks, watchers,
                   bounds>>

Refuses(r) ==
    /\ r \in inbox
    /\ alive
    /\ Fault("reject")
    /\ inbox' = inbox \ {r}
    /\ pc' = [pc EXCEPT ![r.task] = IF @ = "asked" THEN "failing" ELSE @]
    /\ UNCHANGED <<running, started, alive, accepted, events, memory, status, locks,
                   job, watchers, sends>>

\* The time of a request is over, whether app-server has taken it or not.
TimesOut(t) ==
    /\ pc[t] \in {"asked", "answered"}
    /\ Fault("timeout")
    /\ Goes(t, IF job[t].kind = "send" THEN "late" ELSE "failing")
    /\ UNCHANGED <<appServer, events, memory, status, locks, job, watchers, sends>>

Works ==
    /\ running # NoTurn
    /\ \A i \in 1 .. Len(events) : events[i].kind # "item"
    /\ events' = Append(events, [kind |-> "item", turn |-> running])
    /\ UNCHANGED <<appServer, memory, status, locks, tasks, watchers, bounds>>

Ends ==
    /\ running # NoTurn
    /\ running' = NoTurn
    /\ events' = events \o <<[kind |-> "completed", turn |-> running],
                             [kind |-> "idle", turn |-> NoTurn]>>
    /\ UNCHANGED <<started, alive, inbox, accepted, memory, status, locks, tasks,
                   watchers, bounds>>

\* finalize_process_exit: requests that wait for an answer fail, and a notification
\* tells the monitor.
Exits ==
    /\ alive
    /\ Fault("exit")
    /\ alive' = FALSE
    /\ running' = NoTurn
    /\ inbox' = {}
    /\ events' = Append(events, [kind |-> "exited", turn |-> NoTurn])
    /\ pc' = [t \in Tasks |-> IF pc[t] = "asked" THEN "failing" ELSE pc[t]]
    /\ UNCHANGED <<started, accepted, memory, status, locks, job, watchers, sends>>

\* The broadcast channel drops its oldest message when the monitor lags.
Lags ==
    /\ events # <<>>
    /\ ~peeked
    /\ Fault("lag")
    /\ events' = Tail(events)
    /\ UNCHANGED <<appServer, memory, status, locks, tasks, watchers, sends>>

(***************************************************************************)
(* The monitor handles one notification after the other. The session lock  *)
(* may make it wait; so does that of any other session of the client.      *)
(***************************************************************************)

Incoming(kind) == events # <<>> /\ Head(events).kind = kind
Handled     == events' = Tail(events)

HandleStarted ==
    /\ Incoming("started")
    /\ SessionFree
    /\ MapFree
    /\ Unmarks
    /\ active' = Head(events).turn
    /\ status' = "running"
    /\ Handled
    /\ UNCHANGED <<appServer, terminal, recent, epoch, locks, tasks, watchers, bounds>>

\* Only the turn that ends leaves the map.
HandleCompleted ==
    /\ Incoming("completed")
    /\ SessionFree
    /\ MapFree
    /\ LET turn == Head(events).turn IN
         /\ terminal' = terminal \cup {turn}
         /\ active' = IF active = turn THEN NoTurn ELSE active
    /\ status' = IF active' # NoTurn THEN "running"
                 ELSE IF pending THEN status ELSE "completed"
    /\ Handled
    /\ UNCHANGED <<appServer, pending, left, recent, epoch, locks, tasks, watchers,
                   bounds>>

\* An item of a turn that the map does not have and that is not known to be over:
\* look again with the lock.
HandleItem ==
    /\ Incoming("item")
    /\ ~peeked
    /\ MapFree
    /\ IF active = NoTurn /\ Head(events).turn \notin terminal
       THEN peeked' = TRUE /\ UNCHANGED events
       ELSE peeked' = FALSE /\ Handled
    /\ UNCHANGED <<appServer, memory, status, locks, tasks, suspect, view, bounds>>

HandleItemLockedBug ==
    /\ peeked
    /\ SessionFree
    /\ MapFree
    /\ active' = IF active = NoTurn THEN Head(events).turn ELSE active
    /\ status' = IF status \in {"failed", "stopped", "unknown"} THEN "running" ELSE status
    /\ peeked' = FALSE
    /\ Handled
    /\ UNCHANGED <<appServer, pending, left, terminal, recent, epoch, locks, tasks,
                   suspect, view, bounds>>

\* The turn is taken from the item, unless the session is completed: then
\* app-server has to confirm it, and an error is no confirmation.
HandleItemLocked ==
    /\ peeked
    /\ SessionFree
    /\ MapFree
    /\ LET turn == Head(events).turn
           wanted == active = NoTurn /\ turn \notin terminal
           asks == wanted /\ status = "completed"
       IN /\ \/ /\ asks
                /\ \E seen \in {running, NoTurn} :
                     /\ Sees(seen)
                     /\ active' = IF seen = turn THEN turn ELSE active
                /\ UNCHANGED status
             \/ /\ ~asks
                /\ active' = IF wanted THEN turn ELSE active
                /\ status' = IF wanted /\ status \in {"failed", "stopped", "unknown"}
                             THEN "running" ELSE status
                /\ UNCHANGED faults
          /\ alive' = (alive \/ asks)
    /\ peeked' = FALSE
    /\ Handled
    /\ UNCHANGED <<running, started, inbox, accepted, pending, left, terminal, recent,
                   epoch, locks, tasks, suspect, view, sends>>

\* thread/status/changed to a live status. One that comes when the session has
\* ended and nothing is known of a turn has to be confirmed by app-server; an error
\* is no confirmation.
HandleActive ==
    /\ Incoming("active")
    /\ SessionFree
    /\ MapFree
    /\ IF active # NoTurn \/ pending \/ status \notin {"completed", "failed", "stopped"}
       THEN status' = "running" /\ UNCHANGED <<alive, active, faults>>
       ELSE /\ alive' = TRUE
            /\ \E seen \in {running, NoTurn} :
                 /\ Sees(seen)
                 /\ active' = seen
                 /\ status' = IF seen # NoTurn THEN "running" ELSE status
    /\ Handled
    /\ UNCHANGED <<running, started, inbox, accepted, pending, left, terminal, recent,
                   epoch, locks, tasks, watchers, sends>>

\* terminal_status_conflicts_with_live_turn: what the gateway knows of a turn, or a
\* live status that is fresh, is a reason to ask app-server.
AsksBeforeIdle == active # NoTurn \/ pending \/ Live(status)

HandleIdleBug ==
    /\ Incoming("idle")
    /\ SessionFree
    /\ MapFree
    /\ active' = NoTurn
    /\ terminal' = terminal \cup {active}
    /\ Unmarks
    /\ status' = "completed"
    /\ Handled
    /\ UNCHANGED <<appServer, recent, epoch, locks, tasks, watchers, bounds>>

\* thread/status/changed to idle: not true of a session whose turn app-server
\* confirms, or cannot deny in time; else, and when app-server answers with an error,
\* everything about the turn is cleared.
HandleIdle ==
    /\ Incoming("idle")
    /\ SessionFree
    /\ MapFree
    /\ \/ /\ AsksBeforeIdle
          /\ running # NoTurn
          /\ active' = running
          /\ status' = "running"
          /\ UNCHANGED <<pending, left, terminal, faults>>
       \/ /\ active # NoTurn \/ pending
          /\ Fault("timeout")
          /\ status' = "running"
          /\ UNCHANGED <<active, pending, left, terminal>>
       \/ /\ \/ /\ running = NoTurn \/ (active = NoTurn /\ ~pending)
                /\ UNCHANGED faults
             \/ AsksBeforeIdle /\ Fault("misread")
          /\ active' = NoTurn
          /\ terminal' = terminal \cup ({active} \ {NoTurn})
          /\ Unmarks
          /\ status' = "completed"
    /\ alive' = (alive \/ AsksBeforeIdle)
    /\ Handled
    /\ UNCHANGED <<running, started, inbox, accepted, recent, epoch, locks, tasks,
                   watchers, sends>>

\* clear_runtime_activity_after_app_server_client_exit. It takes no session lock,
\* and compares the instance of the client, which outlives its processes.
HandleExited ==
    /\ Incoming("exited")
    /\ MapFree
    /\ active' = NoTurn
    /\ Unmarks
    /\ status' = IF (active # NoTurn \/ pending) /\ Live(status) THEN "failed" ELSE status
    /\ epoch' = epoch + 1
    /\ Handled
    /\ UNCHANGED <<appServer, terminal, recent, locks, tasks, watchers, bounds>>

(***************************************************************************)
(* Maintenance, every 15 s for the sessions that have a turn, a pending    *)
(* start or a live status (reconcile_lost_runtime_activity_for_profile).   *)
(***************************************************************************)

WatchedBug == active = NoTurn /\ ~pending /\ Live(status)

Watched == active # NoTurn \/ pending \/ Live(status)

\* Without a process everything is cleared, and no session lock is taken.
MaintenanceClears ==
    /\ "maintenance" \in Background
    /\ Watched
    /\ ~alive
    /\ MapFree
    /\ active' = NoTurn
    /\ Unmarks
    /\ status' = IF Live(status) THEN "failed" ELSE status
    /\ UNCHANGED <<appServer, events, terminal, recent, epoch, locks, tasks, watchers,
                   bounds>>

\* app-server, or the tail of the rollout file, shows no turn in progress.
MaintenanceReads ==
    /\ "maintenance" \in Background
    /\ Watched
    /\ alive
    /\ ~pending
    /\ MapFree
    /\ suspect = {}
    /\ running = NoTurn
    /\ suspect' = {active}
    /\ UNCHANGED <<appServer, events, memory, status, locks, tasks, peeked, view, bounds>>

MaintenanceMarks ==
    /\ suspect # {}
    /\ SessionFree
    /\ MapFree
    /\ \E turn \in suspect : \E s \in {"completed", "failed", "stopped"} :
         MarksTerminal(turn, FALSE, s)
    /\ suspect' = {}
    /\ UNCHANGED <<appServer, events, recent, epoch, locks, tasks, peeked, view, bounds>>

(***************************************************************************)
(* Views read the thread and repair the maps without the session lock.     *)
(***************************************************************************)

\* session_turn_activity of the queue, the session detail, and the look-up of the
\* turn to interrupt, which reads only when the map has none.
ViewReads ==
    /\ view = NoView
    /\ MapFree
    /\ \E by \in Background \ {"maintenance"} :
         /\ by = "resolve" => active = NoTurn /\ running # NoTurn
         /\ by = "probe" => alive \/ active # NoTurn
         /\ view' = [by |-> by, turn |-> running]
    /\ alive' = TRUE
    /\ UNCHANGED <<running, started, inbox, accepted, events, memory, status, locks,
                   tasks, peeked, suspect, bounds>>

ResolveApplies ==
    /\ view.by = "resolve"
    /\ MapFree
    /\ active' = view.turn
    /\ view' = NoView
    /\ UNCHANGED <<appServer, events, pending, left, terminal, recent, epoch, status,
                   locks, tasks, peeked, suspect, bounds>>

ProbeApplies ==
    /\ view.by = "probe"
    /\ MapFree
    /\ active' = view.turn
    /\ view' = NoView
    /\ UNCHANGED <<appServer, events, pending, left, terminal, recent, epoch, status,
                   locks, tasks, peeked, suspect, bounds>>

\* The drain gives up on a live status that is stale and cannot be confirmed.
ProbeGivesUp ==
    /\ view.by = "probe"
    /\ MapFree
    /\ Live(status)
    /\ Fault("timeout")
    /\ active' = NoTurn
    /\ Unmarks
    /\ epoch' = epoch + 1
    /\ status' = "completed"
    /\ view' = NoView
    /\ UNCHANGED <<appServer, events, terminal, recent, locks, tasks, peeked, suspect,
                   sends>>

\* A stored status that is neither live nor starting clears the maps; a turn in
\* the payload, or a starting status that is stale, is confirmed before.
DetailApplies ==
    /\ view.by = "detail"
    /\ MapFree
    /\ \/ /\ status \notin {"running", "starting"}
          /\ active' = NoTurn
          /\ Unmarks
          /\ UNCHANGED <<alive, status>>
       \/ /\ (status = "running" /\ view.turn # NoTurn) \/ status = "starting"
          /\ running = NoTurn
          /\ alive' = TRUE
          /\ active' = NoTurn
          /\ Unmarks
          /\ status' = "completed"
       \/ /\ status \in {"running", "starting"}
          /\ view.turn = NoTurn \/ running # NoTurn \/ Unread
          /\ active' = IF view.turn # NoTurn THEN view.turn ELSE active
          /\ UNCHANGED <<alive, pending, left, status>>
    /\ view' = NoView
    /\ UNCHANGED <<running, started, inbox, accepted, events, terminal, recent, epoch,
                   locks, tasks, peeked, suspect, bounds>>

-----------------------------------------------------------------------------
Task(t) ==
    \/ Sweep(t) \/ SweepMarks(t) \/ Gate(t) \/ Enter(t) \/ Check(t) \/ BeginStart(t)
    \/ Ask(t) \/ SteerAsks(t) \/ SendSettles(t) \/ CompactSettles(t) \/ SteerSettles(t)
    \/ Late(t) \/ Fails(t) \/ Recheck(t) \/ Look(t) \/ Relock(t) \/ Read(t)
    \/ ReconcilerSettles(t) \/ GivesUp(t)

Monitor == HandleStarted \/ HandleCompleted \/ HandleItem \/ HandleItemLocked
           \/ HandleActive \/ HandleIdle \/ HandleExited

Maintenance == MaintenanceClears \/ MaintenanceReads \/ MaintenanceMarks

Views == ViewReads \/ ResolveApplies \/ ProbeApplies \/ ProbeGivesUp \/ DetailApplies

AppServer == (\E r \in inbox : Begins(r) \/ Steers(r) \/ Refuses(r))
             \/ Works \/ Ends \/ Exits \/ Lags

Next == (\E t \in Tasks : Submit(t) \/ Task(t) \/ TimesOut(t) \/ Dropped(t))
        \/ Monitor \/ Maintenance \/ Views \/ AppServer

Spec == Init /\ [][Next]_vars

(***************************************************************************)
(* Fairness. tokio runs every task and its mutexes serve their waiters in  *)
(* turn, so a step that is possible again and again is taken: strong       *)
(* fairness. Turns end and requests are looked at. Nobody has to send, no  *)
(* fault has to happen, and no view has to be opened.                      *)
(***************************************************************************)
FairSpec ==
    /\ Spec
    /\ \A t \in Tasks : SF_vars(Task(t))
    /\ SF_vars(Monitor)
    /\ SF_vars(MaintenanceClears) /\ SF_vars(MaintenanceReads) /\ SF_vars(MaintenanceMarks)
    /\ WF_vars(ResolveApplies \/ ProbeApplies \/ DetailApplies)
    /\ WF_vars(\E r \in inbox : Begins(r) \/ Steers(r))
    /\ WF_vars(Ends)

(***************************************************************************)
(* Properties.                                                             *)
(***************************************************************************)
Requests == [task : Tasks, kind : Kinds, msg : Messages \cup {NoMessage},
             turn : TurnOrNo]
Events == [kind : {"active", "idle", "exited"}, turn : {NoTurn}]
          \cup [kind : {"started", "item", "completed"}, turn : Turns]

\* The types of the variables.
TypeOK ==
    /\ running \in TurnOrNo
    /\ started \in Nat
    /\ alive \in BOOLEAN
    /\ inbox \subseteq Requests
    /\ events \in Seq(Events)
    /\ accepted \in [Messages \cup {NoMessage} -> Nat]
    /\ active \in TurnOrNo
    /\ pending \in BOOLEAN
    /\ left \in BOOLEAN
    /\ terminal \subseteq Turns
    /\ recent \subseteq Messages
    /\ epoch \in Nat
    /\ status \in Statuses
    /\ sessionLock \in Tasks \cup {NoOne}
    /\ activeLock \in Tasks \cup {NoOne}
    /\ pc \in [Tasks -> Steps]
    /\ job \in [Tasks -> [kind : Kinds \cup {"send"}, msg : Messages \cup {NoMessage},
                          turn : TurnOrNo, fence : Nat, tries : Nat,
                          negative : BOOLEAN]]
    /\ peeked \in BOOLEAN
    /\ suspect \subseteq TurnOrNo
    /\ view \in [by : {"none", "probe", "detail", "resolve"}, turn : TurnOrNo]
    /\ sends \in 0 .. MaxSends
    /\ faults \in 0 .. MaxFaults

\* A task that reconciles a start whose answer did not come in time.
Reconciling(t) == pc[t] \in {"recheck", "look", "read", "settle", "giveup"}

\* A pending start blocks every send of the session (TURN_ALREADY_STARTING), and
\* maintenance does not look at a session that has one: whenever it is set, the
\* task that set it is still going to clear it, or to settle it, itself, unless that
\* task was a handler dropped with its connection. Until the next notification of the
\* session's turn, the exit of app-server or a look at the session clears it, such a
\* mark is nobody's.
PendingHasOwner ==
    pending => \/ left
               \/ \E t \in Tasks : \/ Starting(t)
                                   \/ Reconciling(t) /\ Current(t)
                                   \/ pc[t] \in {"relock", "stuck", "wedged"}

\* One send, compaction or steer of a session is at work at a time, from its lock to
\* its answer or error.
Locked(t) == \/ Starting(t)
             \/ pc[t] \in {"asked", "answered", "failing"}

OperationsExclude == \A t, u \in Tasks : Locked(t) /\ Locked(u) => t = u

\* A late item never brings back a turn that is known to be over, whatever happened
\* between the handler's two checks.
NoResurrection ==
    [][peeked /\ ~peeked' => active' = active \/ active' \notin terminal]_vars

Quiet == /\ events = <<>> /\ inbox = {} /\ ~peeked /\ suspect = {} /\ view = NoView
         /\ \A t \in Tasks : pc[t] = "idle"

\* With nothing on its way, the gateway has the turn that app-server works on.
TurnAgrees == Quiet => active = running /\ ~pending

\* With nothing on its way, the stored status says whether there is a turn, and no
\* start is left at `starting'.
StatusAgrees == Quiet => /\ Live(status) = (running # NoTurn)
                         /\ status # "starting"

\* The gateway's records of a session at rest agree with app-server.
RecordsAgree == TurnAgrees /\ StatusAgrees

\* A message that is sent as a turn of its own does not join one in progress.
OneTurnAtATime ==
    [][\A r \in inbox : r \notin inbox' /\ r.kind # "steer" /\ accepted' # accepted
                        => running = NoTurn]_vars

\* app-server takes a message once.
OnceEach == \A m \in Messages : accepted[m] <= 1

\* When the users rest, no session is left that looks as if it were at work, unless a
\* handler that was dropped has left a mark that keeps maintenance away from it.
Converges == <>[](left \/ (active = NoTurn /\ ~Live(status)))

\* A request comes to its end, and so does its reconciliation.
TaskEnds == \A t \in Tasks : pc[t] # "idle" ~> pc[t] = "idle"

\* A start that has failed does not stay `starting'.
StartingEnds == status = "starting" ~> status # "starting"
=============================================================================
