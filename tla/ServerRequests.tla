---------------------------- MODULE ServerRequests ----------------------------
(***************************************************************************)
(* The questions an app-server asks while a turn runs (approvals, user     *)
(* input; runtime_request_support.rs), for one session and one client of   *)
(* the pool: the process asks, the client's reader records the question    *)
(* and broadcasts it, the request task of the monitor shows it as a        *)
(* prompt, and a user, a preference or the process itself settles it.      *)
(* What ends it arrives through another task, the one of notifications.    *)
(*                                                                         *)
(* An ask is a pair <<id, generation of the connection>>.  A process       *)
(* numbers its questions from 1: the ids of two processes are the same.    *)
(***************************************************************************)
EXTENDS Integers, FiniteSets, SequencesExt

CONSTANTS
  Users,        \* answers from browsers and auto-resolution timers
  Modes,        \* "stdio" and "handoff" connections
  Faults, MaxFaults, \* bound: kinds of faults and their number in a behaviour
  MaxAsks, MaxTotal, \* bounds: questions of one process, of all
  MaxProcs, MaxGens, MaxTurns, \* bounds: processes, connections, turns
  MaxUnread, MaxNotes, \* bounds: lines not read, notifications not handled
  RelayCap,     \* the broadcast channel of requests
  PromptCap     \* PENDING_SERVER_REQUEST_MAX_PER_SESSION

Ids  == 1..MaxAsks
Gens == 1..MaxGens
Asks == Ids \X Gens
NoAsk == <<0, 0>>

ASSUME BoundsAssumption ==
  /\ MaxAsks \in Nat /\ MaxTotal \in Nat /\ MaxProcs \in Nat /\ MaxGens \in Nat /\ MaxTurns \in Nat
  /\ MaxFaults \in Nat /\ MaxUnread \in Nat /\ MaxNotes \in Nat /\ RelayCap \in Nat \ {0} /\ PromptCap \in Nat \ {0}
ASSUME ModesAssumption == Modes \subseteq {"stdio", "handoff"}

VARIABLES
  mode, auto,   \* kind of the connection; whether the session approves by itself
  proc, procs,  \* the running process (0 for none), and the last one started
  asked, open, working, \* of that process: questions, unanswered ones, a turn runs
  inst, up,     \* generation in the client's `process` (0 for None); it is connected
  gens, origin, \* generations given out, and the process each one talks to
  lines,        \* of each generation, what its reader has not read
  known,        \* the client's pending_server_requests: generation of each id
  relay, lagged, \* requests_tx as the request task sees it
  notes,        \* notifications_tx as the notification task sees it
  busy, assigned, \* an active turn or a pending start; an assignment to the client
  shown,        \* the gateway's pending_server_requests, oldest first
  tombs,        \* RESOLVED_SERVER_REQUEST_TOMBSTONES
  batch, rt,    \* the request task: the replay it works on, where it is
  nt, us,       \* the notification task; the users
  excused, stale, \* history: open asks lost, and prompts left, in one of the races below
  bereft,       \* history: a late exit took the running turn from the session
  refused, misfit, \* history: asks refused without cause; an answer to another question
  deaf,         \* history: the process said something to nobody
  total, turns, faults \* counters for the bounds

procVars == <<proc, procs, asked, working>>
linkVars == <<mode, auto, inst, up, gens, origin>>
gateVars == <<busy, assigned>>
bounds   == <<total, turns, faults>>
vars == <<mode, auto, proc, procs, asked, open, working, inst, up, gens, origin, lines, known,
          relay, lagged, notes, busy, assigned, shown, tombs, batch, rt, nt, us, excused,
          stale, bereft, refused, misfit, deaf, total, turns, faults>>

Lines == [kind : {"ask", "resolved", "idle"}, id : Ids \cup {0}]
Notes == [kind : {"resolved", "idle", "exited"}, id : Ids \cup {0}, of : 0..MaxProcs]
NoNote == [kind |-> "idle", id |-> 0, of |-> 0]

TypeOK ==
  /\ mode \in Modes /\ auto \in BOOLEAN
  /\ proc \in 0..MaxProcs /\ procs \in 0..MaxProcs
  /\ asked \in 0..MaxAsks /\ open \subseteq Ids /\ working \in BOOLEAN
  /\ inst \in 0..MaxGens /\ up \in BOOLEAN /\ gens \in 0..MaxGens
  /\ origin \in [Gens -> 0..MaxProcs]
  /\ lines \in [Gens -> Seq(Lines)]
  /\ known \in [Ids -> 0..MaxGens]
  /\ relay \in Seq(Asks) /\ Len(relay) <= RelayCap /\ lagged \in BOOLEAN
  /\ notes \in Seq(Notes)
  /\ busy \in BOOLEAN /\ assigned \in BOOLEAN
  /\ shown \in Seq(Asks) /\ Len(shown) <= PromptCap
  /\ tombs \subseteq Asks /\ batch \subseteq Asks
  /\ rt \in [at : {"recv", "judge", "insert", "reject"}, ask : Asks \cup {NoAsk}]
  /\ nt \in [at : {"recv", "drop", "wipe"}, note : Notes]
  /\ us \in [Users -> [at : {"idle", "answer", "tomb", "remove"}, ask : Asks \cup {NoAsk}]]
  /\ excused \subseteq Ids /\ stale \subseteq Asks /\ bereft \in BOOLEAN
  /\ refused \subseteq Asks /\ misfit \in BOOLEAN /\ deaf \in BOOLEAN
  /\ total \in 0..MaxTotal /\ turns \in 0..MaxTurns /\ faults \in 0..MaxFaults

Init ==
  /\ mode \in Modes /\ auto \in BOOLEAN
  /\ proc = 0 /\ procs = 0 /\ asked = 0 /\ open = {} /\ working = FALSE
  /\ inst = 0 /\ up = FALSE /\ gens = 0 /\ origin = [g \in Gens |-> 0]
  /\ lines = [g \in Gens |-> <<>>]
  /\ known = [i \in Ids |-> 0] /\ relay = <<>> /\ lagged = FALSE /\ notes = <<>>
  /\ busy = FALSE /\ assigned = FALSE /\ shown = <<>> /\ tombs = {}
  /\ batch = {} /\ rt = [at |-> "recv", ask |-> NoAsk] /\ nt = [at |-> "recv", note |-> NoNote]
  /\ us = [u \in Users |-> [at |-> "idle", ask |-> NoAsk]]
  /\ excused = {} /\ stale = {} /\ bereft = FALSE /\ refused = {} /\ misfit = FALSE
  /\ deaf = FALSE /\ total = 0 /\ turns = 0 /\ faults = 0

\* The question is one the running process still waits for.
Asking(a) == a[1] \in open /\ origin[a[2]] = proc

Prompt(i) == {a \in ToSet(shown) : a[1] = i}

\* The open asks of the running process among the prompts of `gone`.
Torn(gone) == {a[1] : a \in {b \in gone : Asking(b)}}

-------------------------------------------------------------------------------
(* The process and its connection.                                         *)

Line(k, i) == [kind |-> k, id |-> i]

\* The bound on what the reader has yet to read.
Room == Len(lines[inst]) < MaxUnread

\* What the process says while it is not connected is lost.
Says(l) ==
  IF up THEN Room /\ lines' = [lines EXCEPT ![inst] = Append(@, l)] /\ UNCHANGED <<deaf, excused>>
  ELSE /\ deaf' = TRUE /\ UNCHANGED lines
       /\ excused' = IF l.kind = "ask" THEN excused \cup {l.id} ELSE excused

\* ensure_started.  A process found dead is taken out of the client, and the
\* supervisor that would have told of its exit is stopped with it.
Connect ==
  /\ inst # 0 => proc # origin[inst]
  /\ gens < MaxGens /\ (proc = 0 => procs < MaxProcs)
  /\ gens' = gens + 1 /\ inst' = gens + 1 /\ up' = TRUE
  /\ IF proc = 0
     THEN /\ proc' = procs + 1 /\ procs' = procs + 1
          /\ asked' = 0 /\ working' = FALSE
     ELSE UNCHANGED procVars
  /\ origin' = [origin EXCEPT ![gens + 1] = proc']
  /\ stale' = IF inst = 0 THEN stale ELSE stale \cup ToSet(shown)
  /\ UNCHANGED <<mode, auto, open, lines, known, relay, lagged, notes, gateVars, shown, tombs,
                 batch, rt, nt, us, excused, bereft, refused, misfit, deaf, bounds>>

\* A turn the gateway sends: pending_turn_starts and the assignment come first.
\* It takes the session's operation lock, which the status handler holds.
StartTurn ==
  /\ proc # 0 /\ up /\ ~working /\ turns < MaxTurns
  /\ ~(nt.at = "wipe" /\ nt.note.kind = "idle")
  /\ turns' = turns + 1 /\ working' = TRUE
  /\ busy' = TRUE /\ assigned' = TRUE /\ bereft' = FALSE
  /\ UNCHANGED <<linkVars, proc, procs, asked, open, lines, known, relay, lagged, notes, shown,
                 tombs, batch, rt, nt, us, excused, stale, refused, misfit, deaf, total, faults>>

AsksUser ==
  /\ proc # 0 /\ working /\ asked < MaxAsks /\ total < MaxTotal
  /\ asked' = asked + 1 /\ total' = total + 1 /\ open' = open \cup {asked + 1}
  /\ Says(Line("ask", asked + 1))
  /\ UNCHANGED <<linkVars, proc, procs, working, known, relay, lagged, notes, gateVars, shown,
                 tombs, batch, rt, nt, us, stale, bereft, refused, misfit, turns, faults>>

\* An interrupt, or the process no longer needs the answer.
Withdraws(i) ==
  /\ i \in open
  /\ open' = open \ {i} /\ Says(Line("resolved", i))
  /\ UNCHANGED <<linkVars, procVars, known, relay, lagged, notes, gateVars, shown, tombs,
                 batch, rt, nt, us, stale, bereft, refused, misfit, bounds>>

EndsTurn ==
  /\ proc # 0 /\ working /\ open = {}
  /\ working' = FALSE /\ Says(Line("idle", 0))
  /\ UNCHANGED <<linkVars, proc, procs, asked, open, known, relay, lagged, notes, gateVars,
                 shown, tombs, batch, rt, nt, us, stale, bereft, refused, misfit, bounds>>

Fault(k) == k \in Faults /\ faults < MaxFaults /\ faults' = faults + 1

Exits ==
  /\ Fault("exit") /\ proc # 0
  /\ proc' = 0 /\ open' = {} /\ working' = FALSE /\ up' = FALSE /\ excused' = {}
  /\ UNCHANGED <<mode, auto, procs, asked, inst, gens, origin, lines, known, relay, lagged,
                 notes, gateVars, shown, tombs, batch, rt, nt, us, stale, bereft, refused,
                 misfit, deaf, total, turns>>

\* The daemon lives on without its connection.
LosesLink ==
  /\ Fault("drop") /\ mode = "handoff" /\ up
  /\ up' = FALSE /\ deaf' = TRUE
  /\ excused' = excused \cup {l.id : l \in {m \in ToSet(lines[inst]) : m.kind = "ask"}}
  /\ lines' = [lines EXCEPT ![inst] = <<>>]
  /\ UNCHANGED <<mode, auto, procVars, open, inst, gens, origin, known, relay, lagged, notes,
                 gateVars, shown, tombs, batch, rt, nt, us, stale, bereft, refused, misfit,
                 total, turns>>

\* The supervisor of a connection that ended.  Over stdio it does not wait for
\* the reader.
Ending == inst # 0 /\ ~up /\ (mode = "handoff" => lines[inst] = <<>>)

\* finalize_handoff_connection_loss: the daemon answers on its socket.
FinalizeLoss ==
  /\ Ending /\ proc = origin[inst]
  /\ inst' = 0
  /\ UNCHANGED <<mode, auto, procVars, open, up, gens, origin, lines, known, relay, lagged,
                 notes, gateVars, shown, tombs, batch, rt, nt, us, excused, stale, bereft,
                 refused, misfit, deaf, bounds>>

\* finalize_process_exit
FinalizeExit ==
  /\ Ending /\ proc # origin[inst]
  /\ inst' = 0 /\ known' = [i \in Ids |-> 0]
  /\ notes' = Append(notes, [kind |-> "exited", id |-> 0, of |-> origin[inst]])
  /\ UNCHANGED <<mode, auto, procVars, open, up, gens, origin, lines, relay, lagged, gateVars,
                 shown, tombs, batch, rt, nt, us, excused, stale, bereft, refused, misfit, deaf,
                 bounds>>

\* handle_incoming_message, with record_incoming_server_request.  The channel
\* of requests drops its oldest message when the request task is slow.
Read(g) ==
  /\ lines[g] # <<>> /\ Len(notes) < MaxNotes
  /\ lines' = [lines EXCEPT ![g] = Tail(@)]
  /\ LET l == Head(lines[g]) IN
     IF l.kind = "ask"
     THEN /\ known' = [known EXCEPT ![l.id] = g]
          /\ relay' = Append(IF Len(relay) = RelayCap THEN Tail(relay) ELSE relay, <<l.id, g>>)
          /\ lagged' = (lagged \/ Len(relay) = RelayCap)
          /\ excused' = IF l.id \in open /\ origin[g] # proc THEN excused \cup {l.id} ELSE excused
          /\ UNCHANGED notes
     ELSE /\ notes' = Append(notes, [kind |-> l.kind, id |-> l.id, of |-> origin[g]])
          /\ UNCHANGED <<known, relay, lagged, excused>>
  /\ UNCHANGED <<linkVars, procVars, open, gateVars, shown, tombs, batch, rt, nt, us, stale,
                 bereft, refused, misfit, deaf, bounds>>

-------------------------------------------------------------------------------
(* An answer or a rejection on its way to the process.                     *)

CanWriteBug(a) == up

\* writer_for_server_request: the generation that asked, or a handoff proxy.
CanWrite(a) == up /\ (inst = a[2] \/ mode = "handoff")

\* respond_observed and reject_observed.  The process says that it is resolved.
Answer(a) ==
  /\ known' = [known EXCEPT ![a[1]] = IF @ = a[2] THEN 0 ELSE @]
  /\ misfit' = (misfit \/ (a[1] \in open /\ ~Asking(a)))
  /\ open' = open \ {a[1]}
  /\ lines' = IF a[1] \in open
              THEN [lines EXCEPT ![inst] = Append(@, Line("resolved", a[1]))] ELSE lines

Unsent == UNCHANGED <<known, misfit, open, lines>>

\* What the request task has yet to show, or may be given again.
OnItsWay == ToSet(relay) \cup batch \cup ({rt.ask} \ {NoAsk})
              \cup {<<i, known[i]>> : i \in {j \in Ids : known[j] # 0}}

\* A handoff proxy lets an answer to an earlier process through.  With the record
\* it takes, a question of this process with the same id loses its tombstone.
Astray(a) == {b \in OnItsWay : /\ CanWrite(a) /\ origin[a[2]] # proc
                               /\ known[a[1]] = a[2] /\ b[1] = a[1]}

\* A rejection: whether it was written does not matter to the sender.
Reject(a) ==
  IF CanWrite(a) THEN Answer(a) /\ UNCHANGED excused
  ELSE Unsent /\ excused' = excused \cup {i \in {a[1]} : Asking(a)}

-------------------------------------------------------------------------------
(* The request task: handle_profile_server_request_inner.                  *)

RtGoes(l, a) == rt' = [at |-> l, ask |-> a]
Entombed(a) == a \in tombs

\* After a lag the client's own map is replayed.
Replay ==
  /\ rt.at = "recv" /\ batch = {} /\ lagged
  /\ lagged' = FALSE
  /\ batch' = {<<i, known[i]>> : i \in {j \in Ids : known[j] # 0}}
  /\ UNCHANGED <<linkVars, procVars, open, lines, known, relay, notes, gateVars, shown, tombs,
                 rt, nt, us, excused, stale, bereft, refused, misfit, deaf, bounds>>

Take(a) == IF Entombed(a) THEN UNCHANGED rt ELSE RtGoes("judge", a)

Receive ==
  /\ rt.at = "recv"
  /\ \/ /\ batch # {}
        /\ \E a \in batch : batch' = batch \ {a} /\ Take(a)
        /\ UNCHANGED relay
     \/ /\ batch = {} /\ ~lagged /\ relay # <<>>
        /\ relay' = Tail(relay) /\ Take(Head(relay))
        /\ UNCHANGED batch
  /\ UNCHANGED <<linkVars, procVars, open, lines, known, lagged, notes, gateVars, shown, tombs,
                 nt, us, excused, stale, bereft, refused, misfit, deaf, bounds>>

\* A rejected question gets no tombstone: its second copy, if a replay made
\* one, is taken for a new question.
Again(a) == {a} \cap (ToSet(relay) \cup batch)

\* session_accepts_server_request
Accepts == busy \/ assigned

Judge ==
  /\ rt.at = "judge"
  /\ \/ /\ ~Accepts
        /\ Reject(rt.ask) /\ RtGoes("recv", NoAsk)
        /\ refused' = refused \cup {a \in {rt.ask} : Asking(a) /\ ~bereft}
        /\ stale' = stale \cup Again(rt.ask) \cup Astray(rt.ask)
        /\ UNCHANGED tombs
     \/ /\ Accepts /\ auto /\ CanWrite(rt.ask)
        /\ Answer(rt.ask) /\ RtGoes("recv", NoAsk)
        /\ tombs' = tombs \cup {rt.ask} /\ stale' = stale \cup Astray(rt.ask)
        /\ UNCHANGED <<refused, excused>>
     \/ /\ Accepts /\ ~(auto /\ CanWrite(rt.ask))
        /\ Unsent /\ RtGoes("insert", rt.ask)
        /\ UNCHANGED <<refused, tombs, excused, stale>>
  /\ UNCHANGED <<linkVars, procVars, relay, lagged, notes, gateVars, shown, batch, nt, us,
                 bereft, deaf, bounds>>

InsertBug ==
  /\ rt.at = "insert"
  /\ LET a == rt.ask
         grown == Append(shown, a) IN
     IF Prompt(a[1]) # {}
     THEN /\ excused' = IF Asking(a) /\ \A b \in Prompt(a[1]) : ~Asking(b)
                        THEN excused \cup {a[1]} ELSE excused
          /\ RtGoes("recv", NoAsk) /\ UNCHANGED <<shown, stale>>
     ELSE /\ IF Len(shown) > PromptCap
             THEN shown' = Tail(grown) /\ RtGoes("reject", Head(grown))
             ELSE shown' = grown /\ RtGoes("recv", NoAsk)
          /\ stale' = IF Entombed(a) \/ origin[a[2]] # proc THEN stale \cup {a} ELSE stale
          /\ UNCHANGED excused
  /\ UNCHANGED <<linkVars, procVars, open, lines, known, relay, lagged, notes, gateVars, tombs,
                 batch, nt, us, bereft, refused, misfit, deaf, bounds>>

\* A prompt with this id stays as it is.  One more than the limit evicts the oldest.
Insert ==
  /\ rt.at = "insert"
  /\ LET a == rt.ask
         grown == Append(shown, a) IN
     IF Prompt(a[1]) # {}
     THEN /\ excused' = IF Asking(a) /\ \A b \in Prompt(a[1]) : ~Asking(b)
                        THEN excused \cup {a[1]} ELSE excused
          /\ RtGoes("recv", NoAsk) /\ UNCHANGED <<shown, stale>>
     ELSE /\ IF Len(grown) > PromptCap
             THEN shown' = Tail(grown) /\ RtGoes("reject", Head(grown))
             ELSE shown' = grown /\ RtGoes("recv", NoAsk)
          /\ stale' = IF Entombed(a) \/ origin[a[2]] # proc THEN stale \cup {a} ELSE stale
          /\ UNCHANGED excused
  /\ UNCHANGED <<linkVars, procVars, open, lines, known, relay, lagged, notes, gateVars, tombs,
                 batch, nt, us, bereft, refused, misfit, deaf, bounds>>

RejectEvicted ==
  /\ rt.at = "reject"
  /\ Reject(rt.ask) /\ RtGoes("recv", NoAsk)
  /\ stale' = stale \cup Again(rt.ask) \cup Astray(rt.ask)
  /\ UNCHANGED <<linkVars, procVars, relay, lagged, notes, gateVars, shown, tombs, batch, nt,
                 us, bereft, refused, deaf, bounds>>

-------------------------------------------------------------------------------
(* The notification task.                                                  *)

NtGoes(l, n) == nt' = [at |-> l, note |-> n]

\* The prompts are a map from ids: there is one to remove, or none.
Without(s, i) ==
  IF \E k \in 1..Len(s) : s[k][1] = i
  THEN RemoveAt(s, CHOOSE k \in 1..Len(s) : s[k][1] = i) ELSE s

SourceBug(i) == {<<j, known[j]>> : j \in {k \in {i} : ~assigned /\ known[k] # 0}}

\* observed_server_request_source: what the client has under this id by now.
Source(i) == {<<j, known[j]>> : j \in {k \in {i} : assigned /\ known[k] # 0}}

\* terminal_status_conflicts_with_live_turn reads the thread when a turn is
\* known of; when it cannot, either answer may come out.
TurnLives == {b \in BOOLEAN : up => b = working}

Handles(kind) ==
  /\ nt.at = "recv" /\ notes # <<>> /\ Head(notes).kind = kind
  /\ notes' = Tail(notes)
  /\ UNCHANGED <<linkVars, procVars, open, lines, known, relay, lagged, shown, batch, rt, us,
                 refused, misfit, deaf, bounds>>

\* The tombstone of the question the client has under this id.
Resolved ==
  /\ Handles("resolved") /\ NtGoes("drop", Head(notes))
  /\ LET n == Head(notes) IN
     /\ tombs' = tombs \cup Source(n.id)
     /\ excused' = IF n.of # proc /\ n.id \in open THEN excused \cup {n.id} ELSE excused
     /\ stale' = IF assigned /\ \A a \in Source(n.id) : origin[a[2]] = n.of
                 THEN stale ELSE stale \cup {a \in OnItsWay : a[1] = n.id}
  /\ UNCHANGED <<gateVars, bereft>>

\* thread/status/changed to a status that is not live.
IdleStatus ==
  /\ Handles("idle")
  /\ \E live \in TurnLives :
       IF live THEN UNCHANGED <<busy, nt>> ELSE busy' = FALSE /\ NtGoes("wipe", Head(notes))
  /\ UNCHANGED <<assigned, tombs, excused, stale, bereft>>

\* clear_runtime_activity_after_app_server_client_exit, up to the prompts.  It
\* compares the instance of the client, not the generation of the process.
ClientExited ==
  /\ Handles("exited") /\ NtGoes("wipe", Head(notes))
  /\ busy' = FALSE /\ assigned' = FALSE
  /\ bereft' = (bereft \/ working)
  /\ UNCHANGED <<tombs, excused, stale>>

\* handle_server_request_resolved_notification removes by the id alone.
Drop ==
  /\ nt.at = "drop" /\ NtGoes("recv", NoNote)
  /\ shown' = Without(shown, nt.note.id)
  /\ excused' = excused \cup Torn(Prompt(nt.note.id))
  /\ UNCHANGED <<linkVars, procVars, open, lines, known, relay, lagged, notes, gateVars, tombs,
                 batch, rt, us, stale, bereft, refused, misfit, deaf, bounds>>

\* clear_session_pending_requests
Wipe ==
  /\ nt.at = "wipe" /\ NtGoes("recv", NoNote)
  /\ shown' = <<>>
  /\ excused' = excused \cup Torn(ToSet(shown))
  /\ UNCHANGED <<linkVars, procVars, open, lines, known, relay, lagged, notes, gateVars, tombs,
                 batch, rt, us, stale, bereft, refused, misfit, deaf, bounds>>

-------------------------------------------------------------------------------
(* The users: resolve_server_request_payload.                              *)

UsGoes(u, l, a) == us' = [us EXCEPT ![u] = [at |-> l, ask |-> a]]

Choose(u) ==
  /\ us[u].at = "idle"
  /\ \E a \in ToSet(shown) : UsGoes(u, "answer", a)
  /\ UNCHANGED <<linkVars, procVars, open, lines, known, relay, lagged, notes, gateVars, shown,
                 tombs, batch, rt, nt, excused, stale, bereft, refused, misfit, deaf, bounds>>

Respond(u) ==
  /\ us[u].at = "answer"
  /\ IF CanWrite(us[u].ask)
     THEN Answer(us[u].ask) /\ UsGoes(u, "tomb", us[u].ask)
     ELSE Unsent /\ UsGoes(u, "idle", NoAsk)
  /\ stale' = stale \cup Astray(us[u].ask)
  /\ UNCHANGED <<linkVars, procVars, relay, lagged, notes, gateVars, shown, tombs, batch, rt,
                 nt, excused, bereft, refused, deaf, bounds>>

Bury(u) ==
  /\ us[u].at = "tomb" /\ UsGoes(u, "remove", us[u].ask)
  /\ tombs' = tombs \cup {us[u].ask}
  /\ UNCHANGED <<linkVars, procVars, open, lines, known, relay, lagged, notes, gateVars, shown,
                 batch, rt, nt, excused, stale, bereft, refused, misfit, deaf, bounds>>

Discard(u) ==
  /\ us[u].at = "remove" /\ UsGoes(u, "idle", NoAsk)
  /\ shown' = Without(shown, us[u].ask[1])
  /\ excused' = excused \cup Torn(Prompt(us[u].ask[1]))
  /\ UNCHANGED <<linkVars, procVars, open, lines, known, relay, lagged, notes, gateVars, tombs,
                 batch, rt, nt, stale, bereft, refused, misfit, deaf, bounds>>

\* The connection of the browser is gone, and its request is dropped where it
\* waits.  The answer itself is a task of its own and still arrives, but the
\* question may be left unburied and its prompt in place.
Leaves(u) ==
  /\ Fault("leave") /\ us[u].at # "idle" /\ UsGoes(u, "idle", NoAsk)
  /\ stale' = IF us[u].at = "answer" THEN stale
              ELSE stale \cup ({us[u].ask} \cap (OnItsWay \cup ToSet(shown)))
  /\ UNCHANGED <<linkVars, procVars, open, lines, known, relay, lagged, notes, gateVars, shown,
                 tombs, batch, rt, nt, excused, bereft, refused, misfit, deaf, total, turns>>

-------------------------------------------------------------------------------
ProcessStep ==
  \/ Connect \/ StartTurn \/ AsksUser \/ EndsTurn \/ Exits \/ LosesLink
  \/ \E i \in Ids : Withdraws(i)
ClientStep == FinalizeLoss \/ FinalizeExit \/ \E g \in Gens : Read(g)
RequestTask == Replay \/ Receive \/ Judge \/ Insert \/ RejectEvicted
NoteTask == Resolved \/ IdleStatus \/ ClientExited \/ Drop \/ Wipe
User(u) == Choose(u) \/ Respond(u) \/ Bury(u) \/ Discard(u) \/ Leaves(u)

Next == ProcessStep \/ ClientStep \/ RequestTask \/ NoteTask \/ \E u \in Users : User(u)

Spec == Init /\ [][Next]_vars

-------------------------------------------------------------------------------
(* Properties.                                                             *)

\* Nothing is on its way between the process and the prompts.
Quiet ==
  /\ \A g \in Gens : lines[g] = <<>>
  /\ relay = <<>> /\ ~lagged /\ batch = {} /\ rt.at = "recv"
  /\ notes = <<>> /\ nt.at = "recv"
  /\ \A u \in Users : us[u].at = "idle"
  /\ (inst = 0 \/ up)

\* An answer is never taken for the answer to another question: over stdio the
\* ids of a process that restarted are used again, and only the generation in
\* the prompt tells a question from its predecessor
\* (writer_for_server_request).  A handoff connection gives this up, since its
\* generations change while the daemon, and its questions, live on.
AnswerFits == mode = "stdio" => ~misfit

\* Once all is quiet, every question the connected process waits for has a
\* prompt that can be answered, whatever lagged, reconnected, was evicted or
\* could not be approved automatically.  `excused` are the questions that a
\* late notification, an older prompt with the same id or a lost connection
\* took, each recorded by the step that took it.
AskIsShown ==
  Quiet /\ up => \A i \in open \ excused : \E a \in Prompt(i) : Asking(a) /\ CanWrite(a)

\* Once all is quiet, every prompt is a question somebody waits for: the
\* tombstone of a settled question stops what is still on its way to the
\* request task, in either order.  `stale` are prompts that passed the
\* tombstone check before it, that got none because a late exit had taken
\* the assignment, or a late line or an answer astray the client's record, that were
\* rejected while a second copy was on its way, that a browser which was gone after
\* its answer neither buried nor took away, or that outlived their process because
\* its exit was not published; what was said to a lost connection leaves its prompt too.
NoStalePrompt ==
  Quiet /\ ~deaf => \A a \in ToSet(shown) \ stale : Asking(a)

\* A question of a running turn is refused as one of an inactive session only
\* when the exit of an earlier process, handled late, has taken the turn away
\* (session_accepts_server_request).
RefusedOnlyWhenOver == refused = {}

\* What the browsers show is what app-server waits for, and nothing it waits for
\* was turned down on the way.
PromptsAreExact == AskIsShown /\ NoStalePrompt /\ RefusedOnlyWhenOver
===============================================================================
