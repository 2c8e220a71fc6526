--------------------------- MODULE SessionEventRelay ---------------------------
(***************************************************************************)
(* Who hears the events of one session.  The gateway sends each event to   *)
(* the broadcast channel of the session, its relay, if there is one        *)
(* (emit_session_notification).  A task per subscription reads the channel *)
(* and sends what it gets to its browser's socket; relays come with the    *)
(* first subscription and are pruned with the last (relay_support.rs,      *)
(* ws_dispatch_support.rs, ws_transport_support.rs).  The browser keeps    *)
(* one socket and, per session, the subscription it wants and the one it   *)
(* believes it has (ws-client.ts).                                         *)
(*                                                                         *)
(* An event is the number of its broadcast; what it says is left out, and  *)
(* so are the roles that see fewer events, the deltas without text, and    *)
(* the state of the queue that a subscription may begin with.              *)
(***************************************************************************)
EXTENDS Integers, FiniteSets, SequencesExt

CONSTANTS
  Clients,      \* browsers, each with one socket at a time
  Faults,       \* what can go wrong in this instance
  MaxFaults,    \* bound: faults in a behaviour
  MaxEvents,    \* bound: events
  MaxViews,     \* bound: selections of the session, of all browsers together
  MaxHappenings, \* bound: faults, events and selections together
  MaxRelays,    \* bound: relays made
  MaxTasks,     \* bound: subscription tasks at once
  Room          \* the channel's capacity

AllFaults == {"drop", "refuse", "timeout", "crash"}
Numbers == 1..MaxEvents
Relays  == 1..MaxRelays
Tasks   == 1..MaxTasks

ASSUME RelayConstants ==
  /\ Faults \subseteq AllFaults
  /\ MaxFaults \in Nat /\ MaxEvents \in Nat /\ MaxRelays \in Nat /\ MaxTasks \in Nat
  /\ MaxViews \in Nat /\ MaxHappenings \in Nat /\ Room \in Nat \ {0}

VARIABLES
  \* The gateway.
  sent,         \* the number of the last event
  relay, made,  \* the entry of `relays` (0 for none), and the last relay made
  tasks,        \* the subscription tasks
  served,       \* the connections whose reader loop runs
  spent,        \* those whose handle in `subscriptions` is that of an ended task
  subs,         \* subscribe and unsubscribe requests the gateway has, or is to get
  \* The network.
  wire,         \* what is on its way to each browser
  \* The browsers.
  open, gen,    \* the socket is open; connectionGeneration
  wants, synced, syncing, retry, \* SessionSubscriptionState
  views,        \* selections so far
  \* What happened so far.
  owed,         \* events sent while the browser held its subscription for good
  deaf,         \* browsers whose subscription was undone behind their back
  faults        \* faults so far

relayVars == <<relay, made>>
connVars  == <<served, spent>>
linkVars  == <<open, gen>>
subVars   == <<wants, synced, syncing, retry>>
vars == <<sent, relayVars, tasks, connVars, subs, wire, linkVars, subVars, views, owed, deaf, faults>>

NoTask == [at |-> "none"]
TaskTypes ==
  [at : {"run", "leaving"}, client : Clients, gen : Nat, relay : Relays, inbox : Seq(Numbers),
   lagged : BOOLEAN, held : SUBSET Numbers, installed : BOOLEAN, aborted : BOOLEAN]
Requests ==
  [client : Clients, gen : Nat, kind : {"subscribe", "unsubscribe"},
   at : {"sent", "ensured", "removed"}, arg : Nat, live : BOOLEAN]
Messages ==
  [kind : {"event"}, has : SUBSET Numbers] \cup [kind : {"resync", "subscribe", "unsubscribe"}]

TypeOK ==
  /\ sent \in 0..MaxEvents
  /\ relay \in 0..made /\ made \in 0..MaxRelays
  /\ tasks \in [Tasks -> {NoTask} \cup TaskTypes]
  /\ served \subseteq Clients \X Nat /\ spent \subseteq served
  /\ subs \subseteq Requests
  /\ wire \in [Clients -> Seq(Messages)]
  /\ open \in [Clients -> BOOLEAN] /\ gen \in [Clients -> Nat]
  /\ {wants, synced, syncing, retry} \subseteq [Clients -> BOOLEAN]
  /\ views \in 0..MaxViews
  /\ owed \in [Clients -> SUBSET Numbers] /\ deaf \subseteq Clients
  /\ faults \in 0..MaxFaults

Init ==
  /\ sent = 0 /\ relay = 0 /\ made = 0 /\ tasks = [t \in Tasks |-> NoTask]
  /\ open = [c \in Clients |-> TRUE] /\ gen = [c \in Clients |-> 1]
  /\ served = {<<c, 1>> : c \in Clients} /\ spent = {}
  /\ subs = {} /\ wire = [c \in Clients |-> <<>>]
  /\ wants = [c \in Clients |-> FALSE] /\ synced = wants /\ syncing = wants /\ retry = wants
  /\ views = 0 /\ owed = [c \in Clients |-> {}] /\ deaf = {} /\ faults = 0

Bounded == faults + sent + views < MaxHappenings
Fault(f) == f \in Faults /\ faults < MaxFaults /\ Bounded /\ faults' = faults + 1

\* The connection <<c, g>> still reaches its browser.
Alive(c, g) == open[c] /\ g = gen[c]

\* The task whose handle `subscriptions` of the connection holds.
Installed(c, g) ==
  {t \in Tasks : tasks[t] # NoTask /\ tasks[t].installed /\ tasks[t].client = c /\ tasks[t].gen = g}

\* The browser takes itself to be subscribed, and rightly.
Holds(c) == open[c] /\ wants[c] /\ synced[c] /\ ~syncing[c] /\ c \notin deaf

-------------------------------------------------------------------------------
(* Events.                                                                 *)

Hears(tk, r) == tk # NoTask /\ tk.at = "run" /\ tk.relay = r

\* A receiver that is Room events behind loses its oldest one.
Push(tk, n) ==
  IF Len(tk.inbox) < Room THEN [tk EXCEPT !.inbox = Append(@, n)]
  ELSE [tk EXCEPT !.inbox = Append(Tail(@), n), !.lagged = TRUE]

\* emit_session_notification: without a relay the event goes nowhere.
Emit ==
  /\ sent < MaxEvents /\ Bounded
  /\ sent' = sent + 1
  /\ tasks' = [t \in Tasks |-> IF Hears(tasks[t], relay) THEN Push(tasks[t], sent') ELSE tasks[t]]
  /\ owed' = [c \in Clients |-> IF Holds(c) THEN owed[c] \cup {sent'} ELSE owed[c]]
  /\ UNCHANGED <<relayVars, connVars, subs, wire, linkVars, subVars, views, deaf, faults>>

-------------------------------------------------------------------------------
(* The task of a subscription: subscribe_session.                          *)

Event(s) == [kind |-> "event", has |-> s]
Resync == [kind |-> "resync"]

\* The deltas held back go out as one event.
Flushed(tk) == IF tk.held = {} THEN <<>> ELSE <<Event(tk.held)>>

\* The loop is left and the receiver dropped.
Left(tk) == [tk EXCEPT !.at = "leaving", !.inbox = <<>>, !.lagged = FALSE, !.held = {}]

\* send_relay_envelope for each of ms; when the connection is no longer served
\* the loop is left instead of going on as `next`.
Sends(t, ms, next) ==
  LET tk == tasks[t] IN
  IF ms = <<>> \/ <<tk.client, tk.gen>> \in served
  THEN /\ tasks' = [tasks EXCEPT ![t] = next]
       /\ wire' = IF Alive(tk.client, tk.gen) THEN [wire EXCEPT ![tk.client] = @ \o ms] ELSE wire
  ELSE tasks' = [tasks EXCEPT ![t] = Left(tk)] /\ UNCHANGED wire

Undisturbed == <<sent, relayVars, connVars, subs, linkVars, subVars, views, owed, deaf, faults>>

\* One event from the channel: a delta joins the one held back, or replaces it
\* when it is of another item; anything else goes out behind it.
Receive(t) ==
  LET tk == tasks[t]
      n  == Head(tk.inbox)
      rest == [tk EXCEPT !.inbox = Tail(@)]
  IN
  /\ tk.at = "run" /\ ~tk.lagged /\ tk.inbox # <<>>
  /\ \/ tk.held # {} /\ Sends(t, <<>>, [rest EXCEPT !.held = @ \cup {n}])
     \/ Sends(t, Flushed(tk), [rest EXCEPT !.held = {n}])
     \/ Sends(t, Append(Flushed(tk), Event({n})), [rest EXCEPT !.held = {}])
  /\ UNCHANGED Undisturbed

\* RELAY_DELTA_IDLE_FLUSH_TIMEOUT, RELAY_DELTA_MAX_FLUSH_INTERVAL, _MAX_BYTES.
Flush(t) ==
  /\ tasks[t].at = "run" /\ tasks[t].held # {}
  /\ Sends(t, Flushed(tasks[t]), [tasks[t] EXCEPT !.held = {}])
  /\ UNCHANGED Undisturbed

\* The map and the subscribe requests under way hold senders of a relay.
HasSender(r) == relay = r \/ \E s \in subs : s.at = "ensured" /\ s.arg = r

LaggedBug(tk) == Flushed(tk)
Lagged(tk)    == <<Resync>> \o Flushed(tk)

\* RecvError::Lagged and RecvError::Closed: the browser hears of the first.
StopListening(t) ==
  LET tk == tasks[t] IN
  /\ tk.at = "run"
  /\ \/ tk.lagged /\ Sends(t, Lagged(tk), Left(tk))
     \/ /\ ~tk.lagged /\ tk.inbox = <<>> /\ ~HasSender(tk.relay)
        /\ Sends(t, Flushed(tk), Left(tk))
  /\ UNCHANGED Undisturbed

Listeners(r) == {t \in Tasks : Hears(tasks[t], r)}

\* The browsers that relay r serves, or is about to, task `own` apart.
Audience(r, own) ==
  {c \in Clients : \/ \E t \in Listeners(r) \ {own} : t \in Installed(c, gen[c])
                   \/ \E s \in subs : s.at = "ensured" /\ s.arg = r /\ s.client = c /\ s.gen = gen[c]}

\* Browsers that from now on are not told what they miss.
Deafened(S) ==
  /\ deaf' = deaf \cup S
  /\ owed' = [c \in Clients |-> IF c \in S THEN {} ELSE owed[c]]

\* prune_session_relay_with_receiver_limit: the relay goes when it has no more
\* than `limit` receivers, whoever they are.
Prune(limit, own) ==
  IF relay # 0 /\ Cardinality(Listeners(relay)) <= limit
  THEN relay' = 0 /\ Deafened(Audience(relay, own))
  ELSE UNCHANGED <<relay, owed, deaf>>

\* The end of the task; its handle stays in `subscriptions`.
Leave(t) ==
  LET tk == tasks[t]
      conn == <<tk.client, tk.gen>>
  IN
  /\ tk.at = "leaving"
  /\ Prune(0, t)
  /\ tasks' = [tasks EXCEPT ![t] = NoTask]
  /\ spent' = IF tk.installed THEN spent \cup ({conn} \cap served) ELSE spent
  /\ UNCHANGED <<sent, made, served, subs, wire, linkVars, subVars, views, faults>>

\* An aborted task ends at its next await and prunes nothing.
AbortLands(t) ==
  /\ tasks[t].aborted
  /\ tasks' = [tasks EXCEPT ![t] = NoTask]
  /\ UNCHANGED <<wire, Undisturbed>>

-------------------------------------------------------------------------------
(* The gateway's end of a connection.                                      *)

Aborted(tk) == [tk EXCEPT !.installed = FALSE, !.aborted = TRUE]

DrainBug(c, g) ==
  /\ <<c, g>> \in served /\ ~Alive(c, g)
  /\ served' = served \ {<<c, g>>}
  /\ UNCHANGED <<sent, relayVars, tasks, spent, subs, wire, linkVars, subVars, views, owed, deaf, faults>>

\* websocket_session: the reader loop of a lost connection ends and drains its
\* subscriptions.
Drain(c, g) ==
  /\ <<c, g>> \in served /\ ~Alive(c, g)
  /\ served' = served \ {<<c, g>>} /\ spent' = spent \ {<<c, g>>}
  /\ tasks' = [t \in Tasks |-> IF t \in Installed(c, g) THEN Aborted(tasks[t]) ELSE tasks[t]]
  /\ UNCHANGED <<sent, relayVars, subs, wire, linkVars, subVars, views, owed, deaf, faults>>

\* The answer to a request its browser still waits for.
Answer(s) ==
  wire' = IF s.live /\ Alive(s.client, s.gen)
          THEN [wire EXCEPT ![s.client] = Append(@, [kind |-> s.kind])] ELSE wire

\* ensure_stream_relay.
Ensure(s) ==
  /\ s.kind = "subscribe" /\ s.at = "sent"
  /\ IF relay = 0 THEN made < MaxRelays /\ made' = made + 1 /\ relay' = made'
     ELSE UNCHANGED relayVars
  /\ subs' = (subs \ {s}) \cup {[s EXCEPT !.at = "ensured", !.arg = relay']}
  /\ UNCHANGED <<sent, tasks, connVars, wire, linkVars, subVars, views, owed, deaf, faults>>

Free == {t \in Tasks : tasks[t] = NoTask /\ \A s \in subs : s.at = "removed" => s.arg # t}

\* The rest of subscribe_session, in one step: a receiver of the relay found
\* before, the task, and its handle in place of the one before, which is aborted.
\* A request that its browser has given up may so cut off the task of the one
\* made since.
Attach(s) ==
  LET c == s.client
      before == Installed(c, s.gen)
      own == CHOOSE t \in Free : TRUE
      new == [at |-> "run", client |-> c, gen |-> s.gen, relay |-> s.arg, inbox |-> <<>>, lagged |-> FALSE,
              held |-> {}, installed |-> TRUE, aborted |-> FALSE]
  IN
  /\ s.at = "ensured" /\ Free # {}
  /\ tasks' = [t \in Tasks |-> IF t = own THEN new
                               ELSE IF t \in before THEN Aborted(tasks[t]) ELSE tasks[t]]
  /\ spent' = spent \ {<<c, s.gen>>}
  /\ subs' = subs \ {s}
  /\ IF s.gen # gen[c] THEN UNCHANGED <<owed, deaf>>
     ELSE IF s.arg = relay
     THEN deaf' = deaf \ {c} /\ owed' = IF s.live THEN owed ELSE [owed EXCEPT ![c] = {}]
     ELSE Deafened({c})
  /\ Answer(s)
  /\ UNCHANGED <<sent, relayVars, served, linkVars, subVars, views, faults>>

\* "session/unsubscribe" takes the handle out of `subscriptions`.  A request
\* that its browser has given up comes behind its back.
TakeHandle(s) ==
  LET c == s.client
      had == Installed(c, s.gen)
      task == IF had = {} THEN 0 ELSE CHOOSE t \in had : TRUE
  IN
  /\ s.kind = "unsubscribe" /\ s.at = "sent"
  /\ spent' = spent \ {<<c, s.gen>>}
  /\ tasks' = [t \in Tasks |-> IF t \in had THEN [tasks[t] EXCEPT !.installed = FALSE] ELSE tasks[t]]
  /\ IF had # {} \/ <<c, s.gen>> \in spent
     THEN /\ subs' = (subs \ {s}) \cup {[s EXCEPT !.at = "removed", !.arg = task]}
          /\ UNCHANGED wire
     ELSE subs' = subs \ {s} /\ Answer(s)
  /\ IF s.live \/ s.gen # gen[c] THEN UNCHANGED <<owed, deaf>> ELSE Deafened({c})
  /\ UNCHANGED <<sent, relayVars, served, linkVars, subVars, views, faults>>

\* prune_unsubscribed_session_relay makes allowance for the receiver of the task
\* itself; then the task is aborted.
PruneAndAbort(s) ==
  /\ s.at = "removed"
  /\ Prune(1, s.arg)
  /\ tasks' = [t \in Tasks |-> IF t = s.arg /\ tasks[t] # NoTask THEN Aborted(tasks[t]) ELSE tasks[t]]
  /\ subs' = subs \ {s}
  /\ Answer(s)
  /\ UNCHANGED <<sent, made, connVars, linkVars, subVars, views, faults>>

-------------------------------------------------------------------------------
(* The browser: ws-client.ts.                                              *)

\* syncSessionSubscription of a browser on connection g that believes `s` and
\* wants `w`: a request while the two differ.
Sync(c, g, w, s, others) ==
  LET request == [client |-> c, gen |-> g, kind |-> IF w THEN "subscribe" ELSE "unsubscribe",
                  at |-> "sent", arg |-> 0, live |-> TRUE]
  IN
  /\ subs' = IF w = s THEN others ELSE others \cup {request}
  /\ syncing' = [syncing EXCEPT ![c] = w # s]

\* subscribeSession, and the call that undoes it.
Choose(c, w) ==
  /\ wants' = [wants EXCEPT ![c] = w] /\ retry' = [retry EXCEPT ![c] = FALSE]
  /\ owed' = [owed EXCEPT ![c] = {}]
  /\ IF open[c] /\ ~syncing[c] THEN Sync(c, gen[c], w, synced[c], subs) ELSE UNCHANGED <<subs, syncing>>
  /\ UNCHANGED <<sent, relayVars, tasks, connVars, wire, linkVars, synced, deaf, faults>>

Select(c) == ~wants[c] /\ views < MaxViews /\ Bounded /\ views' = views + 1 /\ Choose(c, TRUE)
Deselect(c) == wants[c] /\ Choose(c, FALSE) /\ UNCHANGED views

\* The answer to the request that is out.
Answered(c) ==
  /\ wire[c] # <<>> /\ Head(wire[c]).kind \in {"subscribe", "unsubscribe"}
  /\ wire' = [wire EXCEPT ![c] = Tail(@)]
  /\ synced' = [synced EXCEPT ![c] = Head(wire[c]).kind = "subscribe"]
  /\ Sync(c, gen[c], wants[c], synced'[c], subs)
  /\ UNCHANGED <<sent, relayVars, tasks, connVars, linkVars, wants, retry, views, owed, deaf, faults>>

\* A request that fails counts as not executed, and is made again after a while
\* (SUBSCRIPTION_RETRY_DELAYS).
Failed(c, kind) ==
  /\ synced' = [synced EXCEPT ![c] = kind = "unsubscribe"]
  /\ syncing' = [syncing EXCEPT ![c] = FALSE] /\ retry' = [retry EXCEPT ![c] = TRUE]

\* A limit of the gateway refuses it (WS_REQUEST_SLOT_WAIT).
Refused(s) ==
  /\ s.live /\ s.at = "sent" /\ Alive(s.client, s.gen) /\ Fault("refuse")
  /\ subs' = subs \ {s}
  /\ Failed(s.client, s.kind)
  /\ UNCHANGED <<sent, relayVars, tasks, connVars, wire, linkVars, wants, views, owed, deaf>>

\* SUBSCRIPTION_REQUEST_TIMEOUT_MS: the gateway goes on, its answer is ignored.
\* Of an unsubscription that was executed the browser then knows nothing.  What is
\* out is one request or its answer: in `mine` or in `late`.
TimesOut(c) ==
  LET kinds == {"subscribe", "unsubscribe"}
      mine  == {s \in subs : s.client = c /\ s.live}
      late  == {i \in DOMAIN wire[c] : wire[c][i].kind \in kinds}
      kind  == CHOOSE k \in {s.kind : s \in mine} \cup {wire[c][i].kind : i \in late} : TRUE
  IN
  /\ open[c] /\ syncing[c] /\ Fault("timeout")
  /\ subs' = (subs \ mine) \cup {[s EXCEPT !.live = FALSE] : s \in mine}
  /\ wire' = [wire EXCEPT ![c] = IF late = {} THEN @ ELSE RemoveAt(@, CHOOSE i \in late : TRUE)]
  /\ Failed(c, kind)
  /\ IF kind = "unsubscribe" /\ ~\E s \in mine : s.at = "sent" THEN Deafened({c})
     ELSE UNCHANGED <<owed, deaf>>
  /\ UNCHANGED <<sent, relayVars, tasks, connVars, linkVars, wants, views>>

Retry(c) ==
  /\ retry[c] /\ open[c] /\ ~syncing[c]
  /\ retry' = [retry EXCEPT ![c] = FALSE]
  /\ Sync(c, gen[c], wants[c], synced[c], subs)
  /\ UNCHANGED <<sent, relayVars, tasks, connVars, wire, linkVars, wants, synced, views, owed, deaf, faults>>

EventComes(c) ==
  /\ wire[c] # <<>> /\ Head(wire[c]).kind = "event"
  /\ wire' = [wire EXCEPT ![c] = Tail(@)]
  /\ owed' = [owed EXCEPT ![c] = @ \ Head(wire[c]).has]
  /\ UNCHANGED <<sent, relayVars, tasks, connVars, subs, linkVars, subVars, views, deaf, faults>>

\* The socket of c is gone, with what was on its way (invalidateSubscriptionAcks).
Closed(C) ==
  /\ open' = [c \in Clients |-> open[c] /\ c \notin C]
  /\ wire' = [c \in Clients |-> IF c \in C THEN <<>> ELSE wire[c]]
  /\ synced' = [c \in Clients |-> synced[c] /\ c \notin C]
  /\ retry' = [c \in Clients |-> retry[c] /\ c \notin C]
  /\ owed' = [c \in Clients |-> IF c \in C THEN {} ELSE owed[c]]

\* The network fails, or the gateway has invalidated the connection: a send
\* stalled (RELAY_SEND_TIMEOUT), the outbound queue was full (queue_ws_envelope).
Drop(c) ==
  /\ open[c] /\ Fault("drop")
  /\ Closed({c})
  /\ UNCHANGED <<sent, relayVars, tasks, connVars, subs, gen, wants, syncing, views, deaf>>

\* ResyncRequired: the pages are told, then forceReconnect.
Resynced(c) ==
  /\ wire[c] # <<>> /\ Head(wire[c]) = Resync
  /\ Closed({c})
  /\ UNCHANGED <<sent, relayVars, tasks, connVars, subs, gen, wants, syncing, views, deaf, faults>>

\* "open": restoreSubscriptions; flushPending rejects the request that was out,
\* and syncSessionSubscription goes on from nothing.
Reconnect(c) ==
  /\ ~open[c] /\ (wants[c] \/ syncing[c])
  /\ open' = [open EXCEPT ![c] = TRUE] /\ gen' = [gen EXCEPT ![c] = @ + 1]
  /\ served' = served \cup {<<c, gen'[c]>>}
  /\ deaf' = deaf \ {c}
  /\ Sync(c, gen'[c], wants[c], FALSE, {IF s.client = c THEN [s EXCEPT !.live = FALSE] ELSE s : s \in subs})
  /\ UNCHANGED <<sent, relayVars, tasks, spent, wire, wants, synced, retry, views, owed, faults>>

\* A request on a lost connection never reached the gateway.
Vanish(s) ==
  /\ s.at = "sent" /\ ~Alive(s.client, s.gen)
  /\ subs' = subs \ {s}
  /\ UNCHANGED <<sent, relayVars, tasks, connVars, wire, linkVars, subVars, views, owed, deaf, faults>>

\* The gateway dies and starts again.
Crash ==
  /\ Fault("crash")
  /\ relay' = 0 /\ tasks' = [t \in Tasks |-> NoTask]
  /\ served' = {} /\ spent' = {} /\ subs' = {}
  /\ Closed(Clients)
  /\ UNCHANGED <<sent, made, gen, wants, syncing, views, deaf>>

-------------------------------------------------------------------------------

TaskStep(t) == Receive(t) \/ Flush(t) \/ StopListening(t) \/ Leave(t) \/ AbortLands(t)

Next ==
  \/ Emit \/ Crash
  \/ \E t \in Tasks : tasks[t] # NoTask /\ TaskStep(t)
  \/ \E cg \in served : Drain(cg[1], cg[2])
  \/ \E s \in subs : Ensure(s) \/ Attach(s) \/ TakeHandle(s) \/ PruneAndAbort(s) \/ Refused(s) \/ Vanish(s)
  \/ \E c \in Clients :
       \/ Select(c) \/ Deselect(c) \/ Answered(c) \/ TimesOut(c) \/ Retry(c)
       \/ EventComes(c) \/ Drop(c) \/ Resynced(c) \/ Reconnect(c)

Spec == Init /\ [][Next]_vars

-------------------------------------------------------------------------------
(* Properties.                                                             *)

ToldToResync(c) ==
  \/ \E i \in DOMAIN wire[c] : wire[c][i] = Resync
  \/ \E t \in Installed(c, gen[c]) : tasks[t].lagged

\* A browser whose subscription was acknowledged is heard: its task listens to
\* the relay that events are sent to, or it is being told to resync.
SubscribedIsHeard ==
  \A c \in Clients : Holds(c) =>
    ToldToResync(c) \/ \E t \in Installed(c, gen[c]) : Hears(tasks[t], relay)

\* Event n is on its way to browser c.
Coming(c, n) ==
  \/ \E i \in DOMAIN wire[c] : wire[c][i].kind = "event" /\ n \in wire[c][i].has
  \/ \E t \in Installed(c, gen[c]) : n \in tasks[t].held \cup ToSet(tasks[t].inbox)

\* What was sent while it was subscribed reaches the browser, or it resyncs.
NothingMissed == \A c \in Clients : \A n \in owed[c] : Coming(c, n) \/ ToldToResync(c)

SubscribersHear == SubscribedIsHeard /\ NothingMissed
===============================================================================
