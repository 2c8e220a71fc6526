---------------------------- MODULE RequestReplay ----------------------------
(***************************************************************************)
(* Request ids as replay keys at the public WebSocket gateway.  A browser  *)
(* (ws-client.ts) sends requests over one connection at a time and, after  *)
(* a reconnect, sends again what was not answered.  The gateway runs each  *)
(* message in a task of its own (handle_ws_message) and keeps a response   *)
(* cache and a table of in-flight requests so that a second message under  *)
(* the same id gets the first one's response.                              *)
(*                                                                         *)
(* Ids stand for request_cache_key (profile, role, id).  A message is its  *)
(* connection and id; connection 0 is another browser of the same profile  *)
(* and role that reuses an id with other parameters.  Methods outside      *)
(* ws_method_uses_request_replay are not modelled.                         *)
(***************************************************************************)
EXTENDS Naturals, FiniteSets

CONSTANTS
  Ids,         \* the requests of the browser
  Replayable,  \* those that requestCanReplayAfterReconnect lets it send again
  Denied,      \* those that authorize_ws_method or the profile lookup refuses
  Tasks,       \* handlers, one per message at work
  Nobody,      \* no handler
  Faults,      \* what can go wrong in this instance
  MaxFaults,   \* bound: faults in a behaviour
  MaxLinks,    \* bound: connections the browser opens
  MaxSent,     \* MAX_INFLIGHT_REQUESTS of ws-client.ts
  ConnSlots,   \* WS_MAX_CONCURRENT_REQUESTS
  Slots,       \* WS_MAX_PROFILE_CONCURRENT_REQUESTS
  MaxCached,   \* RESPONSE_CACHE_MAX_ENTRIES
  MaxInflight, \* INFLIGHT_REQUEST_MAX_ENTRIES
  MaxWaiters   \* INFLIGHT_REQUEST_MAX_WAITERS

AllFaults == {"slow", "old", "large", "drop", "giveup", "reuse", "crash"}

ASSUME ReplayConstants ==
  /\ Replayable \subseteq Ids /\ Denied \subseteq Ids
  /\ Nobody \notin Tasks
  /\ Ids # {} /\ IsFiniteSet(Tasks)
  /\ Faults \subseteq AllFaults
  /\ MaxFaults \in Nat /\ MaxLinks \in Nat
  /\ MaxSent \in Nat \ {0} /\ ConnSlots \in Nat \ {0} /\ Slots \in Nat \ {0}
  /\ MaxCached \in Nat \ {0} /\ MaxInflight \in Nat \ {0} /\ MaxWaiters \in Nat \ {0}

VARIABLES
  \* The browser.
  asked,     \* each request: "new", "pending", or how it was settled
  sentOn,    \* sentGeneration: the connection it was last sent on, 0 for none
  link, up,  \* connectionGeneration, and whether that connection is open
  \* The network.
  wire,      \* messages the gateway has not read
  replies,   \* responses queued on the open connection of the browser
  \* The gateway.
  cache,     \* response_cache: whose response is stored under an id
  old,       \* ids whose cached response is past CACHE_TTL
  inflight,  \* inflight_requests: whose request is registered under an id
  starter,   \* the handler whose registration made the entry
  waiters,   \* the connections that wait for its response
  aged,      \* ids whose entry is past INFLIGHT_REQUEST_TTL
  outlived,  \* history: ids whose handler has outlived its entry
  pc, req, conn, outcome,  \* the handlers
  \* What happened so far.
  executed,  \* executions begun under an id
  lost,      \* how often the gateway lost its memory of an id
  faults     \* faults so far

browserVars == <<asked, sentOn, link, up>>
cacheVars   == <<cache, old>>
tableVars   == <<inflight, starter, waiters, aged, outlived>>
taskVars    == <<pc, req, conn, outcome>>
vars == <<browserVars, wire, replies, cacheVars, tableVars, taskVars,
          executed, lost, faults>>

Conns    == 0 .. MaxLinks
\* The method and params_hash of what a connection sends.
Payload(c) == IF c = 0 THEN "other" ELSE "mine"
Payloads == {"mine", "other"}
Settled  == Payloads \cup {"failed"}
Owning   == {"slot", "run", "store", "resolve"}
AnyId    == CHOOSE i \in Ids : TRUE

BrowserTypes ==
  /\ asked \in [Ids -> {"new", "pending"} \cup Settled]
  /\ sentOn \in [Ids -> Conns]
  /\ link \in Conns /\ up \in BOOLEAN
  /\ wire \subseteq [conn : Conns, id : Ids]
  /\ replies \subseteq [id : Ids, answer : Settled]

TableTypes ==
  /\ cache \in [Ids -> Payloads \cup {"none"}]
  /\ old \subseteq Ids
  /\ inflight \in [Ids -> Payloads \cup {"none"}]
  /\ starter \in [Ids -> Tasks \cup {Nobody}]
  /\ waiters \in [Ids -> SUBSET Conns]
  /\ aged \subseteq Ids /\ outlived \subseteq Ids

TaskTypes ==
  /\ pc \in [Tasks -> {"idle", "lookup", "register"} \cup Owning]
  /\ req \in [Tasks -> Ids]
  /\ conn \in [Tasks -> Conns]
  /\ outcome \in [Tasks -> Settled]

CountTypes ==
  /\ executed \in [Ids -> Nat] /\ lost \in [Ids -> Nat]
  /\ faults \in Nat

TypeOK == BrowserTypes /\ TableTypes /\ TaskTypes /\ CountTypes

Init ==
  /\ asked = [i \in Ids |-> "new"]
  /\ sentOn = [i \in Ids |-> 0]
  /\ link = 0 /\ up = FALSE
  /\ wire = {} /\ replies = {}
  /\ cache = [i \in Ids |-> "none"] /\ old = {}
  /\ inflight = [i \in Ids |-> "none"]
  /\ starter = [i \in Ids |-> Nobody]
  /\ waiters = [i \in Ids |-> {}] /\ aged = {} /\ outlived = {}
  /\ pc = [t \in Tasks |-> "idle"]
  /\ req = [t \in Tasks |-> AnyId]
  /\ conn = [t \in Tasks |-> 0]
  /\ outcome = [t \in Tasks |-> "failed"]
  /\ executed = [i \in Ids |-> 0] /\ lost = [i \in Ids |-> 0]
  /\ faults = 0

Fault(f) == f \in Faults /\ faults < MaxFaults /\ faults' = faults + 1
NoFault  == UNCHANGED faults

\* The gateway forgets, once, what it knew of each id in S.
Forget(S) == lost' = [i \in Ids |-> IF i \in S THEN lost[i] + 1 ELSE lost[i]]

----------------------------------------------------------------------------
(* The browser and its connections.                                        *)

Message(c, i) == [conn |-> c, id |-> i]
Gateway == <<cacheVars, tableVars, taskVars, executed, lost>>

\* What flushPending finds pending and not yet sent on this connection.
HeldBug == {i \in Ids : asked'[i] = "pending" /\ sentOn[i] = 0}
Held    == {i \in Ids : asked'[i] = "pending" /\ sentOn[i] # link'}
Flying  == {i \in Ids : asked'[i] = "pending" /\ sentOn[i] = link'}

\* flushPending: on an open connection it goes out, as far as the browser's own
\* limit on the requests under way allows.
Flush ==
  \/ /\ up'
     /\ \E out \in SUBSET Held :
          /\ Cardinality(Flying \cup out) <= MaxSent
          /\ out = Held \/ Cardinality(Flying \cup out) = MaxSent
          /\ sentOn' = [i \in Ids |-> IF i \in out THEN link' ELSE sentOn[i]]
          /\ wire' = wire \cup {Message(link', i) : i \in out}
  \/ ~up' /\ UNCHANGED <<sentOn, wire>>

\* request
Ask ==
  /\ \E i \in Ids : asked[i] = "new" /\ asked' = [asked EXCEPT ![i] = "pending"]
  /\ UNCHANGED <<link, up, replies, Gateway, faults>>
  /\ Flush

\* A new connection: what was sent before and may not be sent again is rejected,
\* everything else that is pending goes out.
Skipped == {i \in Ids : asked[i] = "pending" /\ sentOn[i] # 0 /\ i \notin Replayable}

RejectedBug(i) == "rejected"
Rejected(i)    == "failed"

Connect ==
  /\ ~up /\ link < MaxLinks
  /\ link' = link + 1 /\ up' = TRUE
  /\ asked' = [i \in Ids |-> IF i \in Skipped THEN Rejected(i) ELSE asked[i]]
  /\ UNCHANGED <<replies, Gateway, faults>>
  /\ Flush

\* The connection breaks: responses under way are gone, messages under way may
\* be.  Handlers run on.
Disconnect ==
  /\ up /\ link < MaxLinks /\ Fault("drop")
  /\ up' = FALSE
  /\ replies' = {}
  /\ \E read \in SUBSET wire : wire' = {m \in wire : m.conn = 0} \cup read
  /\ UNCHANGED <<asked, sentOn, link, Gateway>>

\* The browser's own time-out for one of S.
GiveUp(S) ==
  /\ \E i \in S : asked[i] = "pending" /\ asked' = [asked EXCEPT ![i] = "failed"]
  /\ UNCHANGED <<link, up, replies, Gateway>>
  /\ Flush

\* It may come early, and it ends what is waited for in vain.
EarlyGiveUp == Fault("giveup") /\ GiveUp(Ids)
LateGiveUp  == NoFault /\ GiveUp(outlived)

\* Another browser uses the id of a request for a different one.
Reuse ==
  /\ Fault("reuse")
  /\ \E i \in Ids : wire' = wire \cup {Message(0, i)}
  /\ UNCHANGED <<browserVars, replies, Gateway>>

\* handleServerEnvelope: the first response settles the request, and makes room
\* for one that is held back.
Deliver ==
  /\ up
  /\ \E r \in replies :
       /\ replies' = replies \ {r}
       /\ asked' = IF asked[r.id] = "pending" THEN [asked EXCEPT ![r.id] = r.answer]
                                              ELSE asked
  /\ UNCHANGED <<link, up, Gateway, faults>>
  /\ Flush

----------------------------------------------------------------------------
(* The handlers of the gateway.                                            *)

\* queue_ws_envelope to each connection of C: only the open one takes it.
Respond(C, i, a) ==
  replies' = IF up /\ link \in C THEN replies \cup {[id |-> i, answer |-> a]} ELSE replies

Goto(t, where) == pc' = [pc EXCEPT ![t] = where] /\ UNCHANGED <<req, conn>>
AtWork(c) == {t \in Tasks : pc[t] # "idle" /\ conn[t] = c}

Finish(t) ==
  /\ pc' = [pc EXCEPT ![t] = "idle"]
  /\ req' = [req EXCEPT ![t] = AnyId]
  /\ conn' = [conn EXCEPT ![t] = 0]
  /\ outcome' = [outcome EXCEPT ![t] = "failed"]

\* The reader loop takes a message and spawns its handler, or answers itself
\* when the connection has no slot left.
Receive(t) ==
  /\ pc[t] = "idle"
  /\ \E m \in wire :
       /\ Cardinality(AtWork(m.conn)) < ConnSlots
       /\ wire' = wire \ {m}
       /\ req' = [req EXCEPT ![t] = m.id]
       /\ conn' = [conn EXCEPT ![t] = m.conn]
  /\ pc' = [pc EXCEPT ![t] = "lookup"]
  /\ UNCHANGED <<browserVars, replies, cacheVars, tableVars, outcome, executed, lost, faults>>

ReaderRefuses ==
  /\ \E m \in wire :
       /\ Cardinality(AtWork(m.conn)) >= ConnSlots
       /\ wire' = wire \ {m}
       /\ Respond({m.conn}, m.id, "failed")
  /\ UNCHANGED <<browserVars, Gateway, faults>>

\* What prune_response_cache drops for its age, and what it leaves.
Expired == {i \in old : cache[i] # "none"}
Fresh   == [i \in Ids |-> IF i \in Expired THEN "none" ELSE cache[i]]

\* authorize_ws_method and the profile, then cached_response.
Lookup(t) ==
  LET i == req[t] IN
  /\ pc[t] = "lookup"
  /\ \/ /\ i \in Denied
        /\ Finish(t) /\ Respond({conn[t]}, i, "failed")
        /\ UNCHANGED <<cacheVars, lost>>
     \/ /\ i \notin Denied
        /\ cache' = Fresh /\ old' = {} /\ Forget(Expired)
        /\ \/ /\ Fresh[i] = Payload(conn[t])
              /\ Finish(t) /\ Respond({conn[t]}, i, Fresh[i])
           \/ /\ Fresh[i] \in Payloads \ {Payload(conn[t])}
              /\ Finish(t) /\ Respond({conn[t]}, i, "failed")
           \/ /\ Fresh[i] = "none"
              /\ Goto(t, "register") /\ UNCHANGED <<outcome, replies>>
  /\ UNCHANGED <<browserVars, wire, tableVars, executed, faults>>

\* register_inflight_request first drops every entry past its TTL, whatever its
\* handler is doing.
Purged == {i \in aged : inflight[i] # "none"}
RemainingBug == Purged
Remaining    == {i \in Ids : inflight[i] # "none"} \ Purged

JoinsBug(t) ==
  req[t] \in Remaining /\ Cardinality(waiters[req[t]]) < MaxWaiters
Joins(t) ==
  /\ req[t] \in Remaining
  /\ inflight[req[t]] = Payload(conn[t])
  /\ Cardinality(waiters[req[t]]) < MaxWaiters

Starts(t) == req[t] \notin Remaining /\ Cardinality(Remaining) < MaxInflight

\* A response is stored although the handler found none: it was stored, and
\* its entry resolved, between cached_response and register_inflight_request.
Overtaken(t) == {i \in {req[t]} : Starts(t) /\ cache[i] # "none"}

Register(t) ==
  LET i == req[t] IN
  /\ pc[t] = "register"
  /\ aged' = {} /\ outlived' = outlived \cup Purged
  /\ inflight' = [j \in Ids |-> IF j = i /\ Starts(t) THEN Payload(conn[t])
                                ELSE IF j \in Purged THEN "none" ELSE inflight[j]]
  /\ starter' = [j \in Ids |-> IF j = i /\ Starts(t) THEN t
                               ELSE IF j \in Purged THEN Nobody ELSE starter[j]]
  /\ waiters' = [j \in Ids |->
       (IF j \in Purged THEN {} ELSE waiters[j])
         \cup (IF j = i /\ (Starts(t) \/ Joins(t)) THEN {conn[t]} ELSE {})]
  /\ Forget(Purged \cup Overtaken(t))
  /\ \/ Starts(t) /\ Goto(t, "slot") /\ UNCHANGED <<outcome, replies>>
     \/ Joins(t) /\ Finish(t) /\ UNCHANGED replies
     \/ ~Starts(t) /\ ~Joins(t) /\ Finish(t) /\ Respond({conn[t]}, i, "failed")
  /\ UNCHANGED <<browserVars, wire, cacheVars, executed, faults>>

HoldsSlot == {t \in Tasks : \/ pc[t] \in {"run", "store"}
                            \/ pc[t] = "resolve" /\ outcome[t] # "failed"}

\* try_acquire_profile_ws_request_slot, and execute_ws_method begins.
TakeSlot(t) ==
  /\ pc[t] = "slot"
  /\ Cardinality(HoldsSlot) < Slots
  /\ Goto(t, "run")
  /\ executed' = [executed EXCEPT ![req[t]] = @ + 1]
  /\ UNCHANGED <<browserVars, wire, replies, cacheVars, tableVars, outcome, lost, faults>>

Undisturbed == <<browserVars, wire, replies, cacheVars, tableVars, executed, lost, faults>>

NoSlotBug(t) ==
  /\ pc[t] = "slot"
  /\ Cardinality(HoldsSlot) >= Slots
  /\ Finish(t)
  /\ UNCHANGED Undisturbed

\* No slot in time: the error goes to all who wait, and is not stored.
NoSlot(t) ==
  /\ pc[t] = "slot"
  /\ Cardinality(HoldsSlot) >= Slots
  /\ Goto(t, "resolve")
  /\ UNCHANGED <<Undisturbed, outcome>>

\* execute_ws_method returns; its error is a response like its result.
Execute(t) ==
  /\ pc[t] = "run"
  /\ Goto(t, "store")
  /\ outcome' = [outcome EXCEPT ![t] = Payload(conn[t])]
  /\ UNCHANGED Undisturbed

\* cache_response keeps no large response; else it prunes, inserts, and prunes
\* to size, the new entry last.
Store(t) ==
  LET i      == req[t]
      others == {j \in Ids \ {i} : Fresh[j] # "none"}
  IN
  /\ pc[t] = "store"
  /\ Goto(t, "resolve")
  /\ \/ Fault("large") /\ Forget({i}) /\ UNCHANGED cacheVars
     \/ /\ NoFault
        /\ \E kept \in SUBSET others :
             /\ kept = others \/ Cardinality(kept) = MaxCached - 1
             /\ Cardinality(kept) < MaxCached
             /\ cache' = [j \in Ids |-> IF j = i THEN outcome[t]
                                        ELSE IF j \in kept THEN cache[j] ELSE "none"]
             /\ Forget({j \in Ids \ (kept \cup {i}) : cache[j] # "none"})
        /\ old' = {}
  /\ UNCHANGED <<browserVars, wire, replies, tableVars, outcome, executed>>

\* The entry a handler resolves is the one another handler has registered
\* after its own was purged.
Misplaced(t) == {i \in {req[t]} : inflight[i] # "none" /\ starter[i] # t}

AudienceBug(t) == {conn[t]}
Audience(t)    == waiters[req[t]]

\* resolve_inflight_request takes whatever entry the id has now.
Resolve(t) ==
  LET i == req[t] IN
  /\ pc[t] = "resolve"
  /\ Respond(Audience(t), i, outcome[t])
  /\ inflight' = [inflight EXCEPT ![i] = "none"]
  /\ starter' = [starter EXCEPT ![i] = Nobody]
  /\ waiters' = [waiters EXCEPT ![i] = {}]
  /\ aged' = aged \ {i}
  /\ Forget(Misplaced(t))
  /\ Finish(t)
  /\ UNCHANGED <<browserVars, wire, cacheVars, outlived, executed, faults>>

----------------------------------------------------------------------------
(* Time passes, and the gateway dies and starts again.                     *)

\* A request is at work for longer than INFLIGHT_REQUEST_TTL.
EntryAges ==
  /\ Fault("slow")
  /\ \E i \in Ids \ aged :
       /\ starter[i] # Nobody /\ pc[starter[i]] = "run"
       /\ aged' = aged \cup {i}
  /\ UNCHANGED <<browserVars, wire, replies, cacheVars, inflight, starter, waiters,
                 outlived, taskVars, executed, lost>>

\* A response has been stored for longer than CACHE_TTL.
ResponseAges ==
  /\ Fault("old")
  /\ \E i \in Ids \ old : cache[i] # "none" /\ old' = old \cup {i}
  /\ UNCHANGED <<browserVars, wire, replies, cache, tableVars, taskVars, executed, lost>>

Crash ==
  /\ link < MaxLinks /\ Fault("crash")
  /\ up' = FALSE /\ wire' = {} /\ replies' = {}
  /\ cache' = [i \in Ids |-> "none"] /\ old' = {}
  /\ inflight' = [i \in Ids |-> "none"]
  /\ starter' = [i \in Ids |-> Nobody]
  /\ waiters' = [i \in Ids |-> {}] /\ aged' = {}
  /\ pc' = [t \in Tasks |-> "idle"]
  /\ req' = [t \in Tasks |-> AnyId]
  /\ conn' = [t \in Tasks |-> 0]
  /\ outcome' = [t \in Tasks |-> "failed"]
  /\ lost' = executed
  /\ UNCHANGED <<asked, sentOn, link, outlived, executed>>

----------------------------------------------------------------------------

Step(t) == \/ Lookup(t) \/ Register(t) \/ TakeSlot(t) \/ NoSlot(t)
           \/ Execute(t) \/ Store(t) \/ Resolve(t)

Next == \/ Ask \/ Connect \/ Disconnect \/ EarlyGiveUp \/ LateGiveUp \/ Reuse \/ Deliver
        \/ ReaderRefuses
        \/ \E t \in Tasks : Receive(t) \/ Step(t)
        \/ EntryAges \/ ResponseAges \/ Crash

Spec == Init /\ [][Next]_vars

\* While the browser can reconnect or give up what nobody answers, the network
\* deliver or a handler run, one of them does.  No request has to be made.
Progress ==
  \/ Connect \/ Deliver \/ LateGiveUp \/ ReaderRefuses
  \/ \E t \in Tasks : Receive(t) \/ Step(t)

Fairness == WF_vars(Progress)

FairSpec == Spec /\ Fairness

----------------------------------------------------------------------------
(* Properties.                                                             *)

\* A replay reaches execute_ws_method a second time only if the gateway lost
\* its memory of the id in between, and each loss allows one more execution:
\* by a restart, by the TTL or the size of the response cache, by a response
\* too large for it, by the TTL of an in-flight entry (which also makes its
\* handler resolve the entry of another), or by falling between
\* cached_response and register_inflight_request.
ExecutedOnce == \A i \in Ids : executed[i] <= lost[i] + 1

\* The same without the excuses: a request id is executed once.
ReplayExecutesOnce == \A i \in Ids : executed[i] <= 1

\* Nobody waits at an entry without a handler: whoever registered it is still
\* on its way to resolve_inflight_request, and the entry has a waiter to answer.
EntriesAreServed ==
  \A i \in Ids : inflight[i] # "none" =>
    /\ starter[i] # Nobody /\ waiters[i] # {}
    /\ pc[starter[i]] \in Owning /\ req[starter[i]] = i

\* At most one handler per id is past register_inflight_request, unless one has
\* outlived its entry.
SingleExecution ==
  \A t, u \in Tasks :
    pc[t] \in Owning /\ pc[u] \in Owning /\ req[t] = req[u] =>
      t = u \/ req[t] \in outlived

\* A request sent on the open connection is never forgotten: its message is
\* under way, its handler has not decided yet, its connection waits at the
\* entry, or its response is under way.  Whoever joins a request in flight is
\* given the original's response ("waits for the original result").  Only when
\* the original outlives its entry do those who wait there wait in vain.
NoSilentWait ==
  \A i \in Ids \ outlived : asked[i] = "pending" /\ up /\ sentOn[i] = link =>
    \/ Message(link, i) \in wire
    \/ \E t \in Tasks : pc[t] \in {"lookup", "register"} /\ req[t] = i /\ conn[t] = link
    \/ link \in waiters[i]
    \/ \E r \in replies : r.id = i

\* A browser never gets the response to another request under its id, unless a
\* handler that outlived its entry resolves the entry of another.
AnswerFits == \A i \in Ids \ outlived : asked[i] # "other"

\* In the end no request of the browser is pending, across reconnects and behind
\* the limit on what it may have under way.  Its own time-out is counted on only
\* for a request whose handler outlived its entry.
EveryRequestAnswered == <>[](\A i \in Ids : asked[i] # "pending")
=============================================================================
