------------------------- MODULE RequestReplayProofs -------------------------
(***************************************************************************)
(* Theorems of RequestReplay for every set of ids and handlers and every   *)
(* bound.  The argument for ExecutedOnce keeps an account per id: the      *)
(* executions begun, and those let in and still waiting for a slot, are    *)
(* covered by the losses so far and by one credit while the gateway knows  *)
(* the id.                                                                 *)
(***************************************************************************)
EXTENDS RequestReplay, FiniteSetTheorems, TLAPS

\* Let in by register_inflight_request, execution not begun.
Waiting(i) == {t \in Tasks : pc[t] = "slot" /\ req[t] = i}

\* A message under the id would not be let in, and the entry that keeps it out
\* will leave a response behind.
Known(i) == cache[i] # "none" \/ (inflight[i] # "none" /\ pc[starter[i]] # "resolve")
Credit(i) == IF Known(i) THEN 1 ELSE 0

Account == \A i \in Ids : executed[i] + Cardinality(Waiting(i)) <= lost[i] + Credit(i)

\* Every handler past the registration owns its entry, or has outlived it.
OwnersRegistered ==
  \A t \in Tasks : pc[t] \in Owning => starter[req[t]] = t \/ req[t] \in outlived

\* Only an open connection has a number, and requests were sent on it or before.
LinksInOrder ==
  /\ up => link # 0
  /\ \A i \in Ids : sentOn[i] <= link /\ (asked[i] = "new" => sentOn[i] = 0)

----------------------------------------------------------------------------
(* Types.                                                                  *)

\* What a handler is about to store is the response to its own request.
ResponsesReady == \A t \in Tasks : pc[t] = "store" => outcome[t] = Payload(conn[t])
TypeInv == TypeOK /\ ResponsesReady

LEMMA AnyIdType == AnyId \in Ids
<1>1. \E i \in Ids : TRUE
  BY ReplayConstants
<1> QED BY <1>1 DEF AnyId

\* What a handler does to its own state keeps it well typed.
LEMMA FinishType ==
  ASSUME TaskTypes, NEW t \in Tasks, Finish(t)
  PROVE  TaskTypes'
<1>1. 0 \in Conns
  BY ReplayConstants DEF Conns
<1> QED BY <1>1, AnyIdType DEF TaskTypes, Finish, Settled, Owning

LEMMA GotoType ==
  ASSUME TaskTypes, NEW t \in Tasks, NEW p \in {"register"} \cup Owning, Goto(t, p),
         outcome' \in [Tasks -> Settled]
  PROVE  TaskTypes'
BY DEF TaskTypes, Goto, Owning

LEMMA RespondType ==
  ASSUME BrowserTypes, NEW C, NEW i \in Ids, NEW a \in Settled, Respond(C, i, a)
  PROVE  replies' \subseteq [id : Ids, answer : Settled]
BY DEF BrowserTypes, Respond

LEMMA ForgetType ==
  ASSUME CountTypes, NEW S, Forget(S)
  PROVE  lost' \in [Ids -> Nat]
BY DEF CountTypes, Forget

LEMMA InitTypes == Init => TypeOK
<1> SUFFICES ASSUME Init PROVE TypeOK
  OBVIOUS
<1>1. 0 \in Conns
  BY ReplayConstants DEF Conns
<1>2. BrowserTypes
  BY <1>1 DEF Init, BrowserTypes
<1>3. TableTypes
  BY DEF Init, TableTypes
<1>4. TaskTypes
  BY <1>1, AnyIdType DEF Init, TaskTypes, Settled
<1>5. CountTypes
  BY DEF Init, CountTypes
<1> QED BY <1>2, <1>3, <1>4, <1>5 DEF TypeOK

\* A request is sent on the connection there is, or stays where it was.
LEMMA FlushSends ==
  ASSUME Flush, NEW i \in Ids, sentOn \in [Ids -> Nat]
  PROVE  /\ \/ sentOn'[i] = sentOn[i]
            \/ /\ asked'[i] = "pending" /\ up' /\ sentOn'[i] = link'
               /\ Message(link', i) \in wire'
         /\ wire \subseteq wire'
BY DEF Flush, Held

\* What flushPending writes has its type.
LEMMA FlushTypes ==
  ASSUME Flush, sentOn \in [Ids -> Conns], link' \in Conns, wire \subseteq [conn : Conns, id : Ids]
  PROVE  sentOn' \in [Ids -> Conns] /\ wire' \subseteq [conn : Conns, id : Ids]
<1>1. CASE UNCHANGED <<sentOn, wire>>
  BY <1>1
<1>2. ASSUME NEW out \in SUBSET Held, sentOn' = [i \in Ids |-> IF i \in out THEN link' ELSE sentOn[i]],
             wire' = wire \cup {Message(link', i) : i \in out}
      PROVE  sentOn' \in [Ids -> Conns] /\ wire' \subseteq [conn : Conns, id : Ids]
  <2>1. out \subseteq Ids
    BY DEF Held
  <2>2. \A i \in out : Message(link', i) \in [conn : Conns, id : Ids]
    BY <2>1 DEF Message
  <2> QED BY <1>2, <2>1, <2>2
<1> QED BY <1>1, <1>2 DEF Flush

\* A time-out is one of a request of the browser's.
LEMMA GivesUp ==
  ASSUME outlived \subseteq Ids, EarlyGiveUp \/ LateGiveUp
  PROVE  GiveUp(Ids)
BY DEF EarlyGiveUp, LateGiveUp, GiveUp

\* Steps of the browser, of its connections, and of time.
LEMMA OutsideTypes ==
  ASSUME TypeOK,
         Ask \/ Connect \/ Disconnect \/ EarlyGiveUp \/ LateGiveUp \/ Reuse \/ Deliver
           \/ EntryAges \/ ResponseAges \/ Crash
  PROVE  TypeOK'
<1> USE ReplayConstants DEF TypeOK, Settled, Payloads, Fault, Gateway, Conns
<1>1. CASE Ask
  BY <1>1, FlushTypes DEF Ask, BrowserTypes, TableTypes, TaskTypes, CountTypes,
                          cacheVars, tableVars, taskVars
<1>2. CASE Connect
  BY <1>2, FlushTypes DEF Connect, Rejected, BrowserTypes, TableTypes, TaskTypes, CountTypes,
                          cacheVars, tableVars, taskVars
<1>3. CASE Disconnect
  <2>1. wire' \subseteq wire
    BY <1>3 DEF Disconnect
  <2>2. BrowserTypes'
    BY <1>3, <2>1 DEF Disconnect, BrowserTypes
  <2> QED
    BY <1>3, <2>2 DEF Disconnect, TableTypes, TaskTypes, CountTypes,
                      cacheVars, tableVars, taskVars
<1>4. CASE EarlyGiveUp \/ LateGiveUp
  <2>1. GiveUp(Ids)
    BY <1>4, GivesUp DEF TableTypes
  <2>2. faults' \in Nat
    BY <1>4 DEF EarlyGiveUp, LateGiveUp, NoFault, CountTypes
  <2> QED BY <2>1, <2>2, FlushTypes DEF GiveUp, BrowserTypes, TableTypes, TaskTypes, CountTypes,
                                        cacheVars, tableVars, taskVars
<1>5. CASE Reuse
  BY <1>5 DEF Reuse, BrowserTypes, TableTypes, TaskTypes, CountTypes, Message,
              browserVars, cacheVars, tableVars, taskVars
<1>6. CASE Deliver
  BY <1>6, FlushTypes DEF Deliver, BrowserTypes, TableTypes, TaskTypes, CountTypes,
                          cacheVars, tableVars, taskVars
<1>7. CASE EntryAges
  BY <1>7 DEF EntryAges, BrowserTypes, TableTypes, TaskTypes, CountTypes,
              browserVars, cacheVars, taskVars
<1>8. CASE ResponseAges
  BY <1>8 DEF ResponseAges, BrowserTypes, TableTypes, TaskTypes, CountTypes,
              browserVars, tableVars, taskVars
<1>9. CASE Crash
  <2>1. 0 \in Conns
    BY DEF Conns
  <2>2. BrowserTypes'
    BY <1>9 DEF Crash, BrowserTypes
  <2>3. TableTypes'
    BY <1>9 DEF Crash, TableTypes
  <2>4. TaskTypes'
    BY <1>9, <2>1, AnyIdType DEF Crash, TaskTypes
  <2>5. CountTypes'
    BY <1>9 DEF Crash, CountTypes
  <2> QED BY <2>2, <2>3, <2>4, <2>5
<1> QED BY <1>1, <1>2, <1>3, <1>4, <1>5, <1>6, <1>7, <1>8, <1>9

\* Steps of the reader loop and of a handler.
LEMMA HandlerTypes ==
  ASSUME TypeInv, NEW t \in Tasks, Receive(t) \/ Step(t)
  PROVE  TypeOK'
<1> USE DEF TypeOK, TypeInv
<1>1. CASE Receive(t)
  BY <1>1 DEF Receive, BrowserTypes, TableTypes, TaskTypes, CountTypes,
              browserVars, cacheVars, tableVars
<1>2. CASE Lookup(t)
  <2> DEFINE i == req[t]
  <2>1. i \in Ids /\ Fresh \in [Ids -> Payloads \cup {"none"}]
    BY DEF TaskTypes, TableTypes, Fresh
  <2>2. replies' \subseteq [id : Ids, answer : Settled]
    BY <1>2, <2>1, RespondType DEF Lookup, Settled, Payload, Payloads, BrowserTypes
  <2>3. TaskTypes'
    BY <1>2, FinishType, GotoType DEF Lookup, TaskTypes
  <2>4. lost' \in [Ids -> Nat]
    BY <1>2, ForgetType DEF Lookup, CountTypes
  <2>5. TableTypes'
    BY <1>2, <2>1 DEF Lookup, TableTypes, tableVars, cacheVars
  <2> QED
    BY <1>2, <2>2, <2>3, <2>4, <2>5 DEF Lookup, BrowserTypes, CountTypes, browserVars
<1>3. CASE Register(t)
  <2>1. req[t] \in Ids /\ conn[t] \in Conns
    BY DEF TaskTypes
  <2>2. replies' \subseteq [id : Ids, answer : Settled]
    BY <1>3, <2>1, RespondType DEF Register, Settled, BrowserTypes
  <2>3. TaskTypes'
    BY <1>3, FinishType, GotoType DEF Register, TaskTypes, Owning
  <2>4. lost' \in [Ids -> Nat]
    BY <1>3, ForgetType DEF Register
  <2>6. aged' \subseteq Ids /\ outlived' \subseteq Ids /\ UNCHANGED cacheVars
    BY <1>3 DEF Register, TableTypes, Purged
  <2>7. /\ inflight' \in [Ids -> Payloads \cup {"none"}]
        /\ starter' \in [Ids -> Tasks \cup {Nobody}]
    BY <1>3, <2>1 DEF Register, TableTypes, Payload, Payloads
  <2>8. waiters' \in [Ids -> SUBSET Conns]
    BY <1>3, <2>1 DEF Register, TableTypes
  <2>5. TableTypes'
    BY <2>6, <2>7, <2>8 DEF TableTypes, cacheVars
  <2> QED
    BY <1>3, <2>2, <2>3, <2>4, <2>5 DEF Register, BrowserTypes, CountTypes, browserVars
<1>4. CASE TakeSlot(t)
  BY <1>4, GotoType DEF TakeSlot, BrowserTypes, TableTypes, TaskTypes, CountTypes,
     browserVars, cacheVars, tableVars, Owning
<1>5. CASE NoSlot(t)
  BY <1>5, GotoType DEF NoSlot, BrowserTypes, TableTypes, TaskTypes, CountTypes,
     Undisturbed, browserVars, cacheVars, tableVars, Owning
<1>6. CASE Execute(t)
  BY <1>6, GotoType DEF Execute, BrowserTypes, TableTypes, TaskTypes, CountTypes,
     Undisturbed, browserVars, cacheVars, tableVars, Owning, Payload, Payloads, Settled
<1>7. CASE Store(t)
  <2>1. TaskTypes'
    BY <1>7, GotoType DEF Store, TaskTypes, Owning
  <2>2. lost' \in [Ids -> Nat]
    BY <1>7, ForgetType DEF Store
  <2>3. faults' \in Nat
    BY <1>7 DEF Store, Fault, NoFault, CountTypes
  <2>4. cache' \in [Ids -> Payloads \cup {"none"}] /\ old' \subseteq Ids
    <3>1. outcome[t] \in Payloads
      BY <1>7 DEF Store, ResponsesReady, Payload, Payloads
    <3>2. \/ UNCHANGED cacheVars
          \/ /\ old' = {}
             /\ \E kept \in SUBSET Ids :
                  cache' = [j \in Ids |-> IF j = req[t] THEN outcome[t]
                                          ELSE IF j \in kept THEN cache[j] ELSE "none"]
      BY <1>7 DEF Store
    <3> QED BY <3>1, <3>2 DEF TableTypes, cacheVars
  <2>5. TableTypes'
    BY <1>7, <2>4 DEF Store, TableTypes, tableVars
  <2> QED
    BY <1>7, <2>1, <2>2, <2>3, <2>5 DEF Store, BrowserTypes, CountTypes, browserVars
<1>8. CASE Resolve(t)
  <2>1. req[t] \in Ids /\ outcome[t] \in Settled
    BY DEF TaskTypes
  <2>2. replies' \subseteq [id : Ids, answer : Settled]
    BY <1>8, <2>1, RespondType DEF Resolve
  <2>3. TaskTypes'
    BY <1>8, FinishType DEF Resolve
  <2>4. lost' \in [Ids -> Nat]
    BY <1>8, ForgetType DEF Resolve
  <2>5. TableTypes'
    BY <1>8, <2>1 DEF Resolve, TableTypes, cacheVars
  <2> QED
    BY <1>8, <2>2, <2>3, <2>4, <2>5 DEF Resolve, BrowserTypes, CountTypes, browserVars
<1> QED BY <1>1, <1>2, <1>3, <1>4, <1>5, <1>6, <1>7, <1>8 DEF Step

LEMMA ReadyStep ==
  ASSUME TypeInv, [Next]_vars
  PROVE  ResponsesReady'
<1> USE DEF TypeInv, TypeOK, TaskTypes, ResponsesReady
<1>1. CASE \E t \in Tasks : Receive(t) \/ Step(t)
  <2> PICK t \in Tasks : Receive(t) \/ Step(t)
    BY <1>1
  <2>1. \/ Finish(t)
        \/ Goto(t, "register") /\ UNCHANGED outcome
        \/ Goto(t, "slot") /\ UNCHANGED outcome
        \/ Goto(t, "run") /\ UNCHANGED outcome
        \/ Goto(t, "resolve") /\ UNCHANGED outcome
        \/ Execute(t) \/ Receive(t)
    BY DEF Step, Lookup, Register, TakeSlot, NoSlot, Store, Resolve
  <2> QED
    BY <2>1 DEF Finish, Goto, Execute, Receive
<1>2. CASE UNCHANGED taskVars
  BY <1>2 DEF taskVars
<1>3. CASE Crash
  BY <1>3 DEF Crash
<1> QED
  BY <1>1, <1>2, <1>3 DEF Next, vars, Ask, Connect, Disconnect, EarlyGiveUp, LateGiveUp, GiveUp, Reuse, Deliver,
     ReaderRefuses, EntryAges, ResponseAges, Gateway

LEMMA TypeStep == TypeInv /\ [Next]_vars => TypeInv'
<1> SUFFICES ASSUME TypeInv, [Next]_vars PROVE TypeOK'
  BY ReadyStep DEF TypeInv
<1>1. CASE UNCHANGED vars
  BY <1>1 DEF vars, TypeInv, TypeOK, BrowserTypes, TableTypes, TaskTypes, CountTypes,
     browserVars, cacheVars, tableVars, taskVars
<1>2. CASE ReaderRefuses
  <2>1. replies' \subseteq [id : Ids, answer : Settled] /\ wire' \subseteq wire
    BY <1>2, RespondType DEF ReaderRefuses, Settled, TypeInv, TypeOK, BrowserTypes
  <2> QED
    BY <1>2, <2>1 DEF ReaderRefuses, Gateway, TypeInv, TypeOK, BrowserTypes, TableTypes,
       TaskTypes, CountTypes, browserVars, cacheVars, tableVars, taskVars
<1> QED
  BY <1>1, <1>2, OutsideTypes, HandlerTypes DEF Next, TypeInv

\* Every variable keeps its type (all actions of the browser, the network and
\* handle_ws_message).
THEOREM RequestTypesCorrect == Spec => []TypeOK
<1>1. Init => TypeInv
  BY InitTypes DEF TypeInv, ResponsesReady, Init
<1>2. TypeInv => TypeOK
  BY DEF TypeInv
<1> QED BY <1>1, <1>2, TypeStep, PTL DEF Spec

----------------------------------------------------------------------------
(* Every entry has the handler that will resolve it.                       *)

NoEntryNoStarter == \A i \in Ids : inflight[i] = "none" => starter[i] = Nobody
Served == EntriesAreServed /\ NoEntryNoStarter

\* Steps that leave the table alone, and take no handler out of Owning.
LEMMA QuietServed ==
  ASSUME TypeInv, Served, UNCHANGED tableVars,
         \A t \in Tasks : pc[t] \in Owning => pc'[t] \in Owning /\ req'[t] = req[t]
  PROVE  Served'
BY ReplayConstants DEF Served, EntriesAreServed, NoEntryNoStarter, tableVars, TypeInv, TypeOK, TableTypes

LEMMA ServedStep ==
  ASSUME TypeInv, Served, [Next]_vars
  PROVE  Served'
<1> USE DEF TypeInv, TypeOK, TaskTypes, TableTypes
<1>1. CASE UNCHANGED <<tableVars, taskVars>>
  BY <1>1, QuietServed DEF taskVars
<1>2. ASSUME NEW t \in Tasks,
             Receive(t) \/ Lookup(t) \/ TakeSlot(t) \/ NoSlot(t) \/ Execute(t) \/ Store(t)
      PROVE  Served'
  <2>1. UNCHANGED tableVars
    BY <1>2 DEF Receive, Lookup, TakeSlot, NoSlot, Execute, Store, Undisturbed
  <2>2. \/ Receive(t)
        \/ pc[t] = "lookup" /\ (Finish(t) \/ Goto(t, "register"))
        \/ \E p \in Owning : Goto(t, p)
    <3>1. CASE Lookup(t)
      BY <3>1 DEF Lookup
    <3>2. CASE TakeSlot(t)
      BY <3>2 DEF TakeSlot, Owning
    <3>3. CASE NoSlot(t)
      BY <3>3 DEF NoSlot, Owning
    <3>4. CASE Execute(t)
      BY <3>4 DEF Execute, Owning
    <3>5. CASE Store(t)
      BY <3>5 DEF Store, Owning
    <3> QED BY <1>2, <3>1, <3>2, <3>3, <3>4, <3>5
  <2>3. \A u \in Tasks : pc[u] \in Owning => pc'[u] \in Owning /\ req'[u] = req[u]
    BY <2>2 DEF Receive, Finish, Goto, Owning
  <2> QED BY <2>1, <2>3, QuietServed
<1>3. ASSUME NEW t \in Tasks, Register(t)
      PROVE  Served'
  <2>1. pc[t] = "register" /\ (IF Starts(t) THEN Goto(t, "slot") ELSE Finish(t))
    BY <1>3 DEF Register, Joins, Starts
  <2>2. \A u \in Tasks : pc[u] \in Owning => pc'[u] \in Owning /\ req'[u] = req[u]
    BY <2>1 DEF Goto, Finish, Owning
  <2>3. SUFFICES ASSUME NEW i \in Ids
                 PROVE  /\ inflight'[i] = "none" => starter'[i] = Nobody
                        /\ inflight'[i] # "none" =>
                             /\ starter'[i] # Nobody /\ waiters'[i] # {}
                             /\ pc'[starter'[i]] \in Owning /\ req'[starter'[i]] = i
    BY DEF Served, EntriesAreServed, NoEntryNoStarter
  <2>4. CASE i = req[t] /\ Starts(t)
    <3>1. inflight'[i] = Payload(conn[t]) /\ starter'[i] = t /\ conn[t] \in waiters'[i]
      BY <1>3, <2>4 DEF Register
    <3>2. pc'[t] = "slot" /\ req'[t] = i
      BY <2>1, <2>4 DEF Goto
    <3> QED BY <3>1, <3>2, ReplayConstants DEF Payload, Owning
  <2>5. CASE ~(i = req[t] /\ Starts(t)) /\ i \in Purged
    BY <1>3, <2>5 DEF Register
  <2>6. CASE ~(i = req[t] /\ Starts(t)) /\ i \notin Purged
    <3>1. inflight'[i] = inflight[i] /\ starter'[i] = starter[i] /\ waiters[i] \subseteq waiters'[i]
      BY <1>3, <2>6 DEF Register
    <3> QED BY <3>1, <2>2 DEF Served, EntriesAreServed, NoEntryNoStarter
  <2> QED BY <2>4, <2>5, <2>6
<1>4. ASSUME NEW t \in Tasks, Resolve(t)
      PROVE  Served'
  <2>1. \A i \in Ids : i # req[t] =>
          inflight'[i] = inflight[i] /\ starter'[i] = starter[i] /\ waiters'[i] = waiters[i]
    BY <1>4 DEF Resolve
  <2>2. inflight'[req[t]] = "none" /\ starter'[req[t]] = Nobody
    BY <1>4 DEF Resolve
  <2>3. \A u \in Tasks : u # t => pc'[u] = pc[u] /\ req'[u] = req[u]
    BY <1>4 DEF Resolve, Finish
  <2> QED
    BY <2>1, <2>2, <2>3, ReplayConstants DEF Served, EntriesAreServed, NoEntryNoStarter
<1>5. CASE EntryAges
  BY <1>5 DEF EntryAges, taskVars, Served, EntriesAreServed, NoEntryNoStarter
<1>6. CASE Crash
  BY <1>6 DEF Crash, Served, EntriesAreServed, NoEntryNoStarter
<1> QED
  BY <1>1, <1>2, <1>3, <1>4, <1>5, <1>6 DEF Next, Step, vars, Ask, Connect, Disconnect,
     EarlyGiveUp, LateGiveUp, GiveUp, Reuse, Deliver, ReaderRefuses, ResponseAges, Gateway

\* Whoever waits at an in-flight entry waits for a handler that is on its way
\* to resolve_inflight_request (register_inflight_request, and the three places
\* where an entry goes).
THEOREM WaitersAreServed == Spec => []EntriesAreServed
<1>1. Init => TypeInv /\ Served
  BY InitTypes DEF TypeInv, ResponsesReady, Init, Served, EntriesAreServed, NoEntryNoStarter
<1>2. TypeInv /\ Served /\ [Next]_vars => (TypeInv /\ Served)'
  BY TypeStep, ServedStep
<1>3. Served => EntriesAreServed
  BY DEF Served
<1> QED BY <1>1, <1>2, <1>3, PTL DEF Spec

----------------------------------------------------------------------------
(* The account of executions.                                              *)

LEMMA WaitingFinite ==
  ASSUME NEW i \in Ids
  PROVE  IsFiniteSet(Waiting(i)) /\ Cardinality(Waiting(i)) \in Nat
<1>1. IsFiniteSet(Waiting(i))
  BY ReplayConstants, FS_Subset DEF Waiting
<1> QED BY <1>1, FS_CardinalityType

\* What an id's part of the account amounts to after a step, given what the
\* step did to each of the summands.
LEMMA Balance ==
  ASSUME TypeInv, Account, NEW i \in Ids, NEW e \in {0, 1}, NEW l \in {0, 1},
         NEW W, W = Waiting(i)', 
         executed'[i] = executed[i] + e, lost'[i] = lost[i] + l,
         NEW n \in Int, Cardinality(W) = Cardinality(Waiting(i)) + n,
         e + n + Credit(i) <= l + Credit(i)'
  PROVE  executed'[i] + Cardinality(W) <= lost'[i] + Credit(i)'
BY WaitingFinite DEF TypeInv, TypeOK, CountTypes, Account, Credit

\* The handlers waiting for a slot under an id, when one more does or one less.
LEMMA OneMoreWaits ==
  ASSUME NEW i \in Ids, NEW t \in Tasks, t \notin Waiting(i), Waiting(i)' = Waiting(i) \cup {t}
  PROVE  Cardinality(Waiting(i)') = Cardinality(Waiting(i)) + 1
BY WaitingFinite, FS_AddElement

LEMMA OneLessWaits ==
  ASSUME NEW i \in Ids, NEW t \in Waiting(i), Waiting(i)' = Waiting(i) \ {t}
  PROVE  Cardinality(Waiting(i)') = Cardinality(Waiting(i)) - 1
BY WaitingFinite, FS_RemoveElement

LEMMA AccountStep ==
  ASSUME TypeInv, Served, Account, [Next]_vars
  PROVE  Account'
<1> USE DEF TypeInv, TypeOK, TaskTypes, TableTypes, CountTypes
<1>0. SUFFICES ASSUME NEW i \in Ids
               PROVE  executed'[i] + Cardinality(Waiting(i)') <= lost'[i] + Credit(i)'
  BY DEF Account
<1> DEFINE W == Waiting(i)'
\* What the gateway knows of i without its handlers changes with the tables only.
<1>1. CASE UNCHANGED Gateway
  <2>1. W = Waiting(i) /\ Known(i)' = Known(i)
    BY <1>1 DEF Gateway, taskVars, cacheVars, tableVars, Waiting, Known
  <2> QED BY <1>1, <2>1, Balance, WaitingFinite DEF Gateway, Credit
<1>2. ASSUME NEW t \in Tasks, Receive(t)
      PROVE  executed'[i] + Cardinality(W) <= lost'[i] + Credit(i)'
  <2>1. W = Waiting(i) /\ Known(i)' = Known(i)
    BY <1>2 DEF Receive, Waiting, Known, cacheVars, tableVars, Served, EntriesAreServed, Owning
  <2> QED BY <1>2, <2>1, Balance, WaitingFinite DEF Receive, Credit
<1>3. ASSUME NEW t \in Tasks, Lookup(t)
      PROVE  executed'[i] + Cardinality(W) <= lost'[i] + Credit(i)'
  <2>1. Finish(t) \/ Goto(t, "register")
    BY <1>3 DEF Lookup
  <2>2. W = Waiting(i)
    BY <1>3, <2>1 DEF Lookup, Finish, Goto, Waiting
  <2>3. inflight' = inflight /\ starter' = starter /\ executed' = executed
    BY <1>3 DEF Lookup, tableVars
  <2>4. inflight[i] # "none" => pc'[starter[i]] = pc[starter[i]]
    BY <1>3, <2>1 DEF Lookup, Finish, Goto, Served, EntriesAreServed, Owning
  <2>5. \/ cache'[i] = cache[i] /\ lost'[i] = lost[i]
        \/ lost'[i] = lost[i] + 1
    BY <1>3 DEF Lookup, Forget, Fresh, cacheVars
  <2>6. \/ Known(i)' = Known(i) /\ lost'[i] = lost[i]
        \/ lost'[i] = lost[i] + 1
    BY <2>3, <2>4, <2>5 DEF Known
  <2> QED BY <2>2, <2>3, <2>6, Balance, WaitingFinite DEF Credit
<1>4. ASSUME NEW t \in Tasks, Register(t)
      PROVE  executed'[i] + Cardinality(W) <= lost'[i] + Credit(i)'
  <2>1. pc[t] = "register" /\ (IF Starts(t) THEN Goto(t, "slot") ELSE Finish(t))
    BY <1>4 DEF Register, Joins, Starts
  <2>2. cache' = cache /\ executed' = executed
    BY <1>4 DEF Register, cacheVars
  <2>3. CASE i = req[t] /\ Starts(t)
    <3>1. W = Waiting(i) \cup {t} /\ t \notin Waiting(i)
      BY <2>1, <2>3 DEF Goto, Waiting
    <3>2. Cardinality(W) = Cardinality(Waiting(i)) + 1
      BY <3>1, OneMoreWaits
    <3>3. starter'[i] = t /\ inflight'[i] # "none" /\ pc'[t] = "slot"
      BY <1>4, <2>1, <2>3 DEF Register, Goto, Payload
    <3>4. Known(i)'
      BY <3>3 DEF Known
    <3>5. lost'[i] = (IF cache[i] # "none" \/ i \in Purged THEN lost[i] + 1 ELSE lost[i])
      BY <1>4, <2>3 DEF Register, Forget, Overtaken
    <3>6. ~Known(i) \/ lost'[i] = lost[i] + 1
      BY <2>3, <3>5 DEF Known, Starts, Remaining
    <3> QED BY <2>2, <3>2, <3>4, <3>5, <3>6, Balance, WaitingFinite DEF Credit
  <2>4. CASE ~(i = req[t] /\ Starts(t))
    <3>1. W = Waiting(i)
      BY <2>1, <2>4 DEF Goto, Finish, Waiting
    <3>2. \/ i \in Purged /\ lost'[i] = lost[i] + 1
          \/ /\ lost'[i] = lost[i]
             /\ inflight'[i] = inflight[i] /\ starter'[i] = starter[i]
      BY <1>4, <2>4 DEF Register, Forget, Overtaken
    <3>3. inflight[i] # "none" => pc'[starter[i]] = pc[starter[i]]
      BY <2>1 DEF Goto, Finish, Served, EntriesAreServed, Owning
    <3>4. \/ lost'[i] = lost[i] + 1
          \/ lost'[i] = lost[i] /\ Known(i)' = Known(i)
      BY <2>2, <3>2, <3>3 DEF Known
    <3> QED BY <2>2, <3>1, <3>4, Balance, WaitingFinite DEF Credit
  <2> QED BY <2>3, <2>4

<1>5. ASSUME NEW t \in Tasks, TakeSlot(t) \/ NoSlot(t)
      PROVE  executed'[i] + Cardinality(W) <= lost'[i] + Credit(i)'
  <2>1. pc[t] = "slot" /\ (Goto(t, "run") \/ Goto(t, "resolve"))
    BY <1>5 DEF TakeSlot, NoSlot
  <2>2. cache' = cache /\ inflight' = inflight /\ starter' = starter /\ lost' = lost
    BY <1>5 DEF TakeSlot, NoSlot, Undisturbed, cacheVars, tableVars
  <2>3. CASE i = req[t]
    <3>1. W = Waiting(i) \ {t} /\ t \in Waiting(i)
      BY <2>1, <2>3 DEF Goto, Waiting
    <3>2. Cardinality(W) = Cardinality(Waiting(i)) - 1
      BY <3>1, OneLessWaits
    <3>3. CASE TakeSlot(t)
      <4>1. executed'[i] = executed[i] + 1 /\ pc' = [pc EXCEPT ![t] = "run"]
        BY <2>3, <3>3 DEF TakeSlot, Goto
      <4>2. Known(i)' = Known(i)
        BY <2>1, <2>2, <4>1 DEF Known, Served, EntriesAreServed
      <4> QED BY <2>2, <3>2, <4>1, <4>2, WaitingFinite DEF Account, Credit
    <3>4. CASE NoSlot(t)
      <4>1. executed'[i] = executed[i]
        BY <3>4 DEF NoSlot, Undisturbed
      <4> QED BY <2>2, <3>2, <4>1, WaitingFinite DEF Account, Credit
    <3> QED BY <1>5, <3>3, <3>4
  <2>4. CASE i # req[t]
    <3>1. W = Waiting(i) /\ executed'[i] = executed[i]
      BY <1>5, <2>1, <2>4 DEF Goto, Waiting, TakeSlot, NoSlot, Undisturbed
    <3>2. inflight[i] # "none" => pc'[starter[i]] = pc[starter[i]]
      BY <2>1, <2>4 DEF Goto, Served, EntriesAreServed
    <3>3. Known(i)' = Known(i)
      BY <2>2, <3>2 DEF Known
    <3> QED BY <2>2, <3>1, <3>3, Balance, WaitingFinite DEF Credit
  <2> QED BY <2>3, <2>4
<1>6. ASSUME NEW t \in Tasks, Execute(t)
      PROVE  executed'[i] + Cardinality(W) <= lost'[i] + Credit(i)'
  <2>1. W = Waiting(i) /\ Known(i)' = Known(i)
    BY <1>6 DEF Execute, Goto, Undisturbed, Waiting, Known, cacheVars, tableVars,
                Served, EntriesAreServed
  <2> QED BY <1>6, <2>1, Balance, WaitingFinite DEF Execute, Undisturbed, Credit
<1>7. ASSUME NEW t \in Tasks, Store(t)
      PROVE  executed'[i] + Cardinality(W) <= lost'[i] + Credit(i)'
  <2>1. pc[t] = "store" /\ Goto(t, "resolve") /\ outcome[t] # "none"
    BY <1>7 DEF Store, ResponsesReady, Payload
  <2>2. W = Waiting(i)
    BY <2>1 DEF Goto, Waiting
  <2>3. inflight' = inflight /\ starter' = starter /\ executed' = executed
    BY <1>7 DEF Store, tableVars
  <2>4. CASE i = req[t]
    <3>1. \/ lost'[i] = lost[i] + 1
          \/ lost'[i] = lost[i] /\ cache'[i] # "none"
      BY <1>7, <2>1, <2>4 DEF Store, Forget
    <3>2. \/ lost'[i] = lost[i] + 1
          \/ lost'[i] = lost[i] /\ Known(i)'
      BY <3>1 DEF Known
    <3> QED BY <2>2, <2>3, <3>2, Balance, WaitingFinite DEF Credit
  <2>5. CASE i # req[t]
    <3>1. \/ lost'[i] = lost[i] + 1
          \/ lost'[i] = lost[i] /\ cache'[i] = cache[i]
      <4>1. CASE UNCHANGED cacheVars
        BY <1>7, <2>5, <4>1 DEF Store, Forget, cacheVars
      <4>2. ASSUME NEW kept \in SUBSET Ids,
                   cache' = [j \in Ids |-> IF j = req[t] THEN outcome[t]
                                           ELSE IF j \in kept THEN cache[j] ELSE "none"],
                   Forget({j \in Ids \ (kept \cup {req[t]}) : cache[j] # "none"})
            PROVE  \/ lost'[i] = lost[i] + 1
                   \/ lost'[i] = lost[i] /\ cache'[i] = cache[i]
        BY <2>5, <4>2 DEF Forget
      <4> QED BY <1>7, <4>1, <4>2 DEF Store
    <3>2. inflight[i] # "none" => pc'[starter[i]] = pc[starter[i]]
      BY <2>1, <2>5 DEF Goto, Served, EntriesAreServed
    <3>3. \/ lost'[i] = lost[i] + 1
          \/ lost'[i] = lost[i] /\ Known(i)' = Known(i)
      BY <2>3, <3>1, <3>2 DEF Known
    <3> QED BY <2>2, <2>3, <3>3, Balance, WaitingFinite DEF Credit
  <2> QED BY <2>4, <2>5
<1>8. ASSUME NEW t \in Tasks, Resolve(t)
      PROVE  executed'[i] + Cardinality(W) <= lost'[i] + Credit(i)'
  <2>1. pc[t] = "resolve" /\ Finish(t)
    BY <1>8 DEF Resolve
  <2>2. W = Waiting(i) /\ cache' = cache /\ executed' = executed
    BY <1>8, <2>1 DEF Resolve, Finish, Waiting, cacheVars
  <2>3. CASE i = req[t]
    <3>1. lost'[i] = (IF inflight[i] # "none" /\ starter[i] # t THEN lost[i] + 1 ELSE lost[i])
      BY <1>8, <2>3 DEF Resolve, Forget, Misplaced
    <3>2. inflight'[i] = "none"
      BY <1>8, <2>3 DEF Resolve
    <3>3. \/ lost'[i] = lost[i] + 1
          \/ lost'[i] = lost[i] /\ Known(i)' = Known(i)
      BY <2>1, <2>2, <3>1, <3>2 DEF Known
    <3> QED BY <2>2, <3>3, Balance, WaitingFinite DEF Credit
  <2>4. CASE i # req[t]
    <3>1. lost'[i] = lost[i] /\ inflight'[i] = inflight[i] /\ starter'[i] = starter[i]
      BY <1>8, <2>4 DEF Resolve, Forget, Misplaced
    <3>2. inflight[i] # "none" => pc'[starter[i]] = pc[starter[i]]
      BY <2>1, <2>4 DEF Finish, Served, EntriesAreServed
    <3>3. Known(i)' = Known(i)
      BY <2>2, <3>1, <3>2 DEF Known
    <3> QED BY <2>2, <3>1, <3>3, Balance, WaitingFinite DEF Credit
  <2> QED BY <2>3, <2>4
<1>9. CASE EntryAges \/ ResponseAges
  <2>1. W = Waiting(i) /\ Known(i)' = Known(i) /\ executed' = executed /\ lost' = lost
    <3>1. CASE EntryAges
      BY <3>1 DEF EntryAges, Waiting, Known, taskVars, cacheVars
    <3>2. CASE ResponseAges
      BY <3>2 DEF ResponseAges, Waiting, Known, taskVars, tableVars
    <3> QED BY <1>9, <3>1, <3>2
  <2>2. Credit(i)' = Credit(i)
    BY <2>1 DEF Credit
  <2> QED BY <2>1, <2>2 DEF Account
<1>10. CASE Crash
  <2>1. W = {}
    BY <1>10 DEF Crash, Waiting
  <2>2. Cardinality(W) = 0
    BY <2>1, FS_EmptySet
  <2> QED BY <1>10, <2>2 DEF Crash, Credit
<1> QED
  BY <1>1, <1>2, <1>3, <1>4, <1>5, <1>6, <1>7, <1>8, <1>9, <1>10
  DEF Next, Step, vars, Ask, Connect, Disconnect, EarlyGiveUp, LateGiveUp, GiveUp, Reuse, Deliver, ReaderRefuses, Gateway

\* However often a browser sends a request again, and however the handlers of
\* its messages interleave, its method is executed once, and once more for each
\* time the gateway lost its memory of the id (handle_ws_message).
THEOREM ExecutionsAccountedFor == Spec => []ExecutedOnce
<1>1. Init => TypeInv /\ Served /\ Account
  <2> SUFFICES ASSUME Init PROVE TypeInv /\ Served /\ Account
    OBVIOUS
  <2>1. TypeInv /\ Served
    BY InitTypes DEF TypeInv, ResponsesReady, Init, Served, EntriesAreServed, NoEntryNoStarter
  <2>2. \A i \in Ids : Waiting(i) = {}
    BY DEF Init, Waiting
  <2>3. \A i \in Ids : Cardinality(Waiting(i)) = 0
    BY <2>2, FS_EmptySet
  <2> QED BY <2>1, <2>3 DEF Account, Init, Credit
<1>2. TypeInv /\ Served /\ Account /\ [Next]_vars => (TypeInv /\ Served /\ Account)'
  BY TypeStep, ServedStep, AccountStep
<1>3. TypeInv /\ Account => ExecutedOnce
  BY WaitingFinite DEF Account, ExecutedOnce, Credit, TypeInv, TypeOK, CountTypes
<1> QED BY <1>1, <1>2, <1>3, PTL DEF Spec

----------------------------------------------------------------------------
(* One handler per id, while none has outlived its entry.                  *)

LEMMA OwnersStep ==
  ASSUME TypeInv, Served, OwnersRegistered, [Next]_vars
  PROVE  OwnersRegistered'
<1> USE DEF TypeInv, TypeOK, TaskTypes, TableTypes, OwnersRegistered
<1>1. CASE UNCHANGED <<starter, outlived, taskVars>>
  BY <1>1 DEF taskVars
<1>2. ASSUME NEW t \in Tasks,
             Receive(t) \/ Lookup(t) \/ TakeSlot(t) \/ NoSlot(t) \/ Execute(t) \/ Store(t)
      PROVE  OwnersRegistered'
  <2>1. starter' = starter /\ outlived' = outlived
    BY <1>2 DEF Receive, Lookup, TakeSlot, NoSlot, Execute, Store, Undisturbed, tableVars
  <2>2. \A u \in Tasks : u # t => pc'[u] = pc[u] /\ req'[u] = req[u]
    <3>1. CASE Lookup(t)
      BY <3>1 DEF Lookup, Finish, Goto
    <3>2. CASE Receive(t) \/ Execute(t)
      BY <3>2 DEF Receive, Execute, Goto
    <3>3. CASE TakeSlot(t) \/ NoSlot(t)
      BY <3>3 DEF TakeSlot, NoSlot, Goto
    <3>4. CASE Store(t)
      BY <3>4 DEF Store, Goto
    <3> QED BY <1>2, <3>1, <3>2, <3>3, <3>4
  <2>3. pc'[t] \in Owning => pc[t] \in Owning /\ req'[t] = req[t]
    <3>1. CASE Lookup(t)
      BY <3>1 DEF Lookup, Finish, Goto, Owning
    <3>2. CASE Receive(t) \/ Execute(t)
      BY <3>2 DEF Receive, Execute, Goto, Owning
    <3>3. CASE TakeSlot(t) \/ NoSlot(t)
      BY <3>3 DEF TakeSlot, NoSlot, Goto, Owning
    <3>4. CASE Store(t)
      BY <3>4 DEF Store, Goto, Owning
    <3> QED BY <1>2, <3>1, <3>2, <3>3, <3>4
  <2> QED BY <2>1, <2>2, <2>3
<1>3. ASSUME NEW t \in Tasks, Register(t)
      PROVE  OwnersRegistered'
  <2>1. pc[t] = "register" /\ (IF Starts(t) THEN Goto(t, "slot") ELSE Finish(t))
    BY <1>3 DEF Register, Joins, Starts
  <2>2. outlived' = outlived \cup Purged
    BY <1>3 DEF Register
  <2>3. starter' = [j \in Ids |-> IF j = req[t] /\ Starts(t) THEN t
                                 ELSE IF j \in Purged THEN Nobody ELSE starter[j]]
    BY <1>3 DEF Register
  \* Another handler past its registration owns an entry that has not gone.
  <2>4. ASSUME NEW u \in Tasks, pc[u] \in Owning, req[u] \notin outlived'
        PROVE  /\ ~(req[u] = req[t] /\ Starts(t))
               /\ starter'[req[u]] = u
    <3>1. starter[req[u]] = u /\ req[u] \notin Purged
      BY <2>2, <2>4
    <3>2. inflight[req[u]] # "none"
      BY <3>1, ReplayConstants DEF Served, NoEntryNoStarter
    <3>3. ~(req[u] = req[t] /\ Starts(t))
      BY <3>1, <3>2 DEF Starts, Remaining
    <3> QED BY <2>3, <3>1, <3>3
  <2>5. SUFFICES ASSUME NEW u \in Tasks, pc'[u] \in Owning, req'[u] \notin outlived'
                 PROVE  starter'[req'[u]] = u
    OBVIOUS
  <2>6. CASE u = t
    <3>1. Starts(t) /\ req'[t] = req[t]
      BY <2>1, <2>5, <2>6 DEF Finish, Goto, Owning
    <3> QED BY <2>3, <2>6, <3>1
  <2>7. CASE u # t
    <3>1. pc'[u] = pc[u] /\ req'[u] = req[u]
      BY <2>1, <2>7 DEF Finish, Goto
    <3> QED BY <2>4, <2>5, <3>1
  <2> QED BY <2>6, <2>7
<1>4. ASSUME NEW t \in Tasks, Resolve(t)
      PROVE  OwnersRegistered'
  <2>1. pc[t] = "resolve" /\ Finish(t) /\ starter' = [starter EXCEPT ![req[t]] = Nobody]
    BY <1>4 DEF Resolve
  <2>2. \A u \in Tasks : pc[u] \in Owning /\ u # t => req[u] # req[t] \/ req[u] \in outlived
    BY <2>1 DEF Owning
  <2>3. outlived' = outlived
    BY <1>4 DEF Resolve
  <2> QED BY <2>1, <2>2, <2>3 DEF Finish, Owning
<1>5. CASE Crash
  BY <1>5 DEF Crash, Owning
<1> QED
  BY <1>1, <1>2, <1>3, <1>4, <1>5 DEF Next, Step, vars, Ask, Connect, Disconnect,
     EarlyGiveUp, LateGiveUp, GiveUp, Reuse, Deliver, ReaderRefuses, EntryAges, ResponseAges, Gateway, tableVars

SteadyInv == TypeInv /\ Served /\ OwnersRegistered

LEMMA SteadyInit == Init => SteadyInv
BY InitTypes DEF SteadyInv, TypeInv, ResponsesReady, Init, Served, EntriesAreServed,
   NoEntryNoStarter, OwnersRegistered, Owning

LEMMA SteadyStep == SteadyInv /\ [Next]_vars => SteadyInv'
BY TypeStep, ServedStep, OwnersStep DEF SteadyInv

\* As long as no handler has outlived the in-flight entry it made, the handlers
\* of one id's messages never execute it side by side (register_inflight_request).
THEOREM ExecutionsExclude == Spec => []SingleExecution
<1>1. SteadyInv => SingleExecution
  BY DEF SteadyInv, OwnersRegistered, SingleExecution
<1> QED BY <1>1, SteadyInit, SteadyStep, PTL DEF Spec

----------------------------------------------------------------------------
(* Nobody waits in silence.                                                *)

\* What NoSilentWait says of one request that is waiting for its response.
Heard(i) ==
  \/ Message(link, i) \in wire
  \/ \E t \in Tasks : pc[t] \in {"lookup", "register"} /\ req[t] = i /\ conn[t] = link
  \/ link \in waiters[i]
  \/ \E r \in replies : r.id = i

WaitsFor(i) == asked[i] = "pending" /\ up /\ sentOn[i] = link

LEMMA LinksStep ==
  ASSUME TypeInv, LinksInOrder, [Next]_vars
  PROVE  LinksInOrder'
<1> USE ReplayConstants DEF TypeInv, TypeOK, BrowserTypes, LinksInOrder, Conns
<1>1. CASE Ask \/ GiveUp(Ids) \/ Deliver
  <2>1. Flush /\ UNCHANGED <<link, up>>
    BY <1>1 DEF Ask, GiveUp, Deliver
  <2>2. \A i \in Ids : asked'[i] = "new" => asked[i] = "new"
    BY <1>1 DEF Ask, GiveUp, Deliver, Settled, Payloads
  <2> QED BY <2>1, <2>2, FlushSends
<1>2. CASE Connect
  <2>1. Flush /\ link' = link + 1
    BY <1>2 DEF Connect
  <2>2. \A i \in Ids : asked'[i] = "new" => asked[i] = "new"
    BY <1>2 DEF Connect, Rejected
  <2> QED BY <2>1, <2>2, FlushSends
<1>3. CASE Disconnect \/ Crash
  BY <1>3 DEF Disconnect, Crash
<1>4. CASE UNCHANGED <<asked, sentOn, link, up>>
  BY <1>4
<1> QED
  BY <1>1, <1>2, <1>3, <1>4, GivesUp DEF TableTypes, Next, Step, vars, Reuse, ReaderRefuses,
     Receive, Lookup, Register, TakeSlot, NoSlot, Execute, Store, Resolve, Undisturbed,
     EntryAges, ResponseAges, browserVars

\* A response to the open connection is on its way once it is queued.
LEMMA Responded ==
  ASSUME NEW C, NEW i \in Ids, NEW a, up, link \in C, Respond(C, i, a)
  PROVE  \E r \in replies' : r.id = i
<1> DEFINE r == [id |-> i, answer |-> a]
<1>1. r \in replies' /\ r.id = i
  BY DEF Respond
<1> QED BY <1>1

LEMMA RespondKeeps ==
  ASSUME NEW C, NEW i \in Ids, NEW a, Respond(C, i, a)
  PROVE  replies \subseteq replies'
BY DEF Respond

\* A handler's step before, at, or after its decision loses no waiting request.
LEMMA HandlerHears ==
  ASSUME SteadyInv, NEW i \in Ids, WaitsFor(i), Heard(i), i \notin outlived',
         NEW t \in Tasks, Receive(t) \/ Step(t)
  PROVE  Heard(i)'
<1> USE DEF SteadyInv, TypeInv, TypeOK, TaskTypes, TableTypes, WaitsFor
<1>1. UNCHANGED browserVars
  BY DEF Receive, Step, Lookup, Register, TakeSlot, NoSlot, Execute, Store, Resolve, Undisturbed
<1>2. CASE Receive(t)
  <2>1. replies' = replies /\ waiters' = waiters
    BY <1>2 DEF Receive, tableVars
  <2>2. Message(link, i) \in wire =>
          Message(link, i) \in wire' \/ (pc'[t] = "lookup" /\ req'[t] = i /\ conn'[t] = link)
    BY <1>2 DEF Receive, Message
  <2>3. \A u \in Tasks : pc[u] \in {"lookup", "register"} =>
          pc'[u] = pc[u] /\ req'[u] = req[u] /\ conn'[u] = conn[u]
    BY <1>2 DEF Receive
  <2> QED BY <1>1, <2>1, <2>2, <2>3 DEF Heard, Message, browserVars
<1>3. CASE Lookup(t)
  <2>1. waiters' = waiters /\ wire' = wire
    BY <1>3 DEF Lookup, tableVars
  <2>2. replies \subseteq replies'
    BY <1>3, RespondKeeps DEF Lookup
  <2>3. \A u \in Tasks : u # t => pc'[u] = pc[u] /\ req'[u] = req[u] /\ conn'[u] = conn[u]
    BY <1>3 DEF Lookup, Finish, Goto
  <2>4. req[t] = i /\ conn[t] = link => Heard(i)'
    <3>1. SUFFICES ASSUME req[t] = i, conn[t] = link PROVE Heard(i)'
      OBVIOUS
    <3>2. \/ \E a \in Settled : Respond({conn[t]}, i, a)
          \/ Goto(t, "register")
      BY <1>3, <3>1 DEF Lookup, Settled, Payload, Payloads
    <3>3. CASE \E a \in Settled : Respond({conn[t]}, i, a)
      BY <3>1, <3>3, Responded DEF Heard
    <3>4. CASE Goto(t, "register")
      BY <1>1, <3>1, <3>4 DEF Heard, Goto, browserVars
    <3> QED BY <3>2, <3>3, <3>4
  <2> QED BY <1>1, <2>1, <2>2, <2>3, <2>4 DEF Heard, Message, browserVars
<1>4. CASE Register(t)
  <2>1. wire' = wire
    BY <1>4 DEF Register
  <2>2. replies \subseteq replies'
    BY <1>4, RespondKeeps DEF Register
  <2>3. \A u \in Tasks : u # t => pc'[u] = pc[u] /\ req'[u] = req[u] /\ conn'[u] = conn[u]
    BY <1>4 DEF Register, Finish, Goto
  <2>4. waiters[i] \subseteq waiters'[i]
    BY <1>4 DEF Register
  <2>5. req[t] = i /\ conn[t] = link => Heard(i)'
    <3>1. SUFFICES ASSUME req[t] = i, conn[t] = link PROVE Heard(i)'
      OBVIOUS
    <3>2. CASE Starts(t) \/ Joins(t)
      <4>1. link \in waiters'[i]
        BY <1>4, <3>1, <3>2 DEF Register
      <4> QED BY <1>1, <4>1 DEF Heard, browserVars
    <3>3. CASE ~Starts(t) /\ ~Joins(t)
      <4>1. Respond({conn[t]}, i, "failed")
        BY <1>4, <3>1, <3>3 DEF Register
      <4> QED BY <3>1, <4>1, Responded DEF Heard
    <3> QED BY <3>2, <3>3
  <2> QED BY <1>1, <2>1, <2>2, <2>3, <2>4, <2>5 DEF Heard, Message, browserVars
<1>5. CASE TakeSlot(t) \/ NoSlot(t) \/ Execute(t) \/ Store(t)
  <2>1. wire' = wire /\ replies' = replies /\ waiters' = waiters
    BY <1>5 DEF TakeSlot, NoSlot, Execute, Store, Undisturbed, tableVars
  <2>2. \A u \in Tasks : pc[u] \in {"lookup", "register"} =>
          pc'[u] = pc[u] /\ req'[u] = req[u] /\ conn'[u] = conn[u]
    BY <1>5 DEF TakeSlot, NoSlot, Execute, Store, Goto
  <2> QED BY <1>1, <2>1, <2>2 DEF Heard, Message, browserVars
<1>6. CASE Resolve(t)
  <2>1. wire' = wire /\ pc[t] = "resolve" /\ Finish(t)
    BY <1>6 DEF Resolve
  <2>2. Respond(waiters[req[t]], req[t], outcome[t])
    BY <1>6 DEF Resolve, Audience
  <2>3. replies \subseteq replies'
    BY <2>2, RespondKeeps
  <2>4. \A u \in Tasks : pc[u] \in {"lookup", "register"} =>
          pc'[u] = pc[u] /\ req'[u] = req[u] /\ conn'[u] = conn[u]
    BY <2>1 DEF Finish
  <2>5. link \in waiters[i] => link \in waiters'[i] \/ \E r \in replies' : r.id = i
    <3>1. CASE i = req[t]
      BY <2>2, <3>1, Responded
    <3>2. CASE i # req[t]
      BY <1>6, <3>2 DEF Resolve
    <3> QED BY <3>1, <3>2
  <2> QED BY <1>1, <2>1, <2>3, <2>4, <2>5 DEF Heard, Message, browserVars
<1> QED BY <1>2, <1>3, <1>4, <1>5, <1>6 DEF Step

LEMMA OutlivedGrows ==
  ASSUME [Next]_vars
  PROVE  outlived \subseteq outlived'
<1>1. CASE \E t \in Tasks : Receive(t) \/ Step(t)
  BY <1>1 DEF Receive, Step, Lookup, Register, TakeSlot, NoSlot, Execute, Store, Resolve,
     Undisturbed, tableVars
<1>2. CASE ~\E t \in Tasks : Receive(t) \/ Step(t)
  BY <1>2 DEF Next, vars, Ask, Connect, Disconnect, EarlyGiveUp, LateGiveUp, GiveUp, Reuse, Deliver, ReaderRefuses,
     EntryAges, ResponseAges, Crash, Gateway, tableVars
<1> QED BY <1>1, <1>2

LEMMA SilenceStep ==
  ASSUME SteadyInv, LinksInOrder, NoSilentWait, [Next]_vars
  PROVE  NoSilentWait'
<1> USE DEF SteadyInv, TypeInv, TypeOK, BrowserTypes
<1>0. \A i \in Ids \ outlived : WaitsFor(i) => Heard(i)
  BY DEF NoSilentWait, WaitsFor, Heard
<1>a. outlived \subseteq outlived'
  BY OutlivedGrows
<1>1. SUFFICES ASSUME NEW i \in Ids, WaitsFor(i)', i \notin outlived'
               PROVE  Heard(i)'
  BY DEF NoSilentWait, WaitsFor, Heard
<1>b. i \notin outlived
  BY <1>1, <1>a
<1>2. CASE \E t \in Tasks : Receive(t) \/ Step(t)
  <2> PICK t \in Tasks : Receive(t) \/ Step(t)
    BY <1>2
  <2>1. WaitsFor(i)
    BY <1>1 DEF WaitsFor, Receive, Step, Lookup, Register, TakeSlot, NoSlot, Execute, Store,
       Resolve, Undisturbed, browserVars
  <2> QED BY <1>0, <1>1, <1>b, <2>1, HandlerHears
<1>3. CASE UNCHANGED vars \/ EntryAges \/ ResponseAges
  BY <1>0, <1>b, <1>1, <1>3 DEF WaitsFor, Heard, Message, vars, EntryAges, ResponseAges,
     browserVars, tableVars, taskVars
<1>c. Flush => sentOn'[i] = sentOn[i] \/ Heard(i)'
  BY <1>1, FlushSends DEF Heard, Conns
<1>4. CASE Reuse
  BY <1>0, <1>b, <1>1, <1>4 DEF WaitsFor, Heard, Message, Reuse, Gateway, browserVars,
     tableVars, taskVars
<1>5. CASE Ask \/ GiveUp(Ids)
  <2>1. Flush /\ wire \subseteq wire' /\ UNCHANGED <<link, up, replies, Gateway>>
    BY <1>5, FlushSends DEF Ask, GiveUp, Conns
  <2>2. sentOn'[i] = sentOn[i] => Heard(i) \/ asked[i] # "pending"
    BY <1>0, <1>b, <1>1, <2>1 DEF WaitsFor
  <2>3. asked[i] # "pending" => Ask
    BY <1>1, <1>5 DEF GiveUp, WaitsFor
  <2>4. Ask /\ asked[i] # "pending" => sentOn[i] # link
    <3>1. Ask /\ asked[i] # "pending" => asked[i] = "new"
      BY <1>1 DEF Ask, WaitsFor
    <3>2. up /\ link # 0
      BY <1>1, <2>1 DEF WaitsFor, LinksInOrder
    <3> QED BY <3>1, <3>2 DEF LinksInOrder
  <2>5. sentOn'[i] = link
    BY <1>1, <2>1 DEF WaitsFor
  <2> QED BY <1>c, <2>1, <2>2, <2>3, <2>4, <2>5 DEF Heard, Message, Gateway, tableVars, taskVars
<1>6. CASE Connect
  <2>1. sentOn[i] # link' /\ Flush
    BY <1>6, ReplayConstants DEF Connect, LinksInOrder, Conns
  <2> QED BY <1>1, <1>c, <2>1 DEF WaitsFor
<1>7. CASE Disconnect \/ Crash
  BY <1>1, <1>7 DEF WaitsFor, Disconnect, Crash
<1>8. CASE Deliver
  <2>1. Flush /\ wire \subseteq wire' /\ UNCHANGED <<link, up, Gateway>>
    BY <1>8, FlushSends DEF Deliver, Conns
  <2>2. PICK r \in replies : /\ replies' = replies \ {r}
                            /\ asked' = IF asked[r.id] = "pending" THEN [asked EXCEPT ![r.id] = r.answer]
                                                                   ELSE asked
    BY <1>8 DEF Deliver
  <2>3. asked'[i] = "pending" => asked[i] = "pending" /\ r.id # i
    BY <2>2 DEF Settled, Payloads
  <2>4. sentOn'[i] = sentOn[i] => Heard(i)
    BY <1>0, <1>b, <1>1, <2>1, <2>3 DEF WaitsFor
  <2> QED BY <1>1, <1>c, <2>1, <2>2, <2>3, <2>4 DEF WaitsFor, Heard, Message, Gateway, tableVars, taskVars
<1>9. CASE ReaderRefuses
  <2>1. PICK m \in wire : wire' = wire \ {m} /\ Respond({m.conn}, m.id, "failed")
    BY <1>9 DEF ReaderRefuses
  <2>2. WaitsFor(i) /\ UNCHANGED <<link, up, pc, req, conn, waiters>>
    BY <1>1, <1>9 DEF WaitsFor, ReaderRefuses, Gateway, browserVars, tableVars, taskVars
  <2>3. replies \subseteq replies'
    BY <2>1, RespondKeeps
  <2>4. CASE m = Message(link, i)
    <3>1. m.conn = link /\ m.id = i
      BY <2>4 DEF Message
    <3> QED BY <2>1, <2>2, <3>1, Responded DEF Heard, WaitsFor
  <2>5. CASE m # Message(link, i)
    BY <1>0, <1>b, <2>1, <2>2, <2>3, <2>5 DEF Heard, Message
  <2> QED BY <2>4, <2>5
<1> QED
  BY <1>2, <1>3, <1>4, <1>5, <1>6, <1>7, <1>8, <1>9, GivesUp DEF Next, TableTypes

\* Unless its handler outlives the in-flight entry, a browser that waits on an
\* open connection is answered by something: its message, its handler, the entry
\* it joined, or a response under way (the whole of handle_ws_message and
\* flushPending).
THEOREM NoRequestForgotten == Spec => []NoSilentWait
<1>1. Init => SteadyInv /\ LinksInOrder /\ NoSilentWait
  BY SteadyInit DEF Init, LinksInOrder, NoSilentWait
<1>2. SteadyInv /\ LinksInOrder /\ NoSilentWait /\ [Next]_vars
        => (SteadyInv /\ LinksInOrder /\ NoSilentWait)'
  BY SteadyStep, LinksStep, SilenceStep DEF SteadyInv
<1> QED BY <1>1, <1>2, PTL DEF Spec

----------------------------------------------------------------------------
(* A response belongs to the request.                                      *)

\* Those who wait at an entry, and the handler that registered it, asked for
\* the same; what a handler answers is an error or what its connection asked for.
WaitersFit ==
  \A i \in Ids : \A c \in waiters[i] : Payload(c) = inflight[i]
OwnersFit ==
  \A t \in Tasks : pc[t] \in Owning =>
    inflight[req[t]] = Payload(conn[t]) \/ req[t] \in outlived
OutcomesFit ==
  \A t \in Tasks : \/ outcome[t] = "failed"
                   \/ pc[t] \in {"store", "resolve"} /\ outcome[t] = Payload(conn[t])
RepliesFit ==
  \A r \in replies : r.answer = "other" => r.id \in outlived

TableFits == WaitersFit /\ OwnersFit /\ OutcomesFit

\* What another handler has on its hands, no handler's step touches.
LEMMA OthersUntouched ==
  ASSUME TypeInv, NEW t \in Tasks, Receive(t) \/ Step(t), NEW u \in Tasks, u # t
  PROVE  pc'[u] = pc[u] /\ req'[u] = req[u] /\ conn'[u] = conn[u] /\ outcome'[u] = outcome[u]
<1> USE DEF TypeInv, TypeOK, TaskTypes
<1>1. CASE Receive(t)
  BY <1>1 DEF Receive
<1>2. CASE Lookup(t)
  BY <1>2 DEF Lookup, Finish, Goto
<1>3. CASE Register(t)
  BY <1>3 DEF Register, Finish, Goto
<1>4. CASE TakeSlot(t) \/ NoSlot(t)
  BY <1>4 DEF TakeSlot, NoSlot, Undisturbed, Goto
<1>5. CASE Execute(t)
  BY <1>5 DEF Execute, Goto
<1>6. CASE Store(t)
  BY <1>6 DEF Store, Goto
<1>7. CASE Resolve(t)
  BY <1>7 DEF Resolve, Finish
<1> QED BY <1>1, <1>2, <1>3, <1>4, <1>5, <1>6, <1>7 DEF Step

\* A request joins an entry only with the payload that registered it, and a new
\* entry has its own.
LEMMA RegisterFits ==
  ASSUME SteadyInv, TableFits, NEW t \in Tasks, Register(t)
  PROVE  WaitersFit' /\ OwnersFit'
<1> USE DEF SteadyInv, TypeInv, TypeOK, TaskTypes, TableTypes
<1> DEFINE i == req[t]
<1>1. /\ inflight' = [j \in Ids |-> IF j = i /\ Starts(t) THEN Payload(conn[t])
                                    ELSE IF j \in Purged THEN "none" ELSE inflight[j]]
      /\ waiters' = [j \in Ids |->
           (IF j \in Purged THEN {} ELSE waiters[j])
             \cup (IF j = i /\ (Starts(t) \/ Joins(t)) THEN {conn[t]} ELSE {})]
      /\ outlived' = outlived \cup Purged
      /\ pc[t] = "register" /\ (IF Starts(t) THEN Goto(t, "slot") ELSE Finish(t))
  BY DEF Register, Joins, Starts
<1>2. \A c \in Conns : Payload(c) # "none"
  BY DEF Payload
<1>3. Starts(t) => i \in Purged \/ inflight[i] = "none"
  BY DEF Starts, Remaining
<1>4. Joins(t) => i \notin Purged /\ inflight[i] = Payload(conn[t])
  BY DEF Joins, Remaining
<1>5. ~ (Starts(t) /\ Joins(t))
  BY DEF Starts, Joins
<1>6. WaitersFit'
  <2> SUFFICES ASSUME NEW j \in Ids, NEW c \in waiters'[j]
               PROVE  Payload(c) = inflight'[j]
    BY DEF WaitersFit, Payload
  <2>1. CASE c \in waiters[j] /\ j \notin Purged
    <3>1. Payload(c) = inflight[j] /\ inflight[j] # "none"
      BY <1>2, <2>1 DEF TableFits, WaitersFit
    <3> QED BY <1>1, <1>3, <2>1, <3>1
  <2>2. CASE ~ (c \in waiters[j] /\ j \notin Purged)
    <3>1. j = i /\ c = conn[t] /\ (Starts(t) \/ Joins(t))
      BY <1>1, <2>2
    <3> QED BY <1>1, <1>4, <1>5, <3>1
  <2> QED BY <2>1, <2>2
<1>7. OwnersFit'
  <2> SUFFICES ASSUME NEW u \in Tasks, pc'[u] \in Owning, req'[u] \notin outlived'
               PROVE  inflight'[req'[u]] = Payload(conn'[u])
    BY DEF OwnersFit, Payload
  <2>1. CASE u = t
    <3>1. Starts(t) /\ req'[t] = i /\ conn'[t] = conn[t]
      BY <1>1, <2>1 DEF Finish, Goto, Owning
    <3> QED BY <1>1, <2>1, <3>1
  <2>2. CASE u # t
    <3>1. pc'[u] = pc[u] /\ req'[u] = req[u] /\ conn'[u] = conn[u]
      BY <2>2, OthersUntouched DEF Step
    <3>2. req[u] \notin outlived /\ req[u] \notin Purged
      BY <1>1, <3>1
    <3>3. inflight[req[u]] = Payload(conn[u]) /\ inflight[req[u]] # "none"
      BY <1>2, <3>1, <3>2 DEF TableFits, OwnersFit
    <3> QED BY <1>1, <1>3, <3>1, <3>2, <3>3
  <2> QED BY <2>1, <2>2
<1> QED BY <1>6, <1>7

\* Who waits, who owns and what is answered fit together after every step.
LEMMA TableFitsStep ==
  ASSUME SteadyInv, TableFits, [Next]_vars
  PROVE  TableFits'
<1> USE DEF SteadyInv, TypeInv, TypeOK, TaskTypes, TableTypes
<1>1. CASE UNCHANGED <<inflight, waiters, outlived, taskVars>>
  BY <1>1 DEF TableFits, WaitersFit, OwnersFit, OutcomesFit, Payload, taskVars
<1>2. CASE Crash
  BY <1>2 DEF Crash, TableFits, WaitersFit, OwnersFit, OutcomesFit, Owning
<1>3. ASSUME NEW t \in Tasks, Receive(t) \/ Step(t) PROVE OutcomesFit'
  <2>1. \/ outcome[t] = "failed"
        \/ pc[t] \in {"store", "resolve"} /\ outcome[t] = Payload(conn[t])
    BY DEF TableFits, OutcomesFit
  <2>2. \/ outcome'[t] = "failed"
        \/ pc'[t] \in {"store", "resolve"} /\ outcome'[t] = Payload(conn'[t])
    <3>1. CASE Receive(t)
      BY <2>1, <3>1 DEF Receive
    <3>2. CASE Lookup(t)
      BY <2>1, <3>2 DEF Lookup, Finish, Goto
    <3>3. CASE Register(t)
      BY <2>1, <3>3 DEF Register, Finish, Goto
    <3>4. CASE TakeSlot(t) \/ NoSlot(t)
      BY <2>1, <3>4 DEF TakeSlot, NoSlot, Undisturbed, Goto
    <3>5. CASE Execute(t)
      BY <3>5 DEF Execute, Goto
    <3>6. CASE Store(t)
      BY <2>1, <3>6 DEF Store, Goto
    <3>7. CASE Resolve(t)
      BY <3>7 DEF Resolve, Finish
    <3> QED BY <1>3, <3>1, <3>2, <3>3, <3>4, <3>5, <3>6, <3>7 DEF Step
  <2> QED BY <1>3, <2>2, OthersUntouched DEF TableFits, OutcomesFit, Payload
<1>4. ASSUME NEW t \in Tasks,
             Receive(t) \/ Lookup(t) \/ TakeSlot(t) \/ NoSlot(t) \/ Execute(t) \/ Store(t)
      PROVE  WaitersFit' /\ OwnersFit'
  <2>1. UNCHANGED <<inflight, waiters, outlived>>
    BY <1>4 DEF Receive, Lookup, TakeSlot, NoSlot, Execute, Store, Undisturbed, tableVars
  <2>2. pc'[t] \in Owning => pc[t] \in Owning /\ req'[t] = req[t] /\ conn'[t] = conn[t]
    <3>1. CASE Lookup(t)
      BY <3>1 DEF Lookup, Finish, Goto, Owning
    <3>2. CASE Receive(t) \/ Execute(t)
      BY <3>2 DEF Receive, Execute, Goto, Owning
    <3>3. CASE TakeSlot(t) \/ NoSlot(t)
      BY <3>3 DEF TakeSlot, NoSlot, Goto, Owning
    <3>4. CASE Store(t)
      BY <3>4 DEF Store, Goto, Owning
    <3> QED BY <1>4, <3>1, <3>2, <3>3, <3>4
  <2>3. \A u \in Tasks : u # t => pc'[u] = pc[u] /\ req'[u] = req[u] /\ conn'[u] = conn[u]
    BY <1>4, OthersUntouched DEF Step
  <2> QED BY <2>1, <2>2, <2>3 DEF TableFits, WaitersFit, OwnersFit, Payload
<1>5. ASSUME NEW t \in Tasks, Resolve(t)
      PROVE  WaitersFit' /\ OwnersFit'
  <2>1. /\ inflight' = [inflight EXCEPT ![req[t]] = "none"]
        /\ waiters' = [waiters EXCEPT ![req[t]] = {}]
        /\ outlived' = outlived /\ pc[t] = "resolve" /\ Finish(t)
    BY <1>5 DEF Resolve
  <2>2. WaitersFit'
    BY <2>1 DEF TableFits, WaitersFit, Payload
  <2>3. \A u \in Tasks : u # t => pc'[u] = pc[u] /\ req'[u] = req[u] /\ conn'[u] = conn[u]
    BY <2>1 DEF Finish
  <2>4. \A u \in Tasks : pc[u] \in Owning /\ u # t => req[u] # req[t] \/ req[u] \in outlived
    BY <2>1 DEF Owning, OwnersRegistered
  <2>5. pc'[t] \notin Owning
    BY <2>1 DEF Finish, Owning
  <2>6. OwnersFit'
    BY <2>1, <2>3, <2>4, <2>5 DEF TableFits, OwnersFit, Payload
  <2> QED BY <2>2, <2>6
<1> QED
  BY <1>1, <1>2, <1>3, <1>4, <1>5, RegisterFits
     DEF TableFits, Next, Step, vars, Ask, Connect, Disconnect, EarlyGiveUp, LateGiveUp, GiveUp, Reuse, Deliver,
         ReaderRefuses, EntryAges, ResponseAges, Gateway, tableVars

\* A response is an error, or of the request that the browser made, on its way
\* to the connection that the browser has.
LEMMA ResponseFits ==
  ASSUME LinksInOrder, RepliesFit, outlived \subseteq outlived',
         NEW C, NEW i \in Ids, NEW a, Respond(C, i, a),
         up /\ link \in C => a # "other" \/ i \in outlived
  PROVE  RepliesFit'
BY DEF Respond, RepliesFit

\* Every response that reaches the browser fits what it asked.
LEMMA RepliesStep ==
  ASSUME SteadyInv, LinksInOrder, TableFits, RepliesFit, [Next]_vars
  PROVE  RepliesFit'
<1> USE DEF SteadyInv, TypeInv, TypeOK, TaskTypes, TableTypes
<1>1. outlived \subseteq outlived'
  BY OutlivedGrows
<1>2. up => link # 0 /\ Payload(link) = "mine"
  BY DEF LinksInOrder, Payload
<1>3. CASE replies' \subseteq replies
  BY <1>1, <1>3 DEF RepliesFit
<1>4. ASSUME NEW t \in Tasks, Lookup(t) PROVE RepliesFit'
  <2>1. \/ replies' = replies
        \/ \E a : Respond({conn[t]}, req[t], a) /\ a \in {"failed", Payload(conn[t])}
    BY <1>4 DEF Lookup
  <2> QED BY <1>1, <1>2, <1>3, <2>1, ResponseFits
<1>5. ASSUME NEW t \in Tasks, Register(t) PROVE RepliesFit'
  <2>1. replies' = replies \/ Respond({conn[t]}, req[t], "failed")
    BY <1>5 DEF Register
  <2> QED BY <1>1, <1>3, <2>1, ResponseFits
<1>6. ASSUME NEW t \in Tasks, Resolve(t) PROVE RepliesFit'
  <2> DEFINE i == req[t]
  <2>1. pc[t] = "resolve" /\ Respond(waiters[i], i, outcome[t])
    BY <1>6 DEF Resolve, Audience
  <2>2. i \in outlived \/ inflight[i] = Payload(conn[t])
    BY <2>1 DEF TableFits, OwnersFit, Owning
  <2>3. outcome[t] \in {"failed", Payload(conn[t])}
    BY DEF TableFits, OutcomesFit
  <2>4. up /\ link \in waiters[i] => outcome[t] # "other" \/ i \in outlived
    BY <1>2, <2>2, <2>3 DEF TableFits, WaitersFit
  <2> QED BY <1>1, <2>1, <2>4, ResponseFits
<1>7. CASE ReaderRefuses
  <2>1. PICK m \in wire : Respond({m.conn}, m.id, "failed")
    BY <1>7 DEF ReaderRefuses
  <2>2. m.id \in Ids
    BY DEF BrowserTypes
  <2> QED BY <1>1, <2>1, <2>2, ResponseFits
<1> QED
  BY <1>3, <1>4, <1>5, <1>6, <1>7
     DEF Next, Step, vars, Receive, TakeSlot, NoSlot, Execute, Store, Undisturbed, Ask, Connect,
         Disconnect, EarlyGiveUp, LateGiveUp, GiveUp, Reuse, Deliver, EntryAges, ResponseAges, Crash, browserVars

\* A request is settled by a response, a refusal or the browser's own time-out.
LEMMA FitsStep ==
  ASSUME SteadyInv, RepliesFit, AnswerFits, [Next]_vars
  PROVE  AnswerFits'
<1> USE DEF SteadyInv, TypeInv, TypeOK, BrowserTypes, AnswerFits
<1>1. outlived \subseteq outlived'
  BY OutlivedGrows
<1>2. CASE asked' = asked
  BY <1>1, <1>2
<1>3. CASE Ask
  BY <1>1, <1>3 DEF Ask
<1>4. CASE Connect
  BY <1>1, <1>4 DEF Connect, Rejected
<1>5. CASE EarlyGiveUp \/ LateGiveUp
  <2>1. GiveUp(Ids)
    BY <1>5, GivesUp DEF TableTypes
  <2> QED BY <1>1, <2>1 DEF GiveUp
<1>6. CASE Deliver
  <2>1. PICK r \in replies :
          asked' = IF asked[r.id] = "pending" THEN [asked EXCEPT ![r.id] = r.answer] ELSE asked
    BY <1>6 DEF Deliver
  <2>2. r.id \in Ids /\ (r.answer = "other" => r.id \in outlived)
    BY DEF RepliesFit
  <2> QED BY <1>1, <2>1, <2>2
<1> QED
  BY <1>2, <1>3, <1>4, <1>5, <1>6
     DEF Next, Step, vars, browserVars, Receive, Lookup, Register, TakeSlot, NoSlot, Execute,
         Store, Resolve, Undisturbed, Disconnect, Reuse, ReaderRefuses, EntryAges, ResponseAges,
         Crash

\* Whatever another browser sends under the same id, and whatever is replayed, cached or
\* joined: a request is settled with an error or with its own response, unless its handler
\* outlived the in-flight entry (params_hash in cached_response and register_inflight_request).
THEOREM ResponsesBelong == Spec => []AnswerFits
<1> DEFINE Inv == SteadyInv /\ LinksInOrder /\ TableFits /\ RepliesFit /\ AnswerFits
<1>1. Init => Inv
  BY SteadyInit
     DEF Init, LinksInOrder, TableFits, WaitersFit, OwnersFit, OutcomesFit, RepliesFit,
         AnswerFits, Owning
<1>2. Inv /\ [Next]_vars => Inv'
  BY SteadyStep, LinksStep, TableFitsStep, RepliesStep, FitsStep DEF SteadyInv
<1>3. Inv => AnswerFits
  OBVIOUS
<1> QED BY <1>1, <1>2, <1>3, PTL DEF Spec
=============================================================================
