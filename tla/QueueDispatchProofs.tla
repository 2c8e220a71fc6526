------------------------- MODULE QueueDispatchProofs -------------------------
(* Theorems about QueueDispatch, for every set of items, requests and      *)
(* workers, every choice of UserOps and Faults, and every bound.           *)
EXTENDS QueueDispatch, SequenceTheorems, FiniteSetTheorems, TLAPS

\* Taking an element out of a sequence over S leaves a sequence over S.
LEMMA RemoveAtType ==
  ASSUME NEW S, NEW s \in Seq(S), NEW k \in DOMAIN s
  PROVE  RemoveAt(s, k) \in Seq(S)
<1>1. k \in 1..Len(s) /\ Len(s) \in Nat
  BY LenProperties
<1>2. SubSeq(s, 1, k - 1) \in Seq(S)
  <2>1. \A i \in 1..(k - 1) : s[i] \in S
    BY <1>1, ElementOfSeq
  <2> QED BY <1>1, <2>1, SubSeqProperties
<1>3. SubSeq(s, k + 1, Len(s)) \in Seq(S)
  <2>1. \A i \in (k + 1)..Len(s) : s[i] \in S
    BY <1>1, ElementOfSeq
  <2> QED BY <1>1, <2>1, SubSeqProperties
<1> QED BY <1>2, <1>3, ConcatProperties DEF RemoveAt

\* A sequence rearranged by its own positions is a sequence over the same set.
LEMMA RearrangedType ==
  ASSUME NEW S, NEW s \in Seq(S), NEW p \in [DOMAIN s -> DOMAIN s]
  PROVE  [k \in DOMAIN s |-> s[p[k]]] \in Seq(S)
<1>1. DOMAIN s = 1..Len(s) /\ Len(s) \in Nat
  BY LenProperties
<1>2. \A k \in 1..Len(s) : s[p[k]] \in S
  BY <1>1, ElementOfSeq
<1>3. [k \in 1..Len(s) |-> s[p[k]]] \in [1..Len(s) -> S]
  BY <1>2
<1> QED BY <1>1, <1>3, SeqDef

----------------------------------------------------------------------------
(* The inductive invariant.                                                *)

\* Where a task is past the choice of its item.
Chosen == {"probe", "claim", "send", "accept", "accepted", "remove", "unclaim", "fail"}

\* Only ids that were handed out are queued or carried, so no enqueue changes
\* the client id of an item that a task carries.
QueueInUse ==
  /\ order \in Seq(used)
  /\ \A i \in Items : Queued(i) => i \in used
ItemInUse(w) ==
  /\ pc[w] \in Chosen => item[w] \in used
  /\ pc[w] = "find" => task[w] # "drain"
  /\ pc[w] \in {"pending", "read"} => task[w] = "drain"
  /\ pc[w] \in {"recover", "find"} /\ task[w] # "drain" => item[w] \in Items
InUse == QueueInUse /\ \A w \in Workers : ItemInUse(w)

\* A task waits for app-server under the session's operation lock, with an id
\* that app-server has not taken since the gateway last forgot it, and that is
\* remembered from the start if it steers.
InFlight ==
  \A w \in Workers :
    /\ Asking(w) => sessionLock = w /\ Key(item[w]) \notin unanswered
    /\ pc[w] = "accept" => delivered[Key(item[w])] <= forgiven[Key(item[w])]
    /\ Asking(w) /\ task[w] = "steer" => Key(item[w]) \in recent

\* What app-server took and the gateway did not forget is remembered, or its
\* answer is under way; what it may still take is remembered and not yet taken.
Accounted ==
  \A k \in Keys :
    /\ delivered[k] > forgiven[k] =>
         \/ k \in recent
         \/ \E w \in Workers : pc[w] = "accepted" /\ Key(item[w]) = k
    /\ k \in unanswered => k \in recent /\ delivered[k] <= forgiven[k]

TypeInv == TypeOK /\ InUse
SentInv == InFlight /\ Accounted /\ AtMostOnce

\* The steps that change the queue.
LEMMA QueueMoves ==
  ASSUME [Next]_vars
  PROVE  \/ Enqueue \/ RemoveItem \/ UpdateWrite \/ Reorder \/ ResumeWrite
            \/ MarkPendingResume
         \/ \E w \in Workers :
              RecoverOrphans(w) \/ Claim(w) \/ RemoveSent(w)
              \/ Unclaim(w) \/ MarkFailed(w)
         \/ UNCHANGED <<queueVars, used, removed>>
  BY DEF Next, Users, Step, Failure, vars, queueVars, guardVars, workVars,
    userVars, turnVars, engineVars, UpdateRead, ResumeCheck, WakeDrain, RequestEnds,
    DrainFindsBusy, RetryFires, ManualFindsBusy, DirectSend, Idle, DirectAnswered, Fault,
    NoFault, ReconcileStart, LateAccept, LeftStart, TurnEnds, Ages, Crash, BeginDrain,
    BeginManual, FindItem, Watching, CheckPendingStart, ReadQueue, ReadFails,
    ProbeActivity, Send, EngineAccepts, Answered, Requesting, StartTimesOut,
    RequestRefused, Forgets, RequestInterrupted, Continue, Quiet, Dropped, Release

\* The steps that change the turn, or what app-server and the gateway know of a message.
LEMMA EngineMoves ==
  ASSUME [Next]_vars
  PROVE  \/ DirectSend \/ DirectAnswered \/ ReconcileStart \/ LateAccept \/ LeftStart
            \/ TurnEnds \/ Ages \/ Crash
         \/ \E w \in Workers :
              CheckPendingStart(w) \/ ProbeActivity(w) \/ Send(w) \/ EngineAccepts(w)
              \/ Answered(w) \/ StartTimesOut(w) \/ RequestRefused(w) \/ RequestInterrupted(w)
              \/ Dropped(w)
         \/ UNCHANGED <<turnVars, engineVars, recent>>
  BY DEF Next, Users, Step, Failure, vars, queueVars, guardVars, workVars,
    userVars, turnVars, engineVars, Enqueue, EnqueueAgain, EnqueueNew,
    RemoveItem, Drop, UpdateRead, UpdateWrite, Reorder, ResumeCheck,
    ResumeWrite, WakeDrain, RequestEnds, DrainFindsBusy, RetryFires, ManualFindsBusy,
    MarkPendingResume, BeginDrain, BeginManual, RecoverOrphans, FindItem,
    Watching, ReadQueue, ReadFails, Claim, RemoveSent, Continue, Quiet, Unclaim,
    MarkFailed, Release

----------------------------------------------------------------------------
(* Types, and the use of ids.                                              *)

\* No step breaks the types of the persisted queue, and the ids in it are used.
LEMMA QueueStep ==
  ASSUME TypeInv, [Next]_vars
  PROVE  QueueTypes' /\ QueueInUse'
<1> USE DEF TypeInv, TypeOK, QueueTypes, InUse, QueueInUse, Queued,
        Dispatching
<1>1. order \in Seq(Items) /\ order \in Seq(used)
  OBVIOUS
<1>2. ASSUME NEW k \in DOMAIN order
      PROVE  RemoveAt(order, k) \in Seq(Items) /\ RemoveAt(order, k) \in Seq(used)
  BY <1>1, RemoveAtType
<1>3. CASE Enqueue
  <2>1. CASE \E r \in Requests \cup {NoRequest} : EnqueueAgain(r)
    BY <1>3, <2>1 DEF Enqueue, EnqueueAgain, AlreadyQueued, WithoutError
  <2>2. ASSUME NEW r \in Requests \cup {NoRequest}, EnqueueNew(r)
        PROVE  QueueTypes' /\ QueueInUse'
    <3>1. PICK i \in Items \ used :
            /\ order' = Append(order, i)
            /\ status' = [status EXCEPT ![i] = "waiting"]
            /\ request' = [request EXCEPT ![i] = r]
            /\ used' = used \cup {i}
      BY <2>2 DEF EnqueueNew
    <3>2. order' \in Seq(Items) /\ order' \in Seq(used')
      <4>1. order \in Seq(used \cup {i})
        BY <1>1, SeqMonotonic
      <4> QED BY <1>1, <3>1, <4>1
    <3> QED BY <1>3, <2>2, <3>1, <3>2 DEF Enqueue, EnqueueNew
  <2> QED BY <1>3, <2>1, <2>2 DEF Enqueue
<1>4. CASE RemoveItem
  BY <1>2, <1>4 DEF RemoveItem, Drop
<1>5. CASE UpdateWrite
  <2>1. CASE Editable(updating)
    BY <1>5, <2>1 DEF UpdateWrite, Editable
  <2>2. CASE ~Editable(updating)
    BY <1>5, <2>2 DEF UpdateWrite
  <2> QED BY <2>1, <2>2
<1>6. CASE Reorder
  <2>1. PICK p \in [DOMAIN order -> DOMAIN order] : order' = [k \in DOMAIN order |-> order[p[k]]]
    BY <1>6 DEF Reorder
  <2>2. order' \in Seq(Items) /\ order' \in Seq(used)
    BY <1>1, <2>1, RearrangedType
  <2> QED BY <1>6, <2>2 DEF Reorder
<1>7. CASE ResumeWrite \/ MarkPendingResume
  BY <1>7 DEF ResumeWrite, MarkPendingResume
<1>8. ASSUME NEW w \in Workers, RemoveSent(w)
      PROVE  QueueTypes' /\ QueueInUse'
  <2>1. CASE Queued(item[w])
    <3>1. Drop(item[w]) /\ UNCHANGED <<request, edition, used, removed>>
      BY <1>8, <2>1 DEF RemoveSent, Quiet
    <3> QED BY <1>2, <3>1 DEF Drop
  <2>2. CASE ~Queued(item[w])
    BY <1>8, <2>2 DEF RemoveSent, Quiet
  <2> QED BY <2>1, <2>2
<1>9. ASSUME NEW w \in Workers, RecoverOrphans(w) \/ Claim(w) \/ Unclaim(w) \/ MarkFailed(w)
      PROVE  QueueTypes' /\ QueueInUse'
  BY <1>9 DEF RecoverOrphans, Claim, Unclaim, WithoutClaim, MarkFailed, Quiet
<1>10. CASE UNCHANGED <<queueVars, used, removed>>
  BY <1>10 DEF queueVars
<1> QED
  BY <1>3, <1>4, <1>5, <1>6, <1>7, <1>8, <1>9, <1>10, QueueMoves

----------------------------------------------------------------------------
(* The path of a task through the guarded section.                         *)

\* Where a task can go from where it is.
Flow == {<<"recover", "pending">>, <<"recover", "find">>, <<"recover", "release">>,
         <<"find", "claim">>, <<"find", "release">>,
         <<"pending", "read">>, <<"pending", "release">>,
         <<"read", "probe">>, <<"read", "release">>,
         <<"probe", "claim">>, <<"probe", "release">>,
         <<"claim", "send">>, <<"claim", "fail">>, <<"claim", "release">>,
         <<"send", "accept">>, <<"send", "remove">>, <<"send", "unclaim">>,
         <<"send", "release">>,
         <<"accept", "accepted">>, <<"accept", "remove">>, <<"accept", "unclaim">>,
         <<"accept", "release">>,
         <<"accepted", "remove">>, <<"accepted", "unclaim">>, <<"accepted", "release">>,
         <<"remove", "continue">>, <<"remove", "release">>, <<"continue", "release">>,
         <<"unclaim", "release">>, <<"unclaim", "fail">>, <<"fail", "release">>}

\* A step of the task w that stays inside the guard.
Advance(w) ==
  /\ \E f \in Flow :
       /\ pc[w] = f[1] /\ pc' = [pc EXCEPT ![w] = f[2]]
       /\ f[2] = "find" => task[w] # "drain"
       /\ f[2] = "pending" => task[w] = "drain"
       /\ f = <<"find", "claim">> => Queued(item[w])
  /\ IF pc'[w] = "probe" THEN order # <<>> /\ item' = [item EXCEPT ![w] = Head(order)]
                          ELSE item' = item
  /\ \/ carried' = carried
     \/ pc[w] = "claim" /\ carried' = [carried EXCEPT ![w] = edition[item[w]]]
  /\ \/ failure' = failure
     \/ \E class \in {"transient", "permanent"} : failure' = [failure EXCEPT ![w] = class]
  /\ UNCHANGED <<holder, task, used>>

\* A step of a task inside the guard follows Flow, or leaves the guard.
LEMMA ControlFlow ==
  ASSUME NEW w \in Workers, WorkTypes, Step(w) \/ Failure(w)
  PROVE  Advance(w) \/ Release(w)
<1> USE DEF WorkTypes, Advance, Flow, Queued, Goto, LeaveQuietly, LeaveAndRetry,
    Refused, queueVars, guardVars
<1>1. CASE RecoverOrphans(w)
  BY <1>1 DEF RecoverOrphans
<1>2. CASE FindItem(w)
  BY <1>2 DEF FindItem, Watching
<1>3. CASE CheckPendingStart(w)
  BY <1>3 DEF CheckPendingStart, Watching
<1>4. CASE ReadQueue(w)
  BY <1>4 DEF ReadQueue, Watching, NothingToDrain
<1>5. CASE ProbeActivity(w)
  BY <1>5 DEF ProbeActivity, Watching
<1>6. CASE Claim(w)
  BY <1>6 DEF Claim
<1>7. CASE Send(w)
  BY <1>7 DEF Send
<1>8. CASE EngineAccepts(w)
  BY <1>8 DEF EngineAccepts
<1>9. CASE Answered(w)
  BY <1>9 DEF Answered, Requesting
<1>10. CASE StartTimesOut(w)
  BY <1>10 DEF StartTimesOut, Requesting
<1>11. CASE RequestRefused(w)
  BY <1>11 DEF RequestRefused, Requesting
<1>12. CASE RequestInterrupted(w)
  BY <1>12 DEF RequestInterrupted, Requesting
<1>13. CASE RemoveSent(w)
  BY <1>13 DEF RemoveSent, Drop, Quiet
<1>14. CASE Unclaim(w)
  BY <1>14 DEF Unclaim, WithoutClaim, Quiet
<1>15. CASE MarkFailed(w)
  BY <1>15 DEF MarkFailed, Quiet
<1>16. CASE Continue(w)
  BY <1>16 DEF Continue, Quiet
<1>17. CASE ReadFails(w)
  BY <1>17 DEF ReadFails, Watching
<1>18. CASE Dropped(w)
  BY <1>18 DEF Dropped
<1> QED
  BY <1>1, <1>2, <1>3, <1>4, <1>5, <1>6, <1>7, <1>8, <1>9, <1>10, <1>11,
    <1>12, <1>13, <1>14, <1>15, <1>16, <1>17, <1>18 DEF Step, Failure

\* The task w enters the guard, and has an item if a browser named one.
Comes(w) == \E kind \in {"drain", "message", "steer"}, i \in Items \cup {Nobody} :
              Enter(w, kind, i) /\ (kind # "drain" => i \in Items) /\ UNCHANGED used

\* The steps that move a task: one enters the guard, goes on or leaves, or the
\* gateway dies with all of them.
LEMMA WorkMoves ==
  ASSUME TypeInv, [Next]_vars
  PROVE  \/ Crash
         \/ \E w \in Workers : Comes(w) \/ Advance(w) \/ Release(w)
         \/ UNCHANGED <<workVars, holder>> /\ used \subseteq used'
<1>1. CASE Crash
  BY <1>1
<1>2. ASSUME NEW w \in Workers, BeginDrain(w) \/ BeginManual(w)
      PROVE  Comes(w)
  BY <1>2 DEF BeginDrain, BeginManual, Comes
<1>3. ASSUME NEW w \in Workers, Step(w) \/ Failure(w)
      PROVE  Advance(w) \/ Release(w)
  BY <1>3, ControlFlow DEF TypeInv, TypeOK
<1>4. ASSUME Users, ~ \E w \in Workers : BeginManual(w)
      PROVE  UNCHANGED <<workVars, holder>> /\ used \subseteq used'
  BY <1>4 DEF Users, Enqueue, EnqueueAgain, EnqueueNew, RemoveItem, UpdateRead,
      Reorder, ResumeCheck,
              DirectSend, Idle, ManualFindsBusy, guardVars
<1>5. ASSUME UpdateWrite \/ ResumeWrite \/ WakeDrain \/ RequestEnds \/ DrainFindsBusy
             \/ RetryFires \/ DirectAnswered \/ ReconcileStart \/ LateAccept \/ LeftStart
             \/ TurnEnds \/ Ages \/ MarkPendingResume \/ UNCHANGED vars
      PROVE  UNCHANGED <<workVars, holder>> /\ used \subseteq used'
  BY <1>5 DEF UpdateWrite, ResumeWrite, WakeDrain, RequestEnds, DrainFindsBusy, RetryFires,
     DirectAnswered, ReconcileStart, LateAccept, LeftStart, TurnEnds, Ages, MarkPendingResume,
     Idle, vars, guardVars
<1> QED
  BY <1>1, <1>2, <1>3, <1>4, <1>5 DEF Next

\* Whatever a task does, what it carries keeps its type and its item stays in use.
LEMMA WorkStep ==
  ASSUME TypeInv, [Next]_vars
  PROVE  WorkTypes' /\ (\A w \in Workers : ItemInUse(w))'
<1> USE QueueConstants DEF TypeInv, TypeOK, QueueTypes, WorkTypes, InUse, QueueInUse, ItemInUse,
    Chosen, Queued
<1>1. CASE Crash
  BY <1>1 DEF Crash
<1>2. ASSUME NEW w \in Workers, Comes(w)
      PROVE  WorkTypes' /\ (\A v \in Workers : ItemInUse(v))'
  BY <1>2 DEF Comes, Enter
<1>3. ASSUME NEW w \in Workers, Advance(w)
      PROVE  WorkTypes' /\ (\A v \in Workers : ItemInUse(v))'
  <2>1. order # <<>> => Head(order) \in used
    BY HeadTailProperties
  <2>2. PICK f \in Flow :
          /\ pc[w] = f[1] /\ pc' = [pc EXCEPT ![w] = f[2]]
          /\ f[2] = "find" => task[w] # "drain"
          /\ f[2] = "pending" => task[w] = "drain"
          /\ f = <<"find", "claim">> => Queued(item[w])
    BY <1>3 DEF Advance
  <2>3. pc' \in [Workers -> {"idle", "recover", "find", "pending", "read", "probe", "claim", "send",
                            "accept", "accepted", "remove", "continue", "unclaim", "fail",
                            "release"}]
    BY <2>2 DEF Flow
  <2>4. \/ item' = item /\ f[2] # "probe"
        \/ f[2] = "probe" /\ order # <<>> /\ item' = [item EXCEPT ![w] = Head(order)]
    BY <1>3, <2>2 DEF Advance
  <2>5. item' \in [Workers -> Items \cup {Nobody}]
    BY <2>1, <2>4
  <2>6. carried' \in [Workers -> Nat]
    <3>1. pc[w] = "claim" => edition[item[w]] \in Nat
      OBVIOUS
    <3> QED BY <1>3, <3>1 DEF Advance
  <2>7. failure' \in [Workers -> {"none", "transient", "permanent"}]
    BY <1>3 DEF Advance
  <2>8. UNCHANGED <<holder, task, used>>
    BY <1>3 DEF Advance
  <2>9. ItemInUse(w)'
    <3>1. CASE f[2] = "probe"
      BY <2>1, <2>2, <2>4, <2>8, <3>1
    <3>2. CASE f = <<"find", "claim">>
      BY <2>2, <2>4, <2>8, <3>2
    <3>3. CASE f[2] # "probe" /\ f # <<"find", "claim">>
      BY <2>2, <2>4, <2>8, <3>3 DEF Flow
    <3> QED BY <3>1, <3>2, <3>3
  <2>10. ASSUME NEW v \in Workers, v # w PROVE ItemInUse(v)'
    BY <2>2, <2>4, <2>8, <2>10
  <2> QED
    BY <2>3, <2>5, <2>6, <2>7, <2>8, <2>9, <2>10
<1>4. ASSUME NEW w \in Workers, Release(w)
      PROVE  WorkTypes' /\ (\A v \in Workers : ItemInUse(v))'
  BY <1>4 DEF Release, Goto
<1>5. CASE UNCHANGED <<workVars, holder>> /\ used \subseteq used'
  BY <1>5 DEF workVars
<1> QED
  BY <1>1, <1>2, <1>3, <1>4, <1>5, WorkMoves

\* A task enters the guard only when nobody holds it, and leaves what it held.
LEMMA GuardStep ==
  ASSUME TypeInv, SingleDispatcher, [Next]_vars
  PROVE  SingleDispatcher'
<1> USE QueueConstants DEF TypeInv, TypeOK, WorkTypes, SingleDispatcher, Holds
<1>1. CASE Crash
  BY <1>1 DEF Crash
<1>2. ASSUME NEW w \in Workers, Comes(w) PROVE SingleDispatcher'
  BY <1>2 DEF Comes, Enter
<1>3. ASSUME NEW w \in Workers, Advance(w) PROVE SingleDispatcher'
  BY <1>3 DEF Advance, Flow
<1>4. ASSUME NEW w \in Workers, Release(w) PROVE SingleDispatcher'
  BY <1>4 DEF Release, Goto
<1>5. CASE UNCHANGED <<workVars, holder>>
  BY <1>5 DEF workVars
<1> QED
  BY <1>1, <1>2, <1>3, <1>4, <1>5, WorkMoves

----------------------------------------------------------------------------
(* The remaining types, and the first theorem.                             *)

\* The client id of an item is one.
LEMMA KeyType ==
  ASSUME TypeInv, NEW i \in Items
  PROVE  Key(i) \in Keys
BY DEF TypeInv, TypeOK, QueueTypes, Key, Keys

\* The turn and the knowledge about messages keep their types.
LEMMA EngineStep ==
  ASSUME TypeInv, [Next]_vars
  PROVE  EngineTypes'
<1> USE DEF TypeInv, TypeOK, EngineTypes, turnVars, engineVars
<1>1. CASE \/ DirectSend \/ DirectAnswered \/ ReconcileStart \/ LateAccept \/ LeftStart
           \/ TurnEnds \/ Ages
  BY <1>1 DEF DirectSend, DirectAnswered, ReconcileStart, LateAccept, LeftStart, TurnEnds, Ages,
     Idle
<1>2. CASE Crash
  BY <1>2 DEF Crash
<1>3. ASSUME NEW w \in Workers, CheckPendingStart(w) \/ ProbeActivity(w) PROVE EngineTypes'
  BY <1>3 DEF CheckPendingStart, ProbeActivity, Watching
<1>6. ASSUME NEW w \in Workers, Dropped(w) PROVE EngineTypes'
  <2>1. Asking(w) => Key(item[w]) \in Keys
    BY KeyType DEF InUse, ItemInUse, QueueTypes, Chosen, Asking
  <2> QED BY <1>6, <2>1 DEF Dropped, Asking
<1>4. ASSUME NEW w \in Workers,
             \/ Send(w) \/ EngineAccepts(w) \/ Answered(w) \/ StartTimesOut(w)
             \/ RequestRefused(w) \/ RequestInterrupted(w)
      PROVE  EngineTypes'
  <2>1. pc[w] \in Chosen
    BY <1>4 DEF Send, EngineAccepts, Answered, StartTimesOut, RequestRefused,
        RequestInterrupted, Chosen
  <2>2. Key(item[w]) \in Keys
    BY <2>1, KeyType DEF InUse, ItemInUse, QueueTypes
  <2>3. CASE Send(w)
    BY <2>2, <2>3 DEF Send
  <2>4. CASE EngineAccepts(w)
    BY <2>2, <2>4 DEF EngineAccepts
  <2>5. CASE Answered(w)
    BY <2>2, <2>5 DEF Answered, Remember, Requesting
  <2>6. CASE StartTimesOut(w)
    BY <2>2, <2>6 DEF StartTimesOut, Remember, Requesting
  <2>7. CASE RequestRefused(w)
    BY <2>2, <2>7 DEF RequestRefused, Forgets, Requesting
  <2>8. CASE RequestInterrupted(w)
    BY <2>2, <2>8 DEF RequestInterrupted, Forgets, Requesting
  <2> QED BY <1>4, <2>3, <2>4, <2>5, <2>6, <2>7, <2>8
<1>5. CASE UNCHANGED <<turnVars, engineVars, recent>>
  BY <1>5
<1> QED
  BY <1>1, <1>2, <1>3, <1>4, <1>5, <1>6, EngineMoves

\* Counters stay natural numbers.
LEMMA CountStep ==
  ASSUME TypeInv, [Next]_vars
  PROVE  CountTypes'
<1> USE DEF TypeInv, TypeOK, CountTypes, userVars, guardVars, Spawn, UserActs, Fault,
    NoFault
<1>1. CASE Users
  BY <1>1 DEF Users, Enqueue, RemoveItem, UpdateRead, Reorder, ResumeCheck,
      DirectSend, Idle,
              ManualFindsBusy, BeginManual, leftVars
<1>2. CASE \/ UpdateWrite \/ ResumeWrite \/ WakeDrain \/ RequestEnds \/ DrainFindsBusy
           \/ RetryFires \/ DirectAnswered \/ ReconcileStart \/ LateAccept \/ LeftStart
           \/ TurnEnds \/ Ages \/ Crash \/ MarkPendingResume \/ UNCHANGED vars
  BY <1>2 DEF UpdateWrite, ResumeWrite, WakeDrain, RequestEnds, DrainFindsBusy, RetryFires,
     DirectAnswered, ReconcileStart, LateAccept, LeftStart, TurnEnds, Ages, Crash,
     MarkPendingResume, Idle, leftVars, vars
<1>3. ASSUME NEW w \in Workers, BeginDrain(w) \/ Step(w) \/ Failure(w), ~Dropped(w)
      PROVE  CountTypes'
  BY <1>3 DEF BeginDrain, Step, Failure, RecoverOrphans, FindItem, CheckPendingStart,
      ReadQueue,
              ReadFails, ProbeActivity, Watching, Claim, Send, EngineAccepts, Answered,
              StartTimesOut, RequestRefused, RequestInterrupted, Requesting, RemoveSent, Continue,
              Unclaim, MarkFailed, Quiet, Release, LeaveQuietly, LeaveAndRetry, leftVars
<1>4. ASSUME NEW w \in Workers, Dropped(w)
      PROVE  CountTypes'
  <2>1. pc[w] \in Owning => item[w] \in Items
    BY DEF InUse, ItemInUse, QueueTypes, Chosen, Owning, Sending
  <2> QED BY <1>4, <2>1 DEF Dropped, LeaveQuietly
<1> QED
  BY <1>1, <1>2, <1>3, <1>4 DEF Next

\* Flags stay Boolean.
LEMMA FlagStep ==
  ASSUME TypeInv, [Next]_vars
  PROVE  FlagTypes'
<1> USE DEF TypeInv, TypeOK, FlagTypes, queueVars, userVars, guardVars
<1>1. CASE Users
  BY <1>1 DEF Users, Enqueue, RemoveItem, UpdateRead, Reorder, ResumeCheck,
      DirectSend, Idle,
              ManualFindsBusy, BeginManual, leftVars
<1>2. CASE \/ UpdateWrite \/ ResumeWrite \/ WakeDrain \/ RequestEnds \/ DrainFindsBusy
           \/ RetryFires \/ DirectAnswered \/ ReconcileStart \/ LateAccept \/ LeftStart
           \/ TurnEnds \/ Ages \/ Crash \/ MarkPendingResume \/ UNCHANGED vars
  BY <1>2 DEF UpdateWrite, ResumeWrite, WakeDrain, RequestEnds, DrainFindsBusy, RetryFires,
     DirectAnswered, ReconcileStart, LateAccept, LeftStart, TurnEnds, Ages, Crash,
     MarkPendingResume, Idle, leftVars, vars
<1>3. ASSUME NEW w \in Workers, BeginDrain(w) \/ Step(w) \/ Failure(w)
      PROVE  FlagTypes'
  BY <1>3 DEF BeginDrain, Step, Failure, RecoverOrphans, FindItem, CheckPendingStart,
      ReadQueue,
              ReadFails, ProbeActivity, Watching, Claim, Send, EngineAccepts, Answered,
              StartTimesOut, RequestRefused, RequestInterrupted, Requesting, RemoveSent, Continue,
              Unclaim, MarkFailed, Quiet, Dropped, Release, LeaveQuietly, LeaveAndRetry, leftVars
<1> QED
  BY <1>1, <1>2, <1>3 DEF Next

\* The inductive part of the type theorem.
LEMMA TypeStep ==
  ASSUME TypeInv, [Next]_vars
  PROVE  TypeInv'
BY QueueStep, WorkStep, EngineStep, CountStep, FlagStep DEF TypeInv, TypeOK, InUse,
    ItemInUse

\* Types hold at the start.
LEMMA InitTypes == Init => TypeInv
<1> SUFFICES ASSUME Init PROVE TypeInv
  OBVIOUS
<1> USE DEF Init
<1>1. QueueTypes /\ InUse
  BY EmptySeq DEF QueueTypes, InUse, QueueInUse, ItemInUse, Chosen, Queued
<1>2. WorkTypes /\ EngineTypes
  BY DEF WorkTypes, EngineTypes
<1>3. CountTypes /\ FlagTypes
  BY DEF CountTypes, FlagTypes
<1> QED BY <1>1, <1>2, <1>3 DEF TypeInv, TypeOK

\* Every variable keeps its type; in particular the order holds queue item ids,
\* and the ids the gateway remembers are ids that messages were sent under.
THEOREM TypeCorrect == Spec => []TypeOK
<1>1. TypeInv /\ [Next]_vars => TypeInv'
  BY TypeStep
<1>2. TypeInv => TypeOK
  BY DEF TypeInv
<1> QED BY InitTypes, <1>1, <1>2, PTL DEF Spec

----------------------------------------------------------------------------
(* app-server takes a message once.                                        *)

\* A step in which no request to app-server goes out, arrives or is settled.
Bystander ==
  /\ UNCHANGED <<delivered, unanswered, doubtful, forgiven, recent>>
  /\ \A w \in Workers : Asking(w) => sessionLock' = sessionLock /\ task'[w] = task[w]
  /\ \A w \in Workers : Asking(w) \/ Asking(w)' \/ pc'[w] = "remove" =>
                         pc'[w] = pc[w] /\ item'[w] = item[w]
  /\ \A i \in used : request'[i] = request[i]

\* A step in which the task w's request goes out, arrives or is settled.
Asks(w) == \/ Send(w) \/ EngineAccepts(w) \/ Answered(w) \/ StartTimesOut(w)
           \/ RequestRefused(w) \/ RequestInterrupted(w)

\* The same, or one in which its handler goes.
Settles(w) == Asks(w) \/ (Asking(w) /\ Dropped(w))

\* Every other step leaves alone what the gateway and app-server know of messages
\* and every request that is out.
LEMMA BystanderMoves ==
  ASSUME TypeInv, InFlight, [Next]_vars
  PROVE  \/ Crash \/ LateAccept \/ Ages
         \/ \E w \in Workers : Settles(w)
         \/ Bystander
<1> USE QueueConstants DEF TypeInv, TypeOK, WorkTypes, InFlight, Bystander, Asking,
    queueVars, workVars, turnVars, engineVars
<1>1. CASE Users
  <2>1. CASE Enqueue
    BY <2>1 DEF Enqueue, EnqueueAgain, EnqueueNew, QueueTypes
  <2>2. CASE RemoveItem \/ UpdateRead \/ Reorder \/ ResumeCheck \/ DirectSend \/ ManualFindsBusy
    BY <2>2 DEF RemoveItem, UpdateRead, Reorder, ResumeCheck, DirectSend, Idle,
        ManualFindsBusy
  <2>3. ASSUME NEW w \in Workers, BeginManual(w) PROVE Bystander
    BY <2>3 DEF BeginManual, Enter
  <2> QED BY <1>1, <2>1, <2>2, <2>3 DEF Users
<1>2. CASE \/ UpdateWrite \/ ResumeWrite \/ WakeDrain \/ RequestEnds \/ DrainFindsBusy
           \/ RetryFires \/ DirectAnswered \/ ReconcileStart \/ LeftStart \/ TurnEnds
           \/ MarkPendingResume \/ UNCHANGED vars
  BY <1>2 DEF UpdateWrite, ResumeWrite, WakeDrain, RequestEnds, DrainFindsBusy, RetryFires,
     DirectAnswered, ReconcileStart, LeftStart, TurnEnds, MarkPendingResume, Idle, vars
<1>3. ASSUME NEW w \in Workers,
             \/ BeginDrain(w) \/ RecoverOrphans(w) \/ Claim(w)
             \/ RemoveSent(w) \/ Continue(w) \/ Unclaim(w) \/ MarkFailed(w) \/ Release(w)
      PROVE  Bystander
  BY <1>3 DEF BeginDrain, Enter, RecoverOrphans, Claim, RemoveSent, Continue, Unclaim,
      MarkFailed, Release, Goto, Quiet, LeaveQuietly, LeaveAndRetry
<1>4. ASSUME NEW w \in Workers,
             \/ FindItem(w) \/ CheckPendingStart(w) \/ ReadQueue(w) \/ ReadFails(w)
             \/ ProbeActivity(w)
      PROVE  Bystander
  BY <1>4 DEF FindItem, CheckPendingStart, ReadQueue, ReadFails, ProbeActivity, Watching, Goto,
      LeaveQuietly, LeaveAndRetry
<1>5. ASSUME NEW w \in Workers, Dropped(w), ~Asking(w)
      PROVE  Bystander
  BY <1>5 DEF Dropped, LeaveQuietly, Goto
<1> QED
  BY <1>1, <1>2, <1>3, <1>4, <1>5 DEF Next, Step, Failure, Asks, Settles

\* No step lets app-server take a message that the gateway still remembers.
LEMMA SentStep ==
  ASSUME TypeInv, SentInv, [Next]_vars
  PROVE  SentInv'
<1> USE QueueConstants DEF TypeInv, TypeOK, EngineTypes, WorkTypes, SentInv, InFlight,
    Accounted, AtMostOnce, Asking
<1>1. CASE Crash
  BY <1>1 DEF Crash
<1>2. CASE LateAccept
  BY <1>2 DEF LateAccept, Idle, queueVars, workVars, Key
<1>5. CASE Ages
  <2>1. PICK k \in recent \ unanswered :
          /\ \A w \in Workers : Asking(w) => Key(item[w]) # k
          /\ recent' = recent \ {k}
          /\ forgiven' = [forgiven EXCEPT ![k] = delivered[k]]
    BY <1>5 DEF Ages
  <2>2. UNCHANGED <<pc, task, item, request, delivered, unanswered, sessionLock>>
    BY <1>5 DEF Ages, workVars, queueVars, turnVars
  <2>3. \A i : Key(i)' = Key(i)
    BY <2>2 DEF Key
  <2>4. k \in Keys
    BY <2>1
  <2> QED BY <2>1, <2>2, <2>3, <2>4
<1>6. ASSUME NEW w \in Workers, Asking(w), Dropped(w)
      PROVE  SentInv'
  <2> DEFINE k == Key(item[w])
  <2>1. k \in Keys
    BY <1>6, KeyType DEF InUse, ItemInUse, QueueTypes, Chosen
  <2>2. \A i : Key(i)' = Key(i)
    BY <1>6 DEF Dropped, queueVars, Key
  <2>3. \A v \in Workers : Asking(v) => v = w
    BY <1>6
  <2>4. \A v \in Workers : ~Asking(v)'
    BY <1>6, <2>3 DEF Dropped, LeaveQuietly, Goto
  <2>5. /\ UNCHANGED <<delivered, unanswered, recent>>
        /\ forgiven' = IF pc[w] = "accepted" /\ task[w] = "message"
                       THEN [forgiven EXCEPT ![k] = delivered[k]] ELSE forgiven
        /\ task[w] # "drain"
    BY <1>6 DEF Dropped
  <2>6. task[w] = "steer" => k \in recent
    BY <1>6
  <2>7. Accounted'
    <3> SUFFICES ASSUME NEW j \in Keys
                 PROVE  /\ delivered[j] > forgiven'[j] => j \in recent
                        /\ j \in unanswered => j \in recent /\ delivered[j] <= forgiven'[j]
      BY <2>5 DEF Accounted
    <3>1. delivered[j] > forgiven'[j] => j \in recent
      <4>1. CASE j = k /\ pc[w] = "accepted"
        BY <2>1, <2>5, <2>6, <4>1
      <4>2. CASE j # k
        BY <2>1, <2>3, <2>5, <4>2
      <4>3. CASE j = k /\ pc[w] = "accept"
        BY <1>6, <2>5, <4>3
      <4> QED BY <1>6, <4>1, <4>2, <4>3
    <3>2. j \in unanswered => j \in recent /\ delivered[j] <= forgiven'[j]
      BY <2>1, <2>5
    <3> QED BY <3>1, <3>2
  <2>8. AtMostOnce'
    BY <2>1, <2>5
  <2> QED BY <2>4, <2>7, <2>8
<1>3. ASSUME NEW w \in Workers, Asks(w)
      PROVE  SentInv'
  <2> DEFINE k == Key(item[w])
  <2>1. pc[w] \in Chosen
    BY <1>3 DEF Asks, Send, EngineAccepts, Answered, StartTimesOut, RequestRefused,
        RequestInterrupted, Chosen
  <2>2. k \in Keys
    BY <2>1, KeyType DEF InUse, ItemInUse, QueueTypes
  <2>3. \A i : Key(i)' = Key(i)
    BY <1>3 DEF Asks, Send, EngineAccepts, Answered, StartTimesOut, RequestRefused,
       RequestInterrupted, Requesting, queueVars, Key
  <2>4. CASE Send(w)
    BY <2>2, <2>3, <2>4 DEF Send, Refused, Goto, turnVars, engineVars
  <2>5. CASE EngineAccepts(w)
    BY <2>2, <2>3, <2>5 DEF EngineAccepts, Goto, turnVars
  <2>6. CASE Answered(w)
    BY <2>2, <2>3, <2>6 DEF Answered, Requesting, Goto, Remember
  <2>7. CASE StartTimesOut(w)
    BY <2>2, <2>3, <2>7 DEF StartTimesOut, Requesting, Goto, Remember
  <2>8. CASE RequestRefused(w)
    BY <2>2, <2>3, <2>8 DEF RequestRefused, Requesting, Refused, Goto, Forgets
  <2>9. CASE RequestInterrupted(w)
    BY <2>2, <2>3, <2>9 DEF RequestInterrupted, Requesting, Refused, Goto, Forgets
  <2> QED BY <1>3, <2>4, <2>5, <2>6, <2>7, <2>8, <2>9 DEF Asks
<1>4. CASE Bystander
  <2>1. \A w \in Workers : Asking(w) => item[w] \in used
    BY DEF InUse, ItemInUse, Chosen
  <2>2. \A w \in Workers : Asking(w) => Key(item[w])' = Key(item[w])
    BY <1>4, <2>1 DEF Bystander, Key
  <2> QED BY <1>4, <2>2 DEF Bystander
<1> QED
  BY <1>1, <1>2, <1>3, <1>4, <1>5, <1>6, BystanderMoves DEF Settles

----------------------------------------------------------------------------
(* One dispatcher, and one delivery.                                       *)

\* At any time one task at most is between the acquisition and the release of the
\* session's dispatch guard, and queue_dispatching names it.
THEOREM GuardIsExclusive == Spec => []SingleDispatcher
<1>1. Init => TypeInv /\ SingleDispatcher
  BY InitTypes, QueueConstants DEF Init, SingleDispatcher, Holds
<1>2. TypeInv /\ SingleDispatcher /\ [Next]_vars => TypeInv' /\ SingleDispatcher'
  BY TypeStep, GuardStep
<1> QED BY <1>1, <1>2, PTL DEF Spec

\* Whatever is retried, replayed, crashed, dropped or answered too late: app-server takes
\* a message under one client id at most once more than the gateway forgot it.
THEOREM TakenOnce == Spec => []AtMostOnce
<1>1. Init => TypeInv /\ SentInv
  BY InitTypes DEF Init, SentInv, InFlight, Accounted, Asking, AtMostOnce
<1>2. TypeInv /\ SentInv /\ [Next]_vars => TypeInv' /\ SentInv'
  BY TypeStep, SentStep
<1>3. SentInv => AtMostOnce
  BY DEF SentInv
<1> QED BY <1>1, <1>2, <1>3, PTL DEF Spec

----------------------------------------------------------------------------
(* No message is lost.                                                     *)

\* What the gateway remembers as sent was taken, or may still be, or a steer
\* with it is out.
Steering(w, k) == pc[w] = "accept" /\ task[w] = "steer" /\ Key(item[w]) = k
Remembered ==
  \A k \in recent : Taken(k) \/ \E w \in Workers : Steering(w, k)

\* A task takes its item off the queue once its message counts as sent.
Settled ==
  \A w \in Workers : pc[w] \in {"accepted", "remove"} => Taken(Key(item[w]))

LossInv == Remembered /\ Settled /\ NothingLost

\* A message that was taken stays taken.
LEMMA TakenStays ==
  ASSUME TypeInv, [Next]_vars, NEW k \in Keys, Taken(k)
  PROVE  Taken(k)'
<1> USE DEF TypeInv, TypeOK, EngineTypes, Taken
<1>1. CASE \/ DirectSend \/ DirectAnswered \/ ReconcileStart \/ LateAccept \/ LeftStart
           \/ TurnEnds \/ Ages \/ Crash
  BY <1>1 DEF DirectSend, DirectAnswered, ReconcileStart, LateAccept, LeftStart, TurnEnds, Ages,
     Crash, Idle
<1>2. ASSUME NEW w \in Workers,
             \/ CheckPendingStart(w) \/ ProbeActivity(w) \/ Send(w) \/ Answered(w)
             \/ StartTimesOut(w) \/ RequestRefused(w) \/ RequestInterrupted(w) \/ Dropped(w)
      PROVE  Taken(k)'
  BY <1>2 DEF CheckPendingStart, ProbeActivity, Watching, Send, Answered, StartTimesOut,
              RequestRefused, RequestInterrupted, Requesting, Dropped, engineVars
<1>3. ASSUME NEW w \in Workers, EngineAccepts(w)
      PROVE  Taken(k)'
  <2>1. delivered' = [delivered EXCEPT ![Key(item[w])] = @ + 1] /\ UNCHANGED doubtful
    BY <1>3 DEF EngineAccepts
  <2> QED BY <2>1
<1>4. CASE UNCHANGED <<turnVars, engineVars, recent>>
  BY <1>4 DEF engineVars
<1> QED BY <1>1, <1>2, <1>3, <1>4, EngineMoves

\* An item that has been queued keeps its client id.
LEMMA KeysStay ==
  ASSUME TypeInv, [Next]_vars, NEW i \in used
  PROVE  i \in used' /\ Key(i)' = Key(i) /\ Key(i) \in Keys
<1> USE DEF TypeInv, TypeOK, QueueTypes
<1>1. Key(i) \in Keys
  BY KeyType
<1>2. CASE Enqueue
  <2>1. PICK r \in Requests \cup {NoRequest} : EnqueueAgain(r) \/ EnqueueNew(r)
    BY <1>2 DEF Enqueue
  <2> QED BY <1>1, <2>1 DEF EnqueueAgain, EnqueueNew, Key
<1>3. CASE RemoveItem \/ UpdateWrite \/ Reorder \/ ResumeWrite \/ MarkPendingResume
  BY <1>1, <1>3 DEF RemoveItem, UpdateWrite, Reorder, ResumeWrite, MarkPendingResume, Key
<1>4. ASSUME NEW w \in Workers,
             RecoverOrphans(w) \/ Claim(w) \/ RemoveSent(w) \/ Unclaim(w) \/ MarkFailed(w)
      PROVE  i \in used' /\ Key(i)' = Key(i)
  BY <1>4 DEF RecoverOrphans, Claim, RemoveSent, Unclaim, MarkFailed, Quiet, Key
<1>5. CASE UNCHANGED <<queueVars, used, removed>>
  BY <1>1, <1>5 DEF queueVars, Key
<1> QED BY <1>1, <1>2, <1>3, <1>4, <1>5, QueueMoves

\* An item gets into the queue when its id is handed out, and leaves it when a
\* browser removes it or a task is done with its message.
LEMMA QueueLosses ==
  ASSUME TypeInv, [Next]_vars
  PROVE  /\ removed \subseteq removed'
         /\ \A i \in used' : i \in used \/ Queued(i)'
         /\ \A i \in Items : Queued(i) /\ ~Queued(i)' =>
              \/ i \in removed' /\ Editable(i)
              \/ \E w \in Workers : pc[w] = "remove" /\ item[w] = i
<1> USE DEF TypeInv, TypeOK, QueueTypes, Queued
<1>1. CASE Enqueue
  <2>1. PICK r \in Requests \cup {NoRequest} : EnqueueAgain(r) \/ EnqueueNew(r)
    BY <1>1 DEF Enqueue
  <2>2. removed' = removed
    BY <1>1 DEF Enqueue
  <2> QED BY <2>1, <2>2 DEF EnqueueAgain, EnqueueNew, WithoutError
<1>2. CASE RemoveItem
  BY <1>2 DEF RemoveItem, Drop
<1>3. CASE UpdateWrite \/ Reorder \/ ResumeWrite \/ MarkPendingResume
  BY <1>3 DEF UpdateWrite, Reorder, ResumeWrite, MarkPendingResume
<1>4. ASSUME NEW w \in Workers, RemoveSent(w)
      PROVE  /\ UNCHANGED <<removed, used>>
             /\ \A i \in Items : Queued(i) /\ ~Queued(i)' => pc[w] = "remove" /\ item[w] = i
  BY <1>4 DEF RemoveSent, Drop, Quiet
<1>5. ASSUME NEW w \in Workers, RecoverOrphans(w) \/ Claim(w) \/ Unclaim(w) \/ MarkFailed(w)
      PROVE  UNCHANGED <<removed, used>> /\ \A i \in Items : Queued(i) => Queued(i)'
  BY <1>5 DEF RecoverOrphans, Claim, Unclaim, WithoutClaim, MarkFailed, Quiet
<1>6. CASE UNCHANGED <<queueVars, used, removed>>
  BY <1>6 DEF queueVars
<1> QED BY <1>1, <1>2, <1>3, <1>4, <1>5, <1>6, QueueMoves

\* What is remembered, and what a task takes off the queue, was sent.
LEMMA RecallStep ==
  ASSUME TypeInv, SingleDispatcher, InFlight, Remembered, Settled, [Next]_vars
  PROVE  Remembered' /\ Settled'
<1> USE DEF Remembered, Settled, Steering
<1>1. recent \subseteq Keys
  BY DEF TypeInv, TypeOK, EngineTypes
<1>2. \A w \in Workers : pc[w] \in Chosen =>
          item[w] \in used /\ Key(item[w]) \in Keys /\ Key(item[w]) = Key(item[w])
  BY KeysStay DEF TypeInv, InUse, ItemInUse
<1>3. \A k \in Keys : Taken(k) => Taken(k)'
  BY TakenStays
<1>4. CASE Crash
  BY <1>4 DEF Crash
<1>5. CASE LateAccept
  <2>1. UNCHANGED <<recent, pc, task, item, request>>
    BY <1>5 DEF LateAccept, Idle, workVars, queueVars
  <2> QED BY <1>1, <1>2, <1>3, <2>1 DEF Key, Chosen
<1>8. CASE Ages
  <2>1. UNCHANGED <<pc, task, item, request>> /\ recent' \subseteq recent
    BY <1>8 DEF Ages, workVars, queueVars
  <2> QED BY <1>1, <1>2, <1>3, <2>1 DEF Key, Chosen
<1>9. ASSUME NEW w \in Workers, Asking(w), Dropped(w)
      PROVE  Remembered' /\ Settled'
  <2> DEFINE k == Key(item[w])
  <2>1. k \in Keys
    BY <1>2, <1>9 DEF Asking, Chosen
  <2>2. UNCHANGED <<request, item, task, recent>>
    BY <1>9 DEF Dropped, queueVars
  <2>3. \A i : Key(i)' = Key(i)
    BY <2>2 DEF Key
  <2>4. pc' = [pc EXCEPT ![w] = "release"]
    BY <1>9 DEF Dropped, LeaveQuietly, Goto
  <2>5. pc[w] = "accept" /\ task[w] = "steer" => Taken(k)'
    <3>1. k' = k
      BY <2>2 DEF Key
    <3> QED BY <1>9, <3>1 DEF Dropped, Taken
  <2> QED BY <1>1, <1>2, <1>3, <2>1, <2>2, <2>3, <2>4, <2>5
          DEF Chosen, TypeInv, TypeOK, WorkTypes
<1>6. ASSUME NEW w \in Workers, Asks(w)
      PROVE  Remembered' /\ Settled'
  <2> DEFINE k == Key(item[w])
  <2>1. pc[w] \in {"send", "accept", "accepted"} /\ k \in Keys
    BY <1>2, <1>6 DEF Asks, Send, EngineAccepts, Answered, StartTimesOut, RequestRefused,
                      RequestInterrupted, Chosen
  <2>2. \A v \in Workers \ {w} : pc[v] = "idle" /\ pc'[v] = "idle"
    BY <1>6, <2>1 DEF SingleDispatcher, Holds, Asks, Send, EngineAccepts, Answered,
       StartTimesOut, RequestRefused, RequestInterrupted, Refused, Goto, TypeInv, TypeOK, WorkTypes
  <2>3. UNCHANGED <<request, item, task>>
    BY <1>6 DEF Asks, Send, EngineAccepts, Answered, StartTimesOut, RequestRefused,
       RequestInterrupted, Requesting, queueVars
  <2>4. \A i : Key(i)' = Key(i)
    BY <2>3 DEF Key
  <2>5. CASE Send(w)
    BY <1>1, <1>3, <2>1, <2>2, <2>3, <2>4, <2>5 DEF Send, Refused, Goto, TypeInv, TypeOK, WorkTypes
  <2>6. CASE EngineAccepts(w)
    <3>1. Taken(k)'
      BY <2>1, <2>4, <2>6 DEF EngineAccepts, Taken, TypeInv, TypeOK, EngineTypes
    <3> QED BY <1>1, <1>3, <2>1, <2>2, <2>3, <2>4, <2>6, <3>1
            DEF EngineAccepts, Goto, TypeInv, TypeOK, WorkTypes
  <2>7. CASE Answered(w)
    BY <1>1, <1>3, <2>1, <2>2, <2>3, <2>4, <2>7
       DEF Answered, Remember, Goto, TypeInv, TypeOK, WorkTypes
  <2>8. CASE StartTimesOut(w)
    <3>1. k' = k
      BY <2>3 DEF Key
    <3>2. ASSUME pc[w] = "accept" PROVE Taken(k)'
      BY <2>8, <3>1, <3>2 DEF StartTimesOut, Taken
    <3>3. ASSUME pc[w] = "accepted" PROVE Taken(k)'
      BY <1>3, <2>1, <3>1, <3>3 DEF Taken
    <3>4. Taken(k)'
      BY <2>8, <3>2, <3>3 DEF StartTimesOut
    <3> QED BY <1>1, <1>3, <2>1, <2>2, <2>3, <2>4, <2>8, <3>4
            DEF StartTimesOut, Remember, Goto, TypeInv, TypeOK, WorkTypes
  <2>9. CASE RequestRefused(w) \/ RequestInterrupted(w)
    BY <1>1, <1>3, <2>1, <2>2, <2>3, <2>4, <2>9
       DEF RequestRefused, RequestInterrupted, Forgets, Refused, Goto, TypeInv, TypeOK, WorkTypes
  <2> QED BY <1>6, <2>5, <2>6, <2>7, <2>8, <2>9 DEF Asks
<1>7. CASE Bystander
  <2>2. \A i \in used : Key(i)' = Key(i)
    BY <1>7 DEF Bystander, Key
  <2>3. ASSUME NEW w \in Workers, pc[w] = "accept"
        PROVE  pc'[w] = "accept" /\ task'[w] = task[w] /\ Key(item[w])' = Key(item[w])
    BY <1>2, <1>7, <2>2, <2>3 DEF Bystander, Asking, Key, Chosen
  <2>4. ASSUME NEW w \in Workers, pc'[w] \in {"accepted", "remove"}
        PROVE  pc[w] = pc'[w] /\ Key(item[w])' = Key(item[w]) /\ Key(item[w]) \in Keys
    BY <1>2, <1>7, <2>2, <2>4 DEF Bystander, Asking, Key, Chosen
  <2>5. recent' = recent
    BY <1>7 DEF Bystander
  <2> QED BY <1>1, <1>3, <2>3, <2>4, <2>5
<1> QED BY <1>4, <1>5, <1>6, <1>7, <1>8, <1>9, BystanderMoves DEF Settles

\* An item that leaves the queue was removed, or its message was sent.
LEMMA LossStep ==
  ASSUME TypeInv, Settled, NothingLost, [Next]_vars
  PROVE  NothingLost'
<1> SUFFICES ASSUME NEW i \in used'
             PROVE  Queued(i)' \/ i \in removed' \/ Taken(Key(i))'
  BY DEF NothingLost
<1>1. CASE i \notin used
  BY <1>1, QueueLosses
<1>2. CASE i \in used
  <2>1. Key(i)' = Key(i) /\ Key(i) \in Keys /\ i \in Items
    BY <1>2, KeysStay DEF TypeInv, TypeOK, QueueTypes
  <2>2. Taken(Key(i)) => Taken(Key(i))'
    BY <2>1, TakenStays
  <2>3. CASE Queued(i)
    <3>1. Queued(i)' \/ i \in removed' \/ \E w \in Workers : pc[w] = "remove" /\ item[w] = i
      BY <2>1, <2>3, QueueLosses
    <3> QED BY <2>2, <3>1 DEF Settled
  <2> QED BY <1>2, <2>2, <2>3, QueueLosses DEF NothingLost
<1> QED BY <1>1, <1>2

\* However often sends fail, are retried, replayed or time out, and whatever browsers
\* and restarts do in between: an item that is not in the queue any more was removed by a
\* browser, or app-server took its message, or its start went out and was never answered,
\* or its steer was dropped on the way.
THEOREM NoMessageLost == Spec => []NothingLost
<1>1. Init => TypeInv /\ SingleDispatcher /\ SentInv /\ LossInv
  BY InitTypes, QueueConstants
     DEF Init, SingleDispatcher, Holds, SentInv, InFlight, Accounted, Asking, AtMostOnce,
         LossInv, Remembered, Settled, NothingLost
<1>2. TypeInv /\ SingleDispatcher /\ SentInv /\ LossInv /\ [Next]_vars
        => TypeInv' /\ SingleDispatcher' /\ SentInv' /\ LossInv'
  BY TypeStep, GuardStep, SentStep, RecallStep, LossStep DEF SentInv, LossInv
<1>3. LossInv => NothingLost
  BY DEF LossInv
<1> QED BY <1>1, <1>2, <1>3, PTL DEF Spec

----------------------------------------------------------------------------
(* The order is that of the items in the queue.                            *)

\* No element comes twice.
Once(s) == \A j, k \in DOMAIN s : s[j] = s[k] => j = k

\* A sequence in which none comes twice is as long as it has elements.
LEMMA OnceCounts ==
  ASSUME NEW S, NEW s \in Seq(S), Once(s)
  PROVE  Len(s) = Cardinality(ToSet(s))
<1>1. DOMAIN s = 1..Len(s) /\ Len(s) \in Nat /\ s \in [1..Len(s) -> S]
  BY LenProperties
<1>2. s \in [1..Len(s) -> ToSet(s)]
  BY <1>1 DEF ToSet
<1>3. s \in Bijection(1..Len(s), ToSet(s))
  BY <1>1, <1>2 DEF Bijection, Injection, Surjection, IsInjective, Once, ToSet
<1>4. ExistsBijection(1..Len(s), ToSet(s))
  BY <1>3 DEF ExistsBijection
<1> QED BY <1>1, <1>4, FS_CountingElements

\* Taking the element at one place out moves those behind it forward by one.
LEMMA RemoveAtProperties ==
  ASSUME NEW S, NEW s \in Seq(S), NEW k \in DOMAIN s
  PROVE  /\ RemoveAt(s, k) \in Seq(S) /\ Len(RemoveAt(s, k)) = Len(s) - 1
         /\ \A i \in 1..(Len(s) - 1) : RemoveAt(s, k)[i] = IF i < k THEN s[i] ELSE s[i + 1]
<1> DEFINE r == RemoveAt(s, k)
<1>1. DOMAIN s = 1..Len(s) /\ k \in 1..Len(s) /\ Len(s) \in Nat
  BY LenProperties
<1>2. /\ SubSeq(s, 1, k - 1) \in Seq(S) /\ Len(SubSeq(s, 1, k - 1)) = k - 1
      /\ \A i \in 1..(k - 1) : SubSeq(s, 1, k - 1)[i] = s[i]
  <2>1. \A i \in 1..(k - 1) : s[i] \in S
    BY <1>1, ElementOfSeq
  <2> QED BY <1>1, <2>1, SubSeqProperties
<1>3. /\ SubSeq(s, k + 1, Len(s)) \in Seq(S) /\ Len(SubSeq(s, k + 1, Len(s))) = Len(s) - k
      /\ \A i \in 1..(Len(s) - k) : SubSeq(s, k + 1, Len(s))[i] = s[k + i]
  <2>1. \A i \in (k + 1)..Len(s) : s[i] \in S
    BY <1>1, ElementOfSeq
  <2> QED BY <1>1, <2>1, SubSeqProperties
<1>4. /\ r \in Seq(S) /\ Len(r) = Len(s) - 1
      /\ \A i \in 1..(Len(s) - 1) : r[i] = IF i < k THEN s[i] ELSE s[i + 1]
  <2> DEFINE f == SubSeq(s, 1, k - 1)
             t == SubSeq(s, k + 1, Len(s))
  <2>1. /\ f \in Seq(S) /\ Len(f) = k - 1 /\ \A i \in 1..(k - 1) : f[i] = s[i]
        /\ t \in Seq(S) /\ Len(t) = Len(s) - k /\ \A i \in 1..(Len(s) - k) : t[i] = s[k + i]
    BY <1>2, <1>3
  <2>2. r = f \o t
    BY DEF RemoveAt
  <2> HIDE DEF r, f, t
  <2>3. /\ f \o t \in Seq(S) /\ Len(f \o t) = Len(f) + Len(t)
        /\ \A i \in 1..(Len(f) + Len(t)) :
             (f \o t)[i] = IF i <= Len(f) THEN f[i] ELSE t[i - Len(f)]
    BY <2>1, ConcatProperties
  <2>4. /\ r \in Seq(S) /\ Len(r) = Len(s) - 1
        /\ \A i \in 1..(Len(s) - 1) : r[i] = IF i <= k - 1 THEN f[i] ELSE t[i - (k - 1)]
    BY <1>1, <2>1, <2>2, <2>3
  <2>5. ASSUME NEW i \in 1..(Len(s) - 1)
        PROVE  r[i] = IF i < k THEN s[i] ELSE s[i + 1]
    <3>1. CASE i < k
      BY <1>1, <2>1, <2>4, <3>1
    <3>2. CASE i >= k
      <4>1. r[i] = t[i - (k - 1)] /\ i - (k - 1) \in 1..(Len(s) - k)
        BY <1>1, <2>4, <3>2
      <4>2. k + (i - (k - 1)) = i + 1
        BY <1>1
      <4> QED BY <2>1, <3>2, <4>1, <4>2
    <3> QED BY <1>1, <3>1, <3>2
  <2> QED BY <2>4, <2>5
<1> QED BY <1>4

\* So that element is gone, and the others are as they were.
LEMMA RemoveAtElements ==
  ASSUME NEW S, NEW s \in Seq(S), NEW k \in DOMAIN s, Once(s)
  PROVE  Once(RemoveAt(s, k)) /\ ToSet(RemoveAt(s, k)) = ToSet(s) \ {s[k]}
<1> DEFINE r == RemoveAt(s, k)
<1>1. DOMAIN s = 1..Len(s) /\ k \in 1..Len(s) /\ Len(s) \in Nat
  BY LenProperties
<1>4. /\ r \in Seq(S) /\ Len(r) = Len(s) - 1
      /\ \A i \in 1..(Len(s) - 1) : r[i] = IF i < k THEN s[i] ELSE s[i + 1]
  BY RemoveAtProperties
<1>5. DOMAIN r = 1..(Len(s) - 1)
  BY <1>4, LenProperties
<1>6. Once(r)
  BY <1>1, <1>4, <1>5 DEF Once
<1>7. ASSUME NEW x \in ToSet(s) \ {s[k]} PROVE x \in ToSet(r)
  <2>1. PICK j \in 1..Len(s) : x = s[j]
    BY <1>1 DEF ToSet
  <2>2. j # k
    BY <1>7, <2>1
  <2>3. CASE j < k
    BY <1>1, <1>4, <1>5, <2>1, <2>3 DEF ToSet
  <2>4. CASE j > k
    <3>1. (j - 1) \in DOMAIN r /\ r[j - 1] = x
      BY <1>1, <1>4, <1>5, <2>1, <2>4
    <3> QED BY <3>1 DEF ToSet
  <2> QED BY <1>1, <2>2, <2>3, <2>4
<1>8. ASSUME NEW x \in ToSet(r) PROVE x \in ToSet(s) \ {s[k]}
  <2>1. PICK j \in 1..(Len(s) - 1) : x = r[j]
    BY <1>5 DEF ToSet
  <2>2. PICK i \in 1..Len(s) : x = s[i] /\ i # k
    BY <1>1, <1>4, <2>1
  <2> QED BY <1>1, <2>2 DEF ToSet, Once
<1> QED BY <1>6, <1>7, <1>8

\* A new element at the end comes once.
LEMMA AppendElements ==
  ASSUME NEW S, NEW s \in Seq(S), NEW x \in S, x \notin ToSet(s), Once(s)
  PROVE  Once(Append(s, x)) /\ ToSet(Append(s, x)) = ToSet(s) \cup {x}
<1>1. DOMAIN s = 1..Len(s) /\ Len(s) \in Nat
  BY LenProperties
<1>2. /\ Append(s, x) \in Seq(S) /\ Len(Append(s, x)) = Len(s) + 1
      /\ \A i \in 1..Len(s) : Append(s, x)[i] = s[i]
      /\ Append(s, x)[Len(s) + 1] = x
  BY AppendProperties
<1>3. DOMAIN Append(s, x) = 1..(Len(s) + 1)
  BY <1>2, LenProperties
<1>4. \A i \in 1..Len(s) : s[i] # x
  BY <1>1 DEF ToSet
<1>5. Once(Append(s, x))
  BY <1>1, <1>2, <1>3, <1>4 DEF Once
<1>6. \A i \in 1..(Len(s) + 1) : i \in 1..Len(s) \/ i = Len(s) + 1
  BY <1>1
<1>7. Len(s) + 1 \in 1..(Len(s) + 1) /\ \A i \in 1..Len(s) : i \in 1..(Len(s) + 1)
  BY <1>1
<1>8. ToSet(Append(s, x)) = ToSet(s) \cup {x}
  BY <1>1, <1>2, <1>3, <1>6, <1>7 DEF ToSet
<1> QED BY <1>5, <1>8

\* Rearranging loses no element and doubles none.
LEMMA RearrangedElements ==
  ASSUME NEW S, NEW s \in Seq(S), NEW p \in [DOMAIN s -> DOMAIN s], Once(s),
         \A j \in DOMAIN s : \E k \in DOMAIN s : p[k] = j
  PROVE  LET r == [k \in DOMAIN s |-> s[p[k]]] IN Once(r) /\ ToSet(r) = ToSet(s)
<1>1. IsFiniteSet(DOMAIN s)
  <2>1. DOMAIN s = 1..Len(s) /\ Len(s) \in Nat
    BY LenProperties
  <2> QED BY <2>1, FS_Interval
<1>2. p \in Surjection(DOMAIN s, DOMAIN s)
  BY DEF Surjection
<1>3. p \in Injection(DOMAIN s, DOMAIN s)
  BY <1>1, <1>2, FS_SurjSameCardinalityImpliesInj
<1>4. \A j, k \in DOMAIN s : p[j] = p[k] => j = k
  BY <1>3 DEF Injection, IsInjective
<1> QED BY <1>4 DEF Once, ToSet

\* What is queued is what the order has, once each; no item comes back.
OrderInv ==
  /\ OneItemPerRequest
  /\ ToSet(order) = {i \in Items : Queued(i)}
  /\ Once(order)
  /\ removed \subseteq used /\ removed \cap ToSet(order) = {}

\* A step that leaves the order and the set of queued items alone.
Reordered ==
  /\ Once(order') /\ ToSet(order') = ToSet(order)
  /\ \A i \in Items : Queued(i)' <=> Queued(i)
  /\ UNCHANGED <<request, used, removed>>

\* The place of a queued item, taken out, leaves the order of the others.
LEMMA DropElements ==
  ASSUME TypeInv, OrderInv, NEW i \in Items, Drop(i)
  PROVE  /\ Once(order') /\ ToSet(order') = ToSet(order) \ {i}
         /\ \A j \in Items : Queued(j)' <=> Queued(j) /\ j # i
<1>1. PICK k \in DOMAIN order : order[k] = i /\ order' = RemoveAt(order, k)
  BY DEF Drop
<1>2. order \in Seq(Items) /\ Once(order)
  BY DEF TypeInv, TypeOK, QueueTypes, OrderInv
<1>3. Once(order') /\ ToSet(order') = ToSet(order) \ {i}
  BY <1>1, <1>2, RemoveAtElements
<1>4. \A j \in Items : Queued(j)' <=> Queued(j) /\ j # i
  BY DEF Drop, Queued, TypeInv, TypeOK, QueueTypes
<1> QED BY <1>3, <1>4

\* Every step keeps the order faithful to the items.
LEMMA OrderStep ==
  ASSUME TypeInv, OrderInv, [Next]_vars
  PROVE  OrderInv'
<1>1. /\ order \in Seq(Items) /\ order \in Seq(used) /\ used \subseteq Items
      /\ status \in [Items -> {"absent", "waiting", "dispatching", "failed"}]
      /\ request \in [Items -> Requests \cup {NoRequest}]
      /\ \A i \in Items : Queued(i) => i \in used
  BY DEF TypeInv, TypeOK, QueueTypes, InUse, QueueInUse
<1>2. ASSUME Reordered PROVE OrderInv'
  BY <1>2 DEF Reordered, OrderInv, OneItemPerRequest
<1>3. CASE Enqueue
  <2>1. PICK r \in Requests \cup {NoRequest} : EnqueueAgain(r) \/ EnqueueNew(r)
    BY <1>3 DEF Enqueue
  <2>2. CASE EnqueueAgain(r)
    BY <1>1, <1>2, <1>3, <2>2
       DEF EnqueueAgain, Enqueue, AlreadyQueued, WithoutError, Reordered, Queued, OrderInv
  <2>3. CASE EnqueueNew(r)
    <3>1. PICK i \in Items \ used :
            /\ order' = Append(order, i)
            /\ status' = [status EXCEPT ![i] = "waiting"]
            /\ request' = [request EXCEPT ![i] = r]
            /\ used' = used \cup {i}
      BY <2>3 DEF EnqueueNew
    <3>2. i \notin ToSet(order)
      BY <1>1, <3>1 DEF OrderInv
    <3>3. Once(order') /\ ToSet(order') = ToSet(order) \cup {i}
      BY <1>1, <3>1, <3>2, AppendElements DEF OrderInv
    <3>4. \A j \in Items : Queued(j)' <=> Queued(j) \/ j = i
      BY <1>1, <3>1 DEF Queued
    <3>5. OneItemPerRequest'
      <4> SUFFICES ASSUME NEW x \in Items, NEW y \in Items, Queued(x)', Queued(y)',
                          request'[x] = request'[y], x # y
                   PROVE  request'[x] = NoRequest
        BY DEF OneItemPerRequest
      <4>1. \A j \in Items : Queued(j) /\ r # NoRequest => request[j] # r
        BY <2>3 DEF EnqueueNew, AlreadyQueued
      <4> QED BY <1>1, <3>1, <3>4, <4>1 DEF OrderInv, OneItemPerRequest
    <3> QED BY <1>1, <1>3, <3>1, <3>3, <3>4, <3>5 DEF OrderInv, Enqueue
  <2> QED BY <2>1, <2>2, <2>3
<1>4. CASE RemoveItem
  <2>1. PICK i \in Items : Editable(i) /\ Drop(i) /\ removed' = removed \cup {i}
    BY <1>4 DEF RemoveItem
  <2>2. i \in used
    BY <1>1, <2>1 DEF Editable, Queued
  <2>3. UNCHANGED <<request, used>>
    BY <1>4 DEF RemoveItem
  <2> QED BY <2>1, <2>2, <2>3, DropElements DEF OrderInv, OneItemPerRequest
<1>5. ASSUME NEW w \in Workers, RemoveSent(w) PROVE OrderInv'
  <2>1. UNCHANGED <<request, used, removed>>
    BY <1>5 DEF RemoveSent, Quiet
  <2>2. CASE Queued(item[w])
    <3>1. Drop(item[w]) /\ item[w] \in Items
      BY <1>1, <1>5, <2>2 DEF RemoveSent, TypeInv, InUse, ItemInUse, Chosen
    <3> QED BY <2>1, <3>1, DropElements DEF OrderInv, OneItemPerRequest
  <2>3. CASE ~Queued(item[w])
    BY <1>2, <1>5, <2>1, <2>3 DEF RemoveSent, Reordered, Queued, OrderInv
  <2> QED BY <2>2, <2>3
<1>6. CASE Reorder
  <2>1. PICK p \in [DOMAIN order -> DOMAIN order] :
          Reordering(p) /\ order' = [k \in DOMAIN order |-> order[p[k]]]
    BY <1>6 DEF Reorder
  <2>2. Once(order') /\ ToSet(order') = ToSet(order)
    BY <1>1, <2>1, RearrangedElements DEF Reordering, OrderInv
  <2> QED BY <1>2, <1>6, <2>2 DEF Reorder, Reordered, Queued
<1>7. CASE UpdateWrite \/ ResumeWrite \/ MarkPendingResume
  BY <1>1, <1>2, <1>7
     DEF UpdateWrite, ResumeWrite, MarkPendingResume, Editable, Reordered, Queued, OrderInv
<1>8. ASSUME NEW w \in Workers, RecoverOrphans(w) \/ Claim(w) \/ Unclaim(w) \/ MarkFailed(w)
      PROVE  OrderInv'
  BY <1>1, <1>2, <1>8
     DEF RecoverOrphans, Claim, Unclaim, WithoutClaim, MarkFailed, Quiet, Dispatching, Reordered,
         Queued, OrderInv
<1>9. CASE UNCHANGED <<queueVars, used, removed>>
  BY <1>2, <1>9 DEF queueVars, Reordered, Queued, OrderInv
<1> QED BY <1>3, <1>4, <1>5, <1>6, <1>7, <1>8, <1>9, QueueMoves

\* Whatever browsers enqueue, replay, remove and rearrange, and tasks claim, fail and send:
\* the queue shows each item once, with at most one for a client's request, and none that
\* a browser removed.
THEOREM OrderFaithful == Spec => []OrderIsFaithful
<1>1. Init => TypeInv /\ OrderInv
  BY InitTypes, EmptySeq DEF Init, OrderInv, OneItemPerRequest, Queued, Once, ToSet
<1>2. TypeInv /\ OrderInv /\ [Next]_vars => TypeInv' /\ OrderInv'
  BY TypeStep, OrderStep
<1>3. TypeInv /\ OrderInv => OrderIsFaithful
  BY OnceCounts DEF OrderInv, OrderIsFaithful, TypeInv, TypeOK, QueueTypes, InUse, QueueInUse
<1> QED BY <1>1, <1>2, <1>3, PTL DEF Spec

----------------------------------------------------------------------------
(* What a claim is for.                                                    *)

\* What a task sends is what the queue shows, as long as the claim is there.
ContentInv ==
  \A w \in Workers :
    pc[w] \in Sending /\ Dispatching(item[w]) => edition[item[w]] = carried[w]

\* Only a task that goes on to send its item claims it, with the content it has.
LEMMA ClaimsArise ==
  ASSUME TypeInv, [Next]_vars, NEW i \in Items, Dispatching(i)'
  PROVE  \/ Dispatching(i)
         \/ \E w \in Workers : /\ pc[w] = "claim" /\ pc'[w] = "send"
                               /\ item[w] = i /\ item'[w] = i
                               /\ carried'[w] = edition[i] /\ edition'[i] = edition[i]
<1> USE DEF TypeInv, TypeOK, QueueTypes, Dispatching, Queued
<1>1. CASE Enqueue
  <2>1. PICK r \in Requests \cup {NoRequest} : EnqueueAgain(r) \/ EnqueueNew(r)
    BY <1>1 DEF Enqueue
  <2> QED BY <2>1 DEF EnqueueAgain, EnqueueNew, WithoutError
<1>2. CASE RemoveItem
  BY <1>2 DEF RemoveItem, Drop
<1>3. CASE UpdateWrite \/ Reorder \/ ResumeWrite \/ MarkPendingResume
  BY <1>3 DEF UpdateWrite, Reorder, ResumeWrite, MarkPendingResume
<1>4. ASSUME NEW w \in Workers, RecoverOrphans(w) \/ RemoveSent(w) \/ Unclaim(w) \/ MarkFailed(w)
      PROVE  Dispatching(i)
  BY <1>4 DEF RecoverOrphans, RemoveSent, Drop, Unclaim, WithoutClaim, MarkFailed, Quiet
<1>5. ASSUME NEW w \in Workers, Claim(w)
      PROVE  \/ Dispatching(i)
             \/ /\ pc[w] = "claim" /\ pc'[w] = "send" /\ item[w] = i /\ item'[w] = i
                /\ carried'[w] = edition[i] /\ edition'[i] = edition[i]
  BY <1>5 DEF Claim, Goto, WorkTypes
<1>6. CASE UNCHANGED <<queueVars, used, removed>>
  BY <1>6 DEF queueVars
<1> QED BY <1>1, <1>2, <1>3, <1>4, <1>5, <1>6, QueueMoves

\* No request of a user touches a claimed item; only a task that is done with it does.
LEMMA ClaimsShield ==
  ASSUME TypeInv, [Next]_vars, NEW i \in Items, Dispatching(i)
  PROVE  /\ edition'[i] = edition[i]
         /\ Queued(i)' \/ \E w \in Workers : pc[w] = "remove" /\ item[w] = i
<1> USE DEF TypeInv, TypeOK, QueueTypes, Dispatching, Queued, Editable
<1>1. edition'[i] = edition[i]
  <2>1. CASE Enqueue
    <3>1. PICK r \in Requests \cup {NoRequest} : EnqueueAgain(r) \/ EnqueueNew(r)
      BY <2>1 DEF Enqueue
    <3> QED BY <3>1 DEF EnqueueAgain, EnqueueNew
  <2>2. CASE RemoveItem \/ UpdateWrite \/ Reorder \/ ResumeWrite \/ MarkPendingResume
    BY <2>2 DEF RemoveItem, UpdateWrite, Reorder, ResumeWrite, MarkPendingResume
  <2>3. ASSUME NEW w \in Workers,
               \/ RecoverOrphans(w) \/ Claim(w) \/ RemoveSent(w) \/ Unclaim(w) \/ MarkFailed(w)
        PROVE  edition'[i] = edition[i]
    BY <2>3 DEF RecoverOrphans, Claim, RemoveSent, Unclaim, MarkFailed, Quiet
  <2>4. CASE UNCHANGED <<queueVars, used, removed>>
    BY <2>4 DEF queueVars
  <2> QED BY <2>1, <2>2, <2>3, <2>4, QueueMoves
<1>2. Queued(i)' \/ \E w \in Workers : pc[w] = "remove" /\ item[w] = i
  BY QueueLosses
<1> QED BY <1>1, <1>2

\* A task that answers for a claim just made it, or already did and carries the same.
LEMMA OwnersCarry ==
  ASSUME TypeInv, [Next]_vars, NEW w \in Workers, pc'[w] \in Owning
  PROVE  \/ pc[w] = "claim" /\ pc'[w] = "send" /\ item'[w] = item[w]
         \/ pc[w] \in Owning /\ item'[w] = item[w] /\ carried'[w] = carried[w]
            /\ (pc'[w] \in Sending => pc[w] \in Sending)
<1> USE DEF TypeInv, TypeOK, WorkTypes, Owning, Sending
<1>1. CASE Crash
  BY <1>1 DEF Crash
<1>2. ASSUME NEW v \in Workers, Comes(v)
      PROVE  pc[w] \in Owning /\ item'[w] = item[w] /\ carried'[w] = carried[w]
             /\ (pc'[w] \in Sending => pc[w] \in Sending)
  BY <1>2 DEF Comes, Enter
<1>3. ASSUME NEW v \in Workers, Advance(v)
      PROVE  \/ pc[w] = "claim" /\ pc'[w] = "send" /\ item'[w] = item[w]
             \/ pc[w] \in Owning /\ item'[w] = item[w] /\ carried'[w] = carried[w]
                /\ (pc'[w] \in Sending => pc[w] \in Sending)
  <2>1. PICK f \in Flow : pc[v] = f[1] /\ pc' = [pc EXCEPT ![v] = f[2]]
    BY <1>3 DEF Advance
  <2>2. \/ item' = item
        \/ pc'[v] = "probe" /\ item' = [item EXCEPT ![v] = Head(order)]
    BY <1>3 DEF Advance
  <2>3. \/ carried' = carried
        \/ pc[v] = "claim" /\ carried' = [carried EXCEPT ![v] = edition[item[v]]]
    BY <1>3 DEF Advance
  <2>4. CASE v # w
    BY <2>1, <2>2, <2>3, <2>4
  <2>5. CASE v = w
    <3>1. \/ pc[w] = "claim" /\ pc'[w] = "send"
          \/ pc[w] \in Owning /\ (pc'[w] \in Sending => pc[w] \in Sending)
      BY <2>1, <2>5 DEF Flow
    <3>2. pc'[v] # "probe"
      BY <2>1, <2>5
    <3>3. item'[w] = item[w]
      BY <2>2, <2>5, <3>2
    <3>4. pc[w] \in Owning => carried'[w] = carried[w]
      BY <2>3, <2>5
    <3> QED BY <3>1, <3>3, <3>4
  <2> QED BY <2>4, <2>5
<1>4. ASSUME NEW v \in Workers, Release(v)
      PROVE  pc[w] \in Owning /\ item'[w] = item[w] /\ carried'[w] = carried[w]
             /\ (pc'[w] \in Sending => pc[w] \in Sending)
  BY <1>4 DEF Release, Goto
<1>5. CASE UNCHANGED <<workVars, holder>>
  BY <1>5 DEF workVars
<1> QED BY <1>1, <1>2, <1>3, <1>4, <1>5, WorkMoves

\* Only its own steps and a crash move a task.
LEMMA OwnSteps ==
  ASSUME TypeInv, [Next]_vars, NEW w \in Workers
  PROVE  \/ Crash \/ BeginDrain(w) \/ BeginManual(w) \/ Step(w) \/ Failure(w)
         \/ pc'[w] = pc[w] /\ item'[w] = item[w] /\ task'[w] = task[w]
<1> USE DEF TypeInv, TypeOK, WorkTypes
<1>1. ASSUME NEW v \in Workers, v # w, Step(v) \/ Failure(v)
      PROVE  pc'[w] = pc[w] /\ item'[w] = item[w] /\ task'[w] = task[w]
  <2>1. Advance(v) \/ Release(v)
    BY <1>1, ControlFlow
  <2> QED BY <1>1, <2>1 DEF Advance, Release, Goto
<1>2. ASSUME NEW v \in Workers, v # w, BeginDrain(v) \/ BeginManual(v)
      PROVE  pc'[w] = pc[w] /\ item'[w] = item[w] /\ task'[w] = task[w]
  BY <1>2 DEF BeginDrain, BeginManual, Enter
<1>3. ASSUME Users, ~ \E v \in Workers : BeginManual(v)
      PROVE  UNCHANGED workVars
  BY <1>3 DEF Users, Enqueue, RemoveItem, UpdateRead, Reorder, ResumeCheck, DirectSend, Idle,
              ManualFindsBusy
<1>4. ASSUME UpdateWrite \/ ResumeWrite \/ WakeDrain \/ RequestEnds \/ DrainFindsBusy
             \/ RetryFires \/ DirectAnswered \/ ReconcileStart \/ LateAccept \/ LeftStart
             \/ TurnEnds \/ Ages \/ MarkPendingResume \/ UNCHANGED vars
      PROVE  UNCHANGED workVars
  BY <1>4 DEF UpdateWrite, ResumeWrite, WakeDrain, RequestEnds, DrainFindsBusy, RetryFires,
     DirectAnswered, ReconcileStart, LateAccept, LeftStart, TurnEnds, Ages, MarkPendingResume,
     Idle, vars, guardVars
<1>5. CASE UNCHANGED workVars
  BY <1>5 DEF workVars
<1> QED BY <1>1, <1>2, <1>3, <1>4, <1>5 DEF Next

\* A task answers for its claim until the claim is gone.
LEMMA OwnersStay ==
  ASSUME TypeInv, [Next]_vars, ~Crash, NEW w \in Workers, pc[w] \in Owning
  PROVE  \/ pc'[w] \in Owning /\ item'[w] = item[w]
         \/ status'[item[w]] # "dispatching"
         \/ item[w] \in abandoned'
<1> USE DEF TypeInv, TypeOK, WorkTypes, QueueTypes, Owning, Sending
<1>1. item[w] \in Items
  BY DEF InUse, ItemInUse, Chosen
<1>5. CASE Dropped(w)
  BY <1>5 DEF Dropped, Dispatching, queueVars
<1>2. CASE BeginDrain(w) \/ BeginManual(w)
  BY <1>2 DEF BeginDrain, BeginManual, Enter
<1>3. ASSUME Step(w) \/ Failure(w), ~Dropped(w)
      PROVE  \/ pc'[w] \in Owning /\ item'[w] = item[w]
             \/ status'[item[w]] # "dispatching"
  <2>1. CASE pc[w] = "remove"
    <3>1. RemoveSent(w)
      BY <1>3, <2>1 DEF Step, Failure, RecoverOrphans, FindItem, CheckPendingStart, ReadQueue,
         ReadFails, ProbeActivity, Claim, Send, EngineAccepts, Answered, Continue, Unclaim,
         MarkFailed, Release, StartTimesOut, RequestRefused, RequestInterrupted
    <3>2. status'[item[w]] = "absent"
      BY <1>1, <3>1 DEF RemoveSent, Drop, Queued
    <3> QED BY <3>2
  <2>2. CASE pc[w] = "unclaim"
    <3>1. Unclaim(w)
      BY <1>3, <2>2 DEF Step, Failure, RecoverOrphans, FindItem, CheckPendingStart, ReadQueue,
         ReadFails, ProbeActivity, Claim, Send, EngineAccepts, Answered, RemoveSent, Continue,
         MarkFailed, Release, StartTimesOut, RequestRefused, RequestInterrupted
    <3>2. status'[item[w]] # "dispatching"
      BY <1>1, <3>1 DEF Unclaim, WithoutClaim, Dispatching
    <3> QED BY <3>2
  <2>3. CASE pc[w] \in Sending
    <3>1. Asks(w)
      BY <1>3, <2>3 DEF Asks, Step, Failure, RecoverOrphans, FindItem, CheckPendingStart,
         ReadQueue, ReadFails, ProbeActivity, Claim, RemoveSent, Continue, Unclaim, MarkFailed,
         Release
    <3>2. item' = item
      BY <3>1 DEF Asks, Send, EngineAccepts, Answered, StartTimesOut, RequestRefused,
         RequestInterrupted, Requesting
    <3>3. pc'[w] \in Owning
      BY <3>1 DEF Asks, Send, EngineAccepts, Answered, StartTimesOut, RequestRefused,
         RequestInterrupted, Refused, Goto
    <3> QED BY <3>2, <3>3
  <2> QED BY <2>1, <2>2, <2>3 DEF Owning, Sending
<1>4. CASE pc'[w] = pc[w] /\ item'[w] = item[w]
  BY <1>4
<1> QED BY <1>2, <1>3, <1>4, <1>5, OwnSteps

\* The claims that were left behind are noted until the next task gives them up.
LEMMA LeftBehind ==
  ASSUME TypeInv, [Next]_vars, NEW i \in abandoned, Dispatching(i)'
  PROVE  i \in abandoned' \/ ~Dispatching(i)
<1> USE DEF TypeInv, TypeOK, CountTypes, leftVars
<1>1. CASE Users
  BY <1>1 DEF Users, Enqueue, RemoveItem, UpdateRead, Reorder, ResumeCheck, DirectSend, Idle,
     ManualFindsBusy, BeginManual
<1>2. CASE Crash
  BY <1>2 DEF Crash
<1>3. CASE \/ UpdateWrite \/ ResumeWrite \/ WakeDrain \/ RequestEnds \/ DrainFindsBusy
           \/ RetryFires \/ DirectAnswered \/ ReconcileStart \/ LateAccept \/ LeftStart
           \/ TurnEnds \/ Ages \/ MarkPendingResume \/ UNCHANGED vars
  BY <1>3 DEF UpdateWrite, ResumeWrite, WakeDrain, RequestEnds, DrainFindsBusy, RetryFires,
     DirectAnswered, ReconcileStart, LateAccept, LeftStart, TurnEnds, Ages, MarkPendingResume,
     Idle, vars
<1>4. ASSUME NEW w \in Workers, RecoverOrphans(w)
      PROVE  ~Dispatching(i)'
  BY <1>4 DEF RecoverOrphans, Dispatching, QueueTypes
<1>5. ASSUME NEW w \in Workers, BeginDrain(w) \/ Step(w) \/ Failure(w), ~RecoverOrphans(w)
      PROVE  i \in abandoned'
  BY <1>5 DEF BeginDrain, Step, Failure, FindItem, CheckPendingStart, ReadQueue, ReadFails,
     ProbeActivity, Watching, Claim, Send, EngineAccepts, Answered, StartTimesOut,
     RequestRefused, RequestInterrupted, Requesting, RemoveSent, Continue, Unclaim, MarkFailed,
     Quiet, Dropped, Release
<1> QED BY <1>1, <1>2, <1>3, <1>4, <1>5 DEF Next

\* Every claim keeps a task that answers for it, or is noted as left behind.
LEMMA OwnedStep ==
  ASSUME TypeInv, ClaimsAreOwned, [Next]_vars
  PROVE  ClaimsAreOwned'
<1> SUFFICES ASSUME NEW i \in Items, Dispatching(i)'
             PROVE  i \in abandoned' \/ \E w \in Workers : item'[w] = i /\ pc'[w] \in Owning
  BY DEF ClaimsAreOwned, Owning, Sending
<1>1. CASE Crash
  BY <1>1 DEF Crash, Dispatching, queueVars
<1>2. CASE ~Crash /\ ~Dispatching(i)
  BY <1>2, ClaimsArise DEF Owning, Sending
<1>3. CASE ~Crash /\ Dispatching(i) /\ i \in abandoned
  BY <1>3, LeftBehind
<1>4. CASE ~Crash /\ Dispatching(i) /\ i \notin abandoned
  <2>1. PICK w \in Workers : item[w] = i /\ pc[w] \in Owning
    BY <1>4 DEF ClaimsAreOwned
  <2> QED BY <1>4, <2>1, OwnersStay DEF Dispatching
<1> QED BY <1>1, <1>2, <1>3, <1>4

\* While a claim is there, its task sends what the queue shows.
LEMMA ContentStep ==
  ASSUME TypeInv, SingleDispatcher, ContentInv, [Next]_vars
  PROVE  ContentInv'
<1> SUFFICES ASSUME NEW w \in Workers, pc'[w] \in Sending, status'[item'[w]] = "dispatching"
             PROVE  edition'[item'[w]] = carried'[w]
  BY DEF ContentInv, Dispatching
<1>1. \/ pc[w] = "claim" /\ pc'[w] = "send" /\ item'[w] = item[w]
      \/ pc[w] \in Sending /\ item'[w] = item[w] /\ carried'[w] = carried[w]
  BY OwnersCarry DEF Owning
<1>2. holder = w
  BY <1>1 DEF SingleDispatcher, Holds, Sending
<1>3. item[w] \in Items
  BY <1>1 DEF Sending, Chosen, TypeInv, TypeOK, QueueTypes, InUse, ItemInUse
<1>4. CASE pc[w] = "claim"
  <2>1. Claim(w)
    BY <1>1, <1>4, OwnSteps
       DEF Step, Failure, RecoverOrphans, FindItem, CheckPendingStart, ReadQueue, ReadFails,
           ProbeActivity, Send, EngineAccepts, Answered, RemoveSent, Continue, Unclaim, MarkFailed,
           Dropped, LeaveQuietly, Goto, Release, StartTimesOut, RequestRefused,
           RequestInterrupted, Crash, BeginDrain, BeginManual, Enter, Sending, TypeInv, TypeOK,
           WorkTypes
  <2> QED BY <1>1, <1>3, <1>4, <2>1 DEF Claim, Goto, Sending, TypeInv, TypeOK, WorkTypes
<1>5. CASE pc[w] \in Sending
  <2>1. Dispatching(item[w])
    <3>1. SUFFICES ASSUME NEW v \in Workers, pc[v] = "claim" PROVE FALSE
      BY <1>1, <1>3, <1>5, ClaimsArise DEF Dispatching, Sending
    <3> QED BY <1>2, <1>5, <3>1 DEF SingleDispatcher, Holds, Sending
  <2>2. edition'[item[w]] = edition[item[w]]
    BY <1>3, <2>1, ClaimsShield
  <2> QED BY <1>1, <1>5, <2>1, <2>2 DEF ContentInv, Sending
<1> QED BY <1>1, <1>4, <1>5

\* The same of the step that ends the sending.
LEMMA ShieldStep ==
  ASSUME TypeInv, SingleDispatcher, ContentInv, [Next]_vars,
         NEW w \in Workers, pc[w] \in Sending, pc'[w] \in Sending \cup {"remove"},
         Dispatching(item[w])
  PROVE  status'[item[w]] # "absent" /\ edition'[item[w]] = carried'[w]
<1>1. carried'[w] = carried[w]
  BY OwnersCarry DEF Owning, Sending
<1>2. item[w] \in Items /\ holder = w
  BY DEF Sending, Chosen, TypeInv, TypeOK, QueueTypes, InUse, ItemInUse, SingleDispatcher, Holds
<1>3. edition'[item[w]] = edition[item[w]]
  BY <1>2, ClaimsShield
<1>4. \A v \in Workers : pc[v] # "remove"
  BY <1>2 DEF SingleDispatcher, Holds, Sending
<1>5. status'[item[w]] # "absent"
  BY <1>2, <1>4, ClaimsShield DEF Queued
<1> QED BY <1>1, <1>3, <1>5 DEF ContentInv

\* Whatever the interleaving of tasks and browsers: every claim on an item has a task that
\* will send it or give the claim back, or a crash or a dropped handler has left it for the
\* next task in the guard; and as long as the queue shows an item as being dispatched, no
\* request of a user takes it away or changes what its task is sending.
THEOREM ClaimsAreKept == Spec => ClaimsHold
<1> DEFINE Shielded == \A w \in Workers :
             pc[w] \in Sending /\ pc'[w] \in Sending \cup {"remove"} /\ Dispatching(item[w])
               => /\ status'[item[w]] # "absent"
                  /\ edition'[item[w]] = carried'[w]
           Inv == TypeInv /\ SingleDispatcher /\ ClaimsAreOwned /\ ContentInv
<1>1. Init => Inv
  BY InitTypes, QueueConstants
     DEF Init, SingleDispatcher, Holds, ClaimsAreOwned, Dispatching, ContentInv, Sending
<1>2. Inv /\ [Next]_vars => Inv'
  BY TypeStep, GuardStep, OwnedStep, ContentStep
<1>3. Inv /\ [Next]_vars => [ClaimsAreOwned']_vars
  BY OwnedStep
<1>4. Inv /\ [Next]_vars => [Shielded]_vars
  BY ShieldStep
<1> HIDE DEF Inv, Shielded
<1>5. Spec => [][ClaimsAreOwned']_vars /\ [][Shielded]_vars
  BY <1>1, <1>2, <1>3, <1>4, PTL DEF Spec
<1> QED BY <1>5 DEF ClaimsHold, ClaimShields, Shielded

----------------------------------------------------------------------------
(* The queue is not left behind.                                           *)

\* There is work to do and nothing to wait for; something will bring a task; a
\* task is at it.
Waits == order # <<>> /\ ~resumePending /\ restored
Woken == spawned > 0 \/ retry \/ waking > 0 \/ missed
Tends(w) == Draining(w) \/ pc[w] = "continue"

\* Only a drain that begins takes the last wake-up, or one that reads its queue,
\* and a crash.
LEMMA WokenStays ==
  ASSUME TypeInv, [Next]_vars, Woken
  PROVE  Woken' \/ Crash \/ \E w \in Workers : BeginDrain(w) \/ ReadQueue(w)
<1> USE DEF TypeInv, TypeOK, CountTypes, Woken, guardVars, userVars, leftVars, Spawn
<1>1. CASE Users
  BY <1>1 DEF Users, Enqueue, RemoveItem, UpdateRead, Reorder, ResumeCheck, DirectSend, Idle,
              ManualFindsBusy, BeginManual, UserActs
<1>2. CASE \/ UpdateWrite \/ ResumeWrite \/ WakeDrain \/ RequestEnds \/ DrainFindsBusy
           \/ RetryFires \/ DirectAnswered \/ ReconcileStart \/ LateAccept \/ LeftStart
           \/ TurnEnds \/ Ages \/ MarkPendingResume \/ UNCHANGED vars
  BY <1>2 DEF UpdateWrite, ResumeWrite, WakeDrain, RequestEnds, DrainFindsBusy, RetryFires,
              DirectAnswered, ReconcileStart, LateAccept, LeftStart, TurnEnds, Ages,
              MarkPendingResume, Idle, vars
<1>3. ASSUME NEW w \in Workers, FindItem(w) \/ CheckPendingStart(w) \/ ReadFails(w)
                                 \/ ProbeActivity(w)
      PROVE  Woken'
  BY <1>3 DEF FindItem, CheckPendingStart, ReadFails, ProbeActivity, Watching, LeaveQuietly,
     LeaveAndRetry
<1>4. ASSUME NEW w \in Workers, Asks(w) \/ RecoverOrphans(w) \/ Claim(w) \/ Release(w)
      PROVE  Woken'
  BY <1>4 DEF Asks, Send, EngineAccepts, Answered, StartTimesOut, RequestRefused,
     RequestInterrupted, Requesting, RecoverOrphans, Claim, Release
<1>5. ASSUME NEW w \in Workers, RemoveSent(w) \/ Continue(w) \/ Unclaim(w) \/ MarkFailed(w)
      PROVE  Woken'
  BY <1>5 DEF RemoveSent, Continue, Unclaim, MarkFailed, Quiet, LeaveQuietly, LeaveAndRetry
<1>6. ASSUME NEW w \in Workers, Dropped(w)
      PROVE  Woken'
  <2>1. UNCHANGED <<spawned, retry, waking>> /\ (missed => missed')
    BY <1>6 DEF Dropped, LeaveQuietly
  <2> QED BY <2>1
<1> QED BY <1>1, <1>2, <1>3, <1>4, <1>5, <1>6 DEF Next, Step, Failure, Asks

\* The queue begins to wait by a request that goes on to wake a drain, or by a
\* task: one that has sent its item and looks at the rest next, or one that gives
\* up orphans, and with them a pause.
LEMMA WaitsBegin ==
  ASSUME TypeInv, [Next]_vars, Waits'
  PROVE  Waits \/ Woken' \/ \E w \in Workers : Tends(w)'
<1> USE DEF TypeInv, TypeOK, FlagTypes, CountTypes, Waits, Woken, leftVars
<1>1. CASE Enqueue \/ ResumeWrite
  <2>1. waking' = waking + 1
    BY <1>1 DEF Enqueue, ResumeWrite
  <2> QED BY <2>1
<1>2. CASE MarkPendingResume
  BY <1>2 DEF MarkPendingResume
<1>3. CASE RemoveItem
  <2>1. order \in Seq(Items) /\ Len(order) \in Nat
    BY LenProperties DEF QueueTypes
  <2>2. PICK k \in DOMAIN order : order' = RemoveAt(order, k)
    BY <1>3 DEF RemoveItem, Drop
  <2>3. Len(order') = Len(order) - 1 /\ order' \in Seq(Items)
    BY <2>1, <2>2, RemoveAtProperties
  <2>4. Len(order) > 1 /\ order # <<>>
    BY <2>1, <2>3, EmptySeq
  <2>5. resumePending' = resumePending /\ restored' = restored
    BY <1>3, <2>4 DEF RemoveItem
  <2> QED BY <2>4, <2>5
<1>4. CASE Reorder
  <2>1. Len(order) > 1 /\ UNCHANGED <<resumePending, restored>>
    BY <1>4 DEF Reorder
  <2>2. order # <<>>
    BY <2>1, EmptySeq
  <2> QED BY <2>1, <2>2
<1>5. CASE UpdateWrite
  BY <1>5 DEF UpdateWrite
<1>6. ASSUME NEW w \in Workers, RemoveSent(w)
      PROVE  Waits \/ Tends(w)'
  <2>1. CASE Queued(item[w])
    BY <1>6, <2>1 DEF RemoveSent, Goto, Tends, WorkTypes
  <2>2. CASE ~Queued(item[w])
    BY <1>6, <2>2 DEF RemoveSent, Quiet
  <2> QED BY <2>1, <2>2
<1>10. ASSUME NEW w \in Workers, RecoverOrphans(w)
       PROVE  Waits \/ missed' \/ Tends(w)'
  <2>1. UNCHANGED <<order, restored, task>>
    BY <1>10 DEF RecoverOrphans
  <2>2. CASE task[w] = "drain"
    BY <1>10, <2>1, <2>2 DEF RecoverOrphans, Goto, Tends, Draining, WorkTypes
  <2>3. CASE task[w] # "drain"
    BY <1>10, <2>1, <2>3 DEF RecoverOrphans
  <2> QED BY <2>2, <2>3
<1>7. ASSUME NEW w \in Workers, Claim(w) \/ Unclaim(w)
      PROVE  Waits
  BY <1>7 DEF Claim, Unclaim, Quiet
<1>8. ASSUME NEW w \in Workers, MarkFailed(w)
      PROVE  Waits
  <2>1. UNCHANGED <<order, restored>>
    BY <1>8 DEF MarkFailed, Quiet
  <2>2. resumePending' = TRUE \/ resumePending' = resumePending
    BY <1>8 DEF MarkFailed
  <2> QED BY <2>1, <2>2
<1>9. UNCHANGED <<queueVars, used, removed>> => Waits \/ MarkPendingResume
  <2>1. restored' => restored \/ MarkPendingResume
    BY DEF Next, Users, Step, Failure, vars, Enqueue, RemoveItem, UpdateRead, UpdateWrite,
       Reorder, ResumeCheck, ResumeWrite, WakeDrain, RequestEnds, DrainFindsBusy, RetryFires,
       ManualFindsBusy, DirectSend, DirectAnswered, ReconcileStart, LateAccept, LeftStart,
       TurnEnds, Ages, Idle, Crash, BeginDrain, BeginManual, RecoverOrphans, FindItem,
       CheckPendingStart, ReadQueue, ReadFails, ProbeActivity, Watching, Claim, Send,
       EngineAccepts, Answered, StartTimesOut, RequestRefused, RequestInterrupted, Requesting,
       RemoveSent, Continue, Unclaim, MarkFailed, Quiet, Dropped, Release
  <2> QED BY <2>1 DEF queueVars
<1> QED BY <1>1, <1>2, <1>3, <1>4, <1>5, <1>6, <1>7, <1>8, <1>9, <1>10, QueueMoves

\* A task that is at the queue stays at it until it has set a timer or spawned a
\* drain, or has found nothing to do, or has failed and is noted.
LEMMA TendsOn ==
  ASSUME TypeInv, NEW w \in Workers, Step(w) \/ Failure(w), Tends(w), Waits'
  PROVE  Tends(w)' \/ Woken'
<1> USE DEF TypeInv, TypeOK, WorkTypes, CountTypes, Goto, LeaveQuietly, LeaveAndRetry, Waits,
        Woken, Tends, Draining
<1>1. CASE FindItem(w)
  BY <1>1 DEF FindItem, InUse, ItemInUse
<1>2. CASE CheckPendingStart(w) \/ ProbeActivity(w)
  BY <1>2 DEF CheckPendingStart, ProbeActivity, Watching
<1>3. CASE ReadQueue(w)
  BY <1>3 DEF ReadQueue, NothingToDrain, Watching, queueVars
<1>4. CASE RemoveSent(w)
  BY <1>4 DEF RemoveSent, Quiet
<1>5. CASE Continue(w)
  BY <1>5 DEF Continue, NothingToDrain, Spawn, Quiet
<1>6. CASE Unclaim(w)
  BY <1>6 DEF Unclaim, Quiet
<1>7. CASE MarkFailed(w)
  BY <1>7 DEF MarkFailed, Quiet
<1>8. CASE ReadFails(w)
  BY <1>8 DEF ReadFails, Watching
<1>9. CASE Dropped(w)
  BY <1>9 DEF Dropped
<1>10. CASE RecoverOrphans(w) \/ Claim(w)
  BY <1>10 DEF RecoverOrphans, Claim
<1>11. CASE Asks(w)
  <2>1. task' = task /\ pc[w] \in Sending
    BY <1>11 DEF Asks, Send, EngineAccepts, Answered, StartTimesOut, RequestRefused,
       RequestInterrupted, Requesting, Sending
  <2>2. pc'[w] \in {"accept", "accepted", "remove", "unclaim"}
    BY <1>11 DEF Asks, Send, EngineAccepts, Answered, StartTimesOut, RequestRefused,
       RequestInterrupted, Refused
  <2> QED BY <2>1, <2>2 DEF Sending
<1>12. CASE Release(w)
  BY <1>12 DEF Release
<1> QED
  BY <1>1, <1>2, <1>3, <1>4, <1>5, <1>6, <1>7, <1>8, <1>9, <1>10, <1>11, <1>12
     DEF Step, Failure, Asks

\* No wake-up is lost by a step.
LEMMA WakeStep ==
  ASSUME TypeInv, NoLostWakeup, [Next]_vars
  PROVE  NoLostWakeup'
<1> SUFFICES ASSUME Waits' PROVE Woken' \/ \E w \in Workers : Tends(w)'
  BY DEF NoLostWakeup, Waits, Woken, Tends, Draining
<1> USE DEF TypeInv, TypeOK, WorkTypes
<1>1. ~Crash
  BY DEF Crash, Waits
<1>2. ASSUME NEW w \in Workers, BeginDrain(w)
      PROVE  Tends(w)'
  BY <1>2 DEF BeginDrain, Enter, Tends, Draining
<1>3. ASSUME NEW w \in Workers, ReadQueue(w)
      PROVE  Tends(w)' \/ Woken'
  <2>1. task[w] = "drain"
    BY <1>3 DEF ReadQueue, InUse, ItemInUse
  <2>2. Tends(w)
    BY <1>3, <2>1 DEF ReadQueue, Tends, Draining
  <2> QED BY <1>3, <2>2, TendsOn DEF Step
<1>4. CASE Waits /\ Woken
  BY <1>1, <1>2, <1>3, <1>4, WokenStays
<1>5. CASE Waits /\ ~Woken
  <2>1. PICK w \in Workers : Tends(w)
    BY <1>5 DEF NoLostWakeup, Waits, Woken, Tends, Draining
  <2>2. CASE Step(w) \/ Failure(w)
    BY <2>1, <2>2, TendsOn
  <2>3. CASE pc'[w] = pc[w] /\ item'[w] = item[w] /\ task'[w] = task[w]
    BY <2>1, <2>3 DEF Tends, Draining
  <2>4. CASE BeginDrain(w) \/ BeginManual(w)
    BY <2>1, <2>4 DEF BeginDrain, BeginManual, Enter, Tends, Draining
  <2> QED BY <1>1, <2>2, <2>3, <2>4, OwnSteps
<1>6. CASE ~Waits
  BY <1>6, WaitsBegin
<1> QED BY <1>4, <1>5, <1>6

\* However many notifications are lost, and whatever dies or is dropped: whenever the queue
\* has an item and no pause, a drain is spawned, on a timer or at work, or a request is about
\* to spawn it, unless a request was stopped right there or a drain could not read its queue.
THEOREM WakeupIsKept == Spec => []NoLostWakeup
<1>1. Init => TypeInv /\ NoLostWakeup
  BY InitTypes DEF Init, NoLostWakeup
<1>2. TypeInv /\ NoLostWakeup /\ [Next]_vars => TypeInv' /\ NoLostWakeup'
  BY TypeStep, WakeStep
<1> QED BY <1>1, <1>2, PTL DEF Spec
=============================================================================
