------------------------ MODULE SessionEventRelayProofs ------------------------
(***************************************************************************)
(* Theorems about the relay of a session's events (SessionEventRelay.tla), *)
(* for any number of browsers, tasks and events, and any capacity.         *)
(*                                                                         *)
(* IInv is the invariant.  A browser has one request out or one answer     *)
(* coming exactly while it waits (OneAnswer), so what it believes is what  *)
(* the gateway did last; a browser that is promised its events, by an      *)
(* acknowledgement that is on its way or that it has (Promised), is heard  *)
(* (Heard); and what it is owed is with its task or on its wire (Owing).   *)
(* These rest on where a handle may be while its task is cut off           *)
(* (RequestOK, TaskOK) and on an open socket's connection being served     *)
(* (LinkOK), without which a task would leave without a word.              *)
(***************************************************************************)
EXTENDS SessionEventRelay, SequenceTheorems, TLAPS

-------------------------------------------------------------------------------
(* The parts of the invariant.                                             *)

\* The requests whose answer browser c waits for, and the answers on their way.
Asked(c)     == {s \in subs : s.client = c /\ s.live}
AnswersIn(w) == {i \in DOMAIN w : w[i].kind \in {"subscribe", "unsubscribe"}}
Kinds(w)     == {w[i].kind : i \in AnswersIn(w)}
Single(w)    == \A i, j \in AnswersIn(w) : i = j

\* What a browser that believes what it does may ask for.
Kind(c) == IF synced[c] THEN "unsubscribe" ELSE "subscribe"

RequestOK(s) ==
  /\ s.at = "ensured" => s.arg \in Relays /\ s.kind = "subscribe"
  /\ s.at = "removed" => s.kind = "unsubscribe"
  /\ s.at = "removed" /\ s.arg \in Tasks => tasks[s.arg] = NoTask \/ ~tasks[s.arg].installed
  /\ s.live => s.gen = gen[s.client]

TaskOK(t) ==
  tasks[t] # NoTask =>
    /\ tasks[t].at = "leaving" => tasks[t].inbox = <<>> /\ ~tasks[t].lagged /\ tasks[t].held = {}
    /\ tasks[t].aborted => ~tasks[t].installed

LinkOK(c) ==
  /\ open[c] => <<c, gen[c]>> \in served
  /\ ~open[c] => ~synced[c] /\ wire[c] = <<>>

OneAnswer(c) ==
  open[c] =>
    /\ Single(wire[c])
    /\ \A s1, s2 \in Asked(c) : s1 = s2
    /\ Asked(c) = {} \/ Kinds(wire[c]) = {}
    /\ syncing[c] <=> Asked(c) # {} \/ Kinds(wire[c]) # {}
    /\ \A s \in Asked(c) : s.kind = Kind(c)
    /\ Kinds(wire[c]) \subseteq {Kind(c)}

Promised(c) ==
  /\ open[c] /\ c \notin deaf
  /\ \/ "subscribe" \in Kinds(wire[c])
     \/ /\ synced[c] /\ Kinds(wire[c]) = {}
        /\ \A s \in Asked(c) : s.at # "removed"

Heard(c) == ToldToResync(c) \/ \E t \in Installed(c, gen[c]) : Hears(tasks[t], relay)

Requested == \A s \in subs : RequestOK(s)

-----------------------------------------------------------------------------
(* Sequences and records.                                                  *)

\* What a sequence holds is its range.
LEMMA Elements ==
  ASSUME NEW S, NEW s \in Seq(S)
  PROVE  ToSet(s) = Range(s) /\ ToSet(s) \subseteq S
<1>1. ToSet(s) = Range(s)
  BY DEF ToSet, Range
<1> QED BY <1>1, RangeOfSeq

\* What two sequences hold when they are joined, and where.
LEMMA Joined ==
  ASSUME NEW S, NEW s \in Seq(S), NEW t \in Seq(S)
  PROVE  /\ s \o t \in Seq(S)
         /\ ToSet(s \o t) = ToSet(s) \cup ToSet(t)
         /\ \A i \in DOMAIN s : i \in DOMAIN (s \o t) /\ (s \o t)[i] = s[i]
         /\ \A i \in DOMAIN (s \o t) : i \notin DOMAIN s => (s \o t)[i] \in ToSet(t)
<1>1. /\ s \o t \in Seq(S) /\ Len(s \o t) = Len(s) + Len(t)
      /\ \A i \in 1..Len(s) + Len(t) : (s \o t)[i] = IF i <= Len(s) THEN s[i] ELSE t[i - Len(s)]
  BY ConcatProperties
<1>2. DOMAIN s = 1..Len(s) /\ DOMAIN t = 1..Len(t) /\ DOMAIN (s \o t) = 1..(Len(s) + Len(t))
      /\ Len(s) \in Nat /\ Len(t) \in Nat
  BY <1>1, LenProperties
<1>3. ToSet(s \o t) = ToSet(s) \cup ToSet(t)
  <2>1. Range(s \o t) = Range(s) \cup Range(t)
    BY RangeConcatenation
  <2>2. ToSet(s \o t) = Range(s \o t) /\ ToSet(s) = Range(s) /\ ToSet(t) = Range(t)
    BY <1>1, Elements
  <2> QED BY <2>1, <2>2
<1>4. ASSUME NEW i \in DOMAIN (s \o t), i \notin DOMAIN s PROVE (s \o t)[i] \in ToSet(t)
  <2>1. i - Len(s) \in DOMAIN t /\ (s \o t)[i] = t[i - Len(s)]
    BY <1>1, <1>2, <1>4
  <2> QED BY <2>1 DEF ToSet
<1>5. \A i \in DOMAIN s : i \in DOMAIN (s \o t) /\ (s \o t)[i] = s[i]
  BY <1>1, <1>2
<1> QED BY <1>1, <1>3, <1>4, <1>5

\* What a sequence holds when an element is appended, and where.
LEMMA Appended ==
  ASSUME NEW S, NEW s \in Seq(S), NEW e \in S
  PROVE  /\ Append(s, e) \in Seq(S)
         /\ ToSet(Append(s, e)) = ToSet(s) \cup {e}
         /\ DOMAIN Append(s, e) = DOMAIN s \cup {Len(s) + 1} /\ Len(s) + 1 \notin DOMAIN s
         /\ \A i \in DOMAIN s : Append(s, e)[i] = s[i]
         /\ Append(s, e)[Len(s) + 1] = e
<1>1. Append(s, e) \in Seq(S) /\ Len(Append(s, e)) = Len(s) + 1 /\ Append(s, e)[Len(s) + 1] = e
      /\ \A i \in 1..Len(s) : Append(s, e)[i] = s[i]
  BY AppendProperties
<1>2. DOMAIN s = 1..Len(s) /\ DOMAIN Append(s, e) = 1..(Len(s) + 1) /\ Len(s) \in Nat
  BY <1>1, LenProperties
<1>3. DOMAIN Append(s, e) = DOMAIN s \cup {Len(s) + 1} /\ Len(s) + 1 \notin DOMAIN s
  BY <1>2
<1>4. ToSet(Append(s, e)) = ToSet(s) \cup {e}
  BY <1>1, <1>2, <1>3 DEF ToSet
<1> QED BY <1>1, <1>2, <1>3, <1>4

\* What a sequence holds but for its head, and where.
LEMMA Taken ==
  ASSUME NEW S, NEW s \in Seq(S), s # <<>>
  PROVE  /\ Tail(s) \in Seq(S) /\ Head(s) \in S /\ 1 \in DOMAIN s /\ Head(s) = s[1]
         /\ ToSet(s) = {Head(s)} \cup ToSet(Tail(s))
         /\ \A i \in DOMAIN Tail(s) : i \in Nat \ {0} /\ i + 1 \in DOMAIN s /\ Tail(s)[i] = s[i + 1]
<1>1. /\ Head(s) \in S /\ Tail(s) \in Seq(S) /\ Len(Tail(s)) = Len(s) - 1
      /\ \A i \in 1..Len(Tail(s)) : Tail(s)[i] = s[i+1]
  BY HeadTailProperties
<1>2. /\ DOMAIN s = 1..Len(s) /\ DOMAIN Tail(s) = 1..(Len(s) - 1) /\ Len(s) \in Nat /\ Len(s) # 0
  BY <1>1, LenProperties, EmptySeq
<1>3. Head(s) = s[1]
  OBVIOUS
<1>4. \A i \in DOMAIN s : i # 1 => i - 1 \in DOMAIN Tail(s) /\ Tail(s)[i - 1] = s[i]
  BY <1>1, <1>2
<1>5. \A i \in DOMAIN Tail(s) : i \in Nat \ {0} /\ i + 1 \in DOMAIN s /\ Tail(s)[i] = s[i + 1]
  BY <1>1, <1>2
<1>6. ToSet(s) = {Head(s)} \cup ToSet(Tail(s))
  <2>1. ASSUME NEW i \in DOMAIN s PROVE s[i] \in {Head(s)} \cup ToSet(Tail(s))
    BY <1>3, <1>4 DEF ToSet
  <2>2. ASSUME NEW i \in DOMAIN Tail(s) PROVE Tail(s)[i] \in ToSet(s)
    BY <1>5 DEF ToSet
  <2>3. Head(s) \in ToSet(s)
    BY <1>2, <1>3 DEF ToSet
  <2> QED BY <2>1, <2>2, <2>3 DEF ToSet
<1> QED BY <1>1, <1>2, <1>3, <1>5, <1>6

\* What a sequence holds but for its k-th element.
LEMMA Removed ==
  ASSUME NEW S, NEW s \in Seq(S), NEW k \in DOMAIN s
  PROVE  /\ RemoveAt(s, k) \in Seq(S)
         /\ ToSet(RemoveAt(s, k)) = {s[j] : j \in DOMAIN s \ {k}}
<1> DEFINE a == SubSeq(s, 1, k - 1)
           b == SubSeq(s, k + 1, Len(s))
<1>1. DOMAIN s = 1..Len(s) /\ Len(s) \in Nat /\ \A i \in DOMAIN s : s[i] \in S
  BY LenProperties, ElementOfSeq
<1>2. k \in Nat /\ k >= 1 /\ k <= Len(s)
  BY <1>1
<1>3. a \in Seq(S) /\ Len(a) = k - 1 /\ \A i \in 1..(k - 1) : a[i] = s[i]
  <2>1. \A i \in 1..(k - 1) : s[i] \in S
    BY <1>1, <1>2
  <2>2. a \in Seq(S) /\ Len(a) = (IF 1 <= k - 1 THEN (k - 1) - 1 + 1 ELSE 0)
        /\ \A i \in 1..((k - 1) - 1 + 1) : a[i] = s[1 + i - 1]
    BY <1>2, <2>1, SubSeqProperties
  <2> QED BY <1>2, <2>2
<1>4. b \in Seq(S) /\ Len(b) = Len(s) - k /\ \A i \in 1..(Len(s) - k) : b[i] = s[k + i]
  <2>1. \A i \in (k + 1)..Len(s) : s[i] \in S
    BY <1>1, <1>2
  <2>2. b \in Seq(S) /\ Len(b) = (IF k + 1 <= Len(s) THEN Len(s) - (k + 1) + 1 ELSE 0)
        /\ \A i \in 1..(Len(s) - (k + 1) + 1) : b[i] = s[k + 1 + i - 1]
    BY <1>1, <1>2, <2>1, SubSeqProperties
  <2> QED BY <1>1, <1>2, <2>2
<1>5. RemoveAt(s, k) = a \o b
  BY DEF RemoveAt
<1> HIDE DEF a, b
<1>6. a \o b \in Seq(S) /\ ToSet(a \o b) = ToSet(a) \cup ToSet(b)
  BY <1>3, <1>4, Joined
<1>7. DOMAIN a = 1..(k - 1) /\ DOMAIN b = 1..(Len(s) - k)
  BY <1>3, <1>4, LenProperties
<1>8. ASSUME NEW j \in DOMAIN s \ {k} PROVE s[j] \in ToSet(a) \cup ToSet(b)
  <2>1. CASE j < k
    <3>1. j \in DOMAIN a /\ a[j] = s[j]
      BY <1>1, <1>2, <1>3, <1>7, <2>1
    <3> QED BY <3>1 DEF ToSet
  <2>2. CASE j > k
    <3>1. j - k \in DOMAIN b /\ b[j - k] = s[j]
      BY <1>1, <1>2, <1>4, <1>7, <2>2
    <3> QED BY <3>1 DEF ToSet
  <2> QED BY <1>1, <1>2, <2>1, <2>2
<1>9. ASSUME NEW i \in DOMAIN a PROVE i \in DOMAIN s \ {k} /\ a[i] = s[i]
  BY <1>1, <1>2, <1>3, <1>7
<1>10. ASSUME NEW i \in DOMAIN b PROVE k + i \in DOMAIN s \ {k} /\ b[i] = s[k + i]
  BY <1>1, <1>2, <1>4, <1>7
<1>11. ToSet(a) \cup ToSet(b) = {s[j] : j \in DOMAIN s \ {k}}
  BY <1>8, <1>9, <1>10 DEF ToSet
<1> QED BY <1>5, <1>6, <1>11

\* Events, the request to resync and the answers are messages.
LEMMA Messaging ==
  /\ \A s \in SUBSET Numbers : Event(s) \in Messages
  /\ Resync \in Messages
  /\ [kind |-> "subscribe"] \in Messages /\ [kind |-> "unsubscribe"] \in Messages
  BY DEF Messages, Event, Resync

\* What a task sends is made of messages.
LEMMA SendingOut ==
  ASSUME NEW tk \in TaskTypes
  PROVE  /\ Flushed(tk) \in Seq(Messages) /\ Lagged(tk) \in Seq(Messages)
         /\ \A n \in Numbers : Append(Flushed(tk), Event({n})) \in Seq(Messages)
<1>1. tk.held \in SUBSET Numbers
  BY DEF TaskTypes
<1>2. Flushed(tk) \in Seq(Messages)
  BY <1>1, Messaging DEF Flushed
<1>3. Lagged(tk) \in Seq(Messages)
  <2>1. <<Resync>> \in Seq(Messages)
    BY Messaging
  <2> QED BY <1>2, <2>1, ConcatProperties DEF Lagged
<1>4. \A n \in Numbers : Append(Flushed(tk), Event({n})) \in Seq(Messages)
  BY <1>2, Messaging, AppendProperties
<1> QED BY <1>2, <1>3, <1>4

\* A task that is left, aborted, uninstalled or flushed is a task.
LEMMA TaskEdits ==
  ASSUME NEW tk \in TaskTypes
  PROVE  /\ Left(tk) \in TaskTypes /\ Aborted(tk) \in TaskTypes
         /\ [tk EXCEPT !.installed = FALSE] \in TaskTypes
         /\ [tk EXCEPT !.held = {}] \in TaskTypes
         /\ tk # NoTask
<1>1. Left(tk) \in TaskTypes
  BY EmptySeq DEF TaskTypes, Left
<1>2. Aborted(tk) \in TaskTypes
  BY DEF TaskTypes, Aborted
<1>3. /\ [tk EXCEPT !.installed = FALSE] \in TaskTypes
      /\ [tk EXCEPT !.held = {}] \in TaskTypes
  BY DEF TaskTypes
<1>4. tk # NoTask
  <2>1. tk.at # "none"
    BY DEF TaskTypes
  <2> QED BY <2>1 DEF NoTask
<1> QED BY <1>1, <1>2, <1>3, <1>4

\* So is one that has read an event of its channel.
LEMMA TaskReads ==
  ASSUME NEW tk \in TaskTypes, tk.inbox # <<>>, NEW h \in SUBSET Numbers
  PROVE  /\ Head(tk.inbox) \in Numbers
         /\ [[tk EXCEPT !.inbox = Tail(@)] EXCEPT !.held = h] \in TaskTypes
<1>1. tk.inbox \in Seq(Numbers)
  BY DEF TaskTypes
<1>2. Head(tk.inbox) \in Numbers /\ Tail(tk.inbox) \in Seq(Numbers)
  BY <1>1, HeadTailProperties
<1> QED BY <1>2 DEF TaskTypes

\* So is one that is given an event.
LEMMA TaskGets ==
  ASSUME NEW tk \in TaskTypes, NEW n \in Numbers
  PROVE  Push(tk, n) \in TaskTypes
<1>1. tk.inbox \in Seq(Numbers) /\ Room \in Nat \ {0}
  BY RelayConstants DEF TaskTypes
<1>2. Append(tk.inbox, n) \in Seq(Numbers)
  BY <1>1, AppendProperties
<1>3. CASE Len(tk.inbox) < Room
  BY <1>2, <1>3 DEF TaskTypes, Push
<1>4. CASE ~(Len(tk.inbox) < Room)
  <2>1. tk.inbox # <<>>
    BY <1>1, <1>4, EmptySeq
  <2>2. Append(Tail(tk.inbox), n) \in Seq(Numbers)
    BY <1>1, <2>1, HeadTailProperties, AppendProperties
  <2> QED BY <1>4, <2>2 DEF TaskTypes, Push
<1> QED BY <1>3, <1>4

-------------------------------------------------------------------------------
(* Types.                                                                  *)

\* What the type of the tasks says of one.
LEMMA TaskIs ==
  ASSUME TypeOK, NEW t \in Tasks, tasks[t] # NoTask
  PROVE  /\ tasks[t] \in TaskTypes
         /\ tasks[t].client \in Clients /\ tasks[t].gen \in Nat /\ tasks[t].relay \in Relays
         /\ tasks[t].inbox \in Seq(Numbers) /\ tasks[t].held \in SUBSET Numbers
<1>1. tasks[t] \in TaskTypes
  BY DEF TypeOK
<1> QED BY <1>1 DEF TaskTypes

\* What the type of the requests says of one.
LEMMA RequestIs ==
  ASSUME TypeOK, NEW s \in subs
  PROVE  /\ s \in Requests /\ s.client \in Clients /\ s.gen \in Nat /\ s.arg \in Nat
         /\ s.kind \in {"subscribe", "unsubscribe"} /\ s.at \in {"sent", "ensured", "removed"}
BY DEF TypeOK, Requests

\* send_relay_envelope: one task goes on or is left, and the wires stay well typed.
LEMMA Sending ==
  ASSUME TypeOK, NEW t \in Tasks, tasks[t] # NoTask, NEW ms, NEW next \in TaskTypes, Sends(t, ms, next)
  PROVE  /\ tasks' \in [Tasks -> {NoTask} \cup TaskTypes]
         /\ \A u \in Tasks : u # t => tasks'[u] = tasks[u]
         /\ tasks'[t] = next \/ tasks'[t] = Left(tasks[t])
         /\ ms \in Seq(Messages) => wire' \in [Clients -> Seq(Messages)]
<1>1. tasks[t] \in TaskTypes /\ tasks[t].client \in Clients
  BY TaskIs
<1>2. Left(tasks[t]) \in TaskTypes
  BY <1>1, TaskEdits
<1>3. tasks \in [Tasks -> {NoTask} \cup TaskTypes] /\ wire \in [Clients -> Seq(Messages)]
  BY DEF TypeOK
<1>4. tasks' = [tasks EXCEPT ![t] = next] \/ tasks' = [tasks EXCEPT ![t] = Left(tasks[t])]
  BY DEF Sends
<1>5. wire' = wire \/ wire' = [wire EXCEPT ![tasks[t].client] = @ \o ms]
  BY DEF Sends
<1>6. ASSUME ms \in Seq(Messages) PROVE wire' \in [Clients -> Seq(Messages)]
  <2>1. wire[tasks[t].client] \o ms \in Seq(Messages)
    BY <1>1, <1>3, <1>6, ConcatProperties
  <2> QED BY <1>1, <1>3, <1>5, <2>1
<1>7. tasks' \in [Tasks -> {NoTask} \cup TaskTypes]
  BY <1>2, <1>3, <1>4
<1>8. \A u \in Tasks : u # t => tasks'[u] = tasks[u]
  BY <1>3, <1>4
<1>9. tasks'[t] = next \/ tasks'[t] = Left(tasks[t])
  BY <1>3, <1>4
<1> QED BY <1>6, <1>7, <1>8, <1>9

\* What a task sends when it takes an event from the channel.
LEMMA Receiving ==
  ASSUME TypeOK, NEW t \in Tasks, tasks[t] # NoTask, Receive(t)
  PROVE  \E h \in SUBSET Numbers, ms \in Seq(Messages) :
           LET tk == tasks[t]
           IN  /\ tk.at = "run" /\ ~tk.lagged /\ tk.inbox # <<>>
               /\ Sends(t, ms, [[tk EXCEPT !.inbox = Tail(@)] EXCEPT !.held = h])
               /\ \/ ms = <<>> /\ h = tk.held \cup {Head(tk.inbox)}
                  \/ ms = Flushed(tk) /\ h = {Head(tk.inbox)}
                  \/ ms = Append(Flushed(tk), Event({Head(tk.inbox)})) /\ h = {}
<1> DEFINE tk == tasks[t]
           n == Head(tk.inbox)
<1>1. tk \in TaskTypes /\ tk.held \in SUBSET Numbers
  BY TaskIs
<1>2. tk.at = "run" /\ ~tk.lagged /\ tk.inbox # <<>>
  BY DEF Receive
<1>3. n \in Numbers
  BY <1>1, <1>2, TaskReads
<1>4. Flushed(tk) \in Seq(Messages) /\ Append(Flushed(tk), Event({n})) \in Seq(Messages) /\ <<>> \in Seq(Messages)
  BY <1>1, <1>3, SendingOut, EmptySeq
<1>5. CASE Sends(t, <<>>, [[tk EXCEPT !.inbox = Tail(@)] EXCEPT !.held = @ \cup {n}])
  <2>1. [[tk EXCEPT !.inbox = Tail(@)] EXCEPT !.held = @ \cup {n}] = [[tk EXCEPT !.inbox = Tail(@)] EXCEPT !.held = tk.held \cup {n}]
    BY <1>1 DEF TaskTypes
  <2> QED BY <1>1, <1>2, <1>3, <1>4, <1>5, <2>1
<1>6. CASE Sends(t, Flushed(tk), [[tk EXCEPT !.inbox = Tail(@)] EXCEPT !.held = {n}])
  BY <1>1, <1>2, <1>3, <1>4, <1>6
<1>7. CASE Sends(t, Append(Flushed(tk), Event({n})), [[tk EXCEPT !.inbox = Tail(@)] EXCEPT !.held = {}])
  BY <1>1, <1>2, <1>3, <1>4, <1>7
<1> QED BY <1>5, <1>6, <1>7 DEF Receive

\* A task that has nothing more to hear sends what it must and is left.
LEMMA Stopping ==
  ASSUME TypeOK, NEW t \in Tasks, tasks[t] # NoTask, StopListening(t)
  PROVE  \E ms \in Seq(Messages) :
           LET tk == tasks[t]
           IN  /\ tk.at = "run" /\ Sends(t, ms, Left(tk))
               /\ \/ tk.lagged /\ ms = Lagged(tk)
                  \/ ~tk.lagged /\ tk.inbox = <<>> /\ ~HasSender(tk.relay) /\ ms = Flushed(tk)
<1>1. tasks[t] \in TaskTypes
  BY TaskIs
<1>2. Flushed(tasks[t]) \in Seq(Messages) /\ Lagged(tasks[t]) \in Seq(Messages)
  BY <1>1, SendingOut
<1> QED BY <1>2 DEF StopListening

\* An answer leaves the wires well typed.
LEMMA AnsweringType ==
  ASSUME TypeOK, NEW s \in subs, Answer(s)
  PROVE  wire' \in [Clients -> Seq(Messages)]
<1>1. s.client \in Clients /\ [kind |-> s.kind] \in Messages
  BY RequestIs, Messaging
<1>2. wire \in [Clients -> Seq(Messages)]
  BY DEF TypeOK
<1>3. Append(wire[s.client], [kind |-> s.kind]) \in Seq(Messages)
  BY <1>1, <1>2, AppendProperties
<1> QED BY <1>1, <1>2, <1>3 DEF Answer

\* So does a message that is taken from one.
LEMMA TakingType ==
  ASSUME TypeOK, NEW c \in Clients, wire[c] # <<>>, wire' = [wire EXCEPT ![c] = Tail(@)]
  PROVE  wire' \in [Clients -> Seq(Messages)]
<1>1. wire \in [Clients -> Seq(Messages)]
  BY DEF TypeOK
<1>2. Tail(wire[c]) \in Seq(Messages)
  BY <1>1, HeadTailProperties
<1> QED BY <1>1, <1>2

\* So does a socket that closes.
LEMMA ClosedType ==
  ASSUME TypeOK, NEW C \in SUBSET Clients, Closed(C)
  PROVE  /\ wire' \in [Clients -> Seq(Messages)]
         /\ owed' \in [Clients -> SUBSET Numbers]
<1>1. wire \in [Clients -> Seq(Messages)] /\ <<>> \in Seq(Messages) /\ owed \in [Clients -> SUBSET Numbers]
  BY EmptySeq DEF TypeOK
<1> QED BY <1>1 DEF Closed

\* Every step leaves the tasks well typed.
LEMMA TasksType ==
  ASSUME TypeOK, Requested, Next
  PROVE  tasks' \in [Tasks -> {NoTask} \cup TaskTypes]
<1> DEFINE Goal == tasks' \in [Tasks -> {NoTask} \cup TaskTypes]
<1>1. ASSUME NEW t \in Tasks, tasks[t] # NoTask, Receive(t) PROVE Goal
  <2>1. PICK h \in SUBSET Numbers, ms \in Seq(Messages) :
          tasks[t].inbox # <<>> /\ Sends(t, ms, [[tasks[t] EXCEPT !.inbox = Tail(@)] EXCEPT !.held = h])
    BY <1>1, Receiving
  <2>2. [[tasks[t] EXCEPT !.inbox = Tail(@)] EXCEPT !.held = h] \in TaskTypes
    BY <1>1, <2>1, TaskIs, TaskReads
  <2> QED BY <1>1, <2>1, <2>2, Sending
<1>2. ASSUME NEW t \in Tasks, tasks[t] # NoTask, Flush(t) PROVE Goal
  <2>1. [tasks[t] EXCEPT !.held = {}] \in TaskTypes
    BY <1>2, TaskIs, TaskEdits
  <2> QED BY <1>2, <2>1, Sending DEF Flush
<1>3. ASSUME NEW t \in Tasks, tasks[t] # NoTask, StopListening(t) PROVE Goal
  <2>1. PICK ms \in Seq(Messages) : Sends(t, ms, Left(tasks[t]))
    BY <1>3, Stopping
  <2>2. Left(tasks[t]) \in TaskTypes
    BY <1>3, TaskIs, TaskEdits
  <2> QED BY <1>3, <2>1, <2>2, Sending
<1>4. ASSUME NEW t \in Tasks, tasks[t] # NoTask, Leave(t) PROVE Goal
  BY <1>4, TaskIs, TaskEdits DEF Leave, Prune, Deafened, TypeOK
<1>5. ASSUME NEW t \in Tasks, tasks[t] # NoTask, AbortLands(t) PROVE Goal
  BY <1>5, TaskIs, TaskEdits DEF AbortLands, TypeOK
<1>6. ASSUME NEW cg \in served, Drain(cg[1], cg[2]) PROVE Goal
  <2>1. ASSUME NEW t \in Tasks PROVE (IF t \in Installed(cg[1], cg[2]) THEN Aborted(tasks[t]) ELSE tasks[t]) \in {NoTask} \cup TaskTypes
    BY TaskIs, TaskEdits DEF TypeOK, Installed
  <2> QED BY <1>6, <2>1 DEF Drain
<1>7. ASSUME NEW s \in subs, Attach(s) PROVE Goal
  <2> DEFINE new == [at |-> "run", client |-> s.client, gen |-> s.gen, relay |-> s.arg, inbox |-> <<>>, lagged |-> FALSE,
              held |-> {}, installed |-> TRUE, aborted |-> FALSE]
  <2>1. new \in TaskTypes
    <3>1. s.client \in Clients /\ s.gen \in Nat /\ s.arg \in Relays
      BY <1>7, RequestIs DEF Requested, RequestOK, Attach
    <3>2. <<>> \in Seq(Numbers)
      BY EmptySeq
    <3> QED BY <3>1, <3>2 DEF TaskTypes
  <2>2. ASSUME NEW t \in Tasks PROVE (IF t \in Installed(s.client, s.gen) THEN Aborted(tasks[t]) ELSE tasks[t]) \in {NoTask} \cup TaskTypes
    BY TaskIs, TaskEdits DEF TypeOK, Installed
  <2>3. PICK own : tasks' = [t \in Tasks |-> IF t = own THEN new
                               ELSE IF t \in Installed(s.client, s.gen) THEN Aborted(tasks[t]) ELSE tasks[t]]
    BY <1>7 DEF Attach
  <2> HIDE DEF new
  <2> QED BY <2>1, <2>2, <2>3
<1>8. ASSUME NEW s \in subs, TakeHandle(s) PROVE Goal
  <2>1. ASSUME NEW t \in Tasks PROVE (IF t \in Installed(s.client, s.gen) THEN [tasks[t] EXCEPT !.installed = FALSE] ELSE tasks[t]) \in {NoTask} \cup TaskTypes
    BY TaskIs, TaskEdits DEF TypeOK, Installed
  <2> QED BY <1>8, <2>1 DEF TakeHandle
<1>9. ASSUME NEW s \in subs, PruneAndAbort(s) PROVE Goal
  <2>1. ASSUME NEW t \in Tasks PROVE (IF t = s.arg /\ tasks[t] # NoTask THEN Aborted(tasks[t]) ELSE tasks[t]) \in {NoTask} \cup TaskTypes
    BY TaskIs, TaskEdits DEF TypeOK
  <2> QED BY <1>9, <2>1 DEF PruneAndAbort
<1>10. ASSUME Emit PROVE Goal
  <2>1. sent' \in Numbers
    BY <1>10, RelayConstants DEF Emit, TypeOK, Numbers
  <2>2. ASSUME NEW t \in Tasks PROVE (IF Hears(tasks[t], relay) THEN Push(tasks[t], sent') ELSE tasks[t]) \in {NoTask} \cup TaskTypes
    BY <2>1, TaskIs, TaskGets DEF TypeOK, Hears
  <2> QED BY <1>10, <2>2 DEF Emit
<1>11. ASSUME Crash PROVE Goal
  BY <1>11, TaskIs, TaskEdits DEF Crash, Fault, Closed, TypeOK
<1>12. ASSUME UNCHANGED tasks PROVE Goal
  BY <1>12, TaskIs, TaskEdits DEF TypeOK
<1>13. ASSUME NEW s \in subs,
       Ensure(s) \/ Refused(s) \/ Vanish(s)
      PROVE Goal
  BY <1>13, <1>12 DEF Ensure, Refused, Fault, Failed, Vanish
<1>14. ASSUME NEW c \in Clients,
       Select(c) \/ Deselect(c) \/ Answered(c) \/ TimesOut(c) \/ Retry(c) \/ EventComes(c)
       \/ Drop(c) \/ Resynced(c) \/ Reconnect(c)
      PROVE Goal
  BY <1>14, <1>12 DEF Select, Choose, Sync, Deselect, Answered, TimesOut, Fault, Deafened,
                      Failed, Retry, EventComes, Drop, Closed, Resynced, Reconnect
<1> SUFFICES Goal
  OBVIOUS
<1> HIDE DEF Goal
<1> QED BY <1>1, <1>2, <1>3, <1>4, <1>5, <1>6, <1>7, <1>8, <1>9, <1>10, <1>11, <1>12, <1>13,
           <1>14
     DEF Next, TaskStep, vars, relayVars, connVars, linkVars, subVars

\* Every step leaves the wires well typed.
LEMMA WireType ==
  ASSUME TypeOK, Requested, Next
  PROVE  wire' \in [Clients -> Seq(Messages)]
<1> DEFINE Goal == wire' \in [Clients -> Seq(Messages)]
<1>1. ASSUME NEW t \in Tasks, tasks[t] # NoTask, Receive(t) PROVE Goal
  <2>1. PICK h \in SUBSET Numbers, ms \in Seq(Messages) :
          tasks[t].inbox # <<>> /\ Sends(t, ms, [[tasks[t] EXCEPT !.inbox = Tail(@)] EXCEPT !.held = h])
    BY <1>1, Receiving
  <2>2. [[tasks[t] EXCEPT !.inbox = Tail(@)] EXCEPT !.held = h] \in TaskTypes
    BY <1>1, <2>1, TaskIs, TaskReads
  <2> QED BY <1>1, <2>1, <2>2, Sending
<1>2. ASSUME NEW t \in Tasks, tasks[t] # NoTask, Flush(t) PROVE Goal
  <2>1. [tasks[t] EXCEPT !.held = {}] \in TaskTypes /\ Flushed(tasks[t]) \in Seq(Messages)
    BY <1>2, TaskIs, TaskEdits, SendingOut
  <2> QED BY <1>2, <2>1, Sending DEF Flush
<1>3. ASSUME NEW t \in Tasks, tasks[t] # NoTask, StopListening(t) PROVE Goal
  <2>1. PICK ms \in Seq(Messages) : Sends(t, ms, Left(tasks[t]))
    BY <1>3, Stopping
  <2>2. Left(tasks[t]) \in TaskTypes
    BY <1>3, TaskIs, TaskEdits
  <2> QED BY <1>3, <2>1, <2>2, Sending
<1>4. ASSUME NEW s \in subs, Attach(s) PROVE Goal
  BY <1>4, AnsweringType DEF Attach
<1>5. ASSUME NEW s \in subs, TakeHandle(s) PROVE Goal
  BY <1>5, AnsweringType DEF TakeHandle, TypeOK
<1>6. ASSUME NEW s \in subs, PruneAndAbort(s) PROVE Goal
  BY <1>6, AnsweringType DEF PruneAndAbort
<1>7. ASSUME NEW c \in Clients, Answered(c) PROVE Goal
  BY <1>7, TakingType DEF Answered
<1>8. ASSUME NEW c \in Clients, TimesOut(c) PROVE Goal
  <2> DEFINE late == {i \in DOMAIN wire[c] : wire[c][i].kind \in {"subscribe", "unsubscribe"}}
             k == CHOOSE i \in late : TRUE
  <2>1. wire' = [wire EXCEPT ![c] = IF late = {} THEN @ ELSE RemoveAt(@, k)]
    BY <1>8 DEF TimesOut
  <2>2. wire \in [Clients -> Seq(Messages)] /\ (late # {} => k \in DOMAIN wire[c])
    BY DEF TypeOK
  <2> HIDE DEF k, late
  <2>3. late # {} => RemoveAt(wire[c], k) \in Seq(Messages)
    BY <2>2, Removed
  <2> QED BY <2>1, <2>2, <2>3
<1>9. ASSUME NEW c \in Clients, EventComes(c) PROVE Goal
  BY <1>9, TakingType DEF EventComes
<1>10. ASSUME NEW c \in Clients, Drop(c) PROVE Goal
  BY <1>10, ClosedType DEF Drop
<1>11. ASSUME NEW c \in Clients, Resynced(c) PROVE Goal
  BY <1>11, ClosedType DEF Resynced
<1>12. ASSUME Crash PROVE Goal
  BY <1>12, ClosedType DEF Crash
<1>13. ASSUME UNCHANGED wire PROVE Goal
  BY <1>13, TaskIs DEF TypeOK
<1>14. ASSUME
       Emit
      PROVE Goal
  BY <1>14, <1>13 DEF Emit
<1>15. ASSUME NEW t \in Tasks, tasks[t] # NoTask,
       Leave(t) \/ AbortLands(t)
      PROVE Goal
  BY <1>15, <1>13 DEF Leave, Prune, Deafened, AbortLands
<1>16. ASSUME NEW cg \in served,
       Drain(cg[1], cg[2])
      PROVE Goal
  BY <1>16, <1>13 DEF Drain
<1>17. ASSUME NEW s \in subs,
       Ensure(s) \/ Refused(s) \/ Vanish(s)
      PROVE Goal
  BY <1>17, <1>13 DEF Ensure, Refused, Fault, Failed, Vanish
<1>18. ASSUME NEW c \in Clients,
       Select(c) \/ Deselect(c) \/ Retry(c) \/ Reconnect(c)
      PROVE Goal
  BY <1>18, <1>13 DEF Select, Choose, Sync, Deselect, Retry, Reconnect
<1> SUFFICES Goal
  OBVIOUS
<1> HIDE DEF Goal
<1> QED BY <1>1, <1>2, <1>3, <1>4, <1>5, <1>6, <1>7, <1>8, <1>9, <1>10, <1>11, <1>12, <1>13,
           <1>14, <1>15, <1>16, <1>17, <1>18
     DEF Next, TaskStep, vars, relayVars, connVars, linkVars, subVars

\* A request the browser makes.
LEMMA Asking ==
  ASSUME NEW c \in Clients, NEW g \in Nat, NEW w, NEW s, NEW others, Sync(c, g, w, s, others)
  PROVE  \E r \in Requests :
           /\ r = [client |-> c, gen |-> g, kind |-> IF w THEN "subscribe" ELSE "unsubscribe",
                   at |-> "sent", arg |-> 0, live |-> TRUE]
           /\ subs' = IF w = s THEN others ELSE others \cup {r}
<1> DEFINE r == [client |-> c, gen |-> g, kind |-> IF w THEN "subscribe" ELSE "unsubscribe",
                   at |-> "sent", arg |-> 0, live |-> TRUE]
<1>1. r \in Requests
  BY DEF Requests
<1>2. subs' = IF w = s THEN others ELSE others \cup {r}
  BY DEF Sync
<1> QED BY <1>1, <1>2

\* What the browser asks is a request.
LEMMA AskingType ==
  ASSUME NEW c \in Clients, NEW g \in Nat, NEW w, NEW s, NEW others, others \subseteq Requests, Sync(c, g, w, s, others)
  PROVE  subs' \subseteq Requests
<1>1. PICK r \in Requests : subs' = others \/ subs' = others \cup {r}
  BY Asking
<1> QED BY <1>1

\* A request that the gateway takes further, or that its browser gives up, is a
\* request.
LEMMA RequestEdits ==
  ASSUME NEW s \in Requests
  PROVE  /\ \A r \in Nat : [s EXCEPT !.at = "ensured", !.arg = r] \in Requests
         /\ \A r \in Nat : [s EXCEPT !.at = "removed", !.arg = r] \in Requests
         /\ [s EXCEPT !.live = FALSE] \in Requests
BY DEF Requests

\* Who is deafened, and what a pruned relay changes.
LEMMA DeafeningType ==
  ASSUME TypeOK, NEW S \in SUBSET Clients, Deafened(S)
  PROVE  owed' \in [Clients -> SUBSET Numbers] /\ deaf' \in SUBSET Clients
BY DEF TypeOK, Deafened

\* A pruned relay leaves what is owed, and who is deaf, well typed.
LEMMA PruningType ==
  ASSUME TypeOK, NEW limit, NEW own, Prune(limit, own)
  PROVE  owed' \in [Clients -> SUBSET Numbers] /\ deaf' \in SUBSET Clients /\ relay' \in {0, relay}
<1>1. Audience(relay, own) \in SUBSET Clients
  BY DEF Audience
<1>2. CASE relay' = 0 /\ Deafened(Audience(relay, own))
  BY <1>1, <1>2, DeafeningType
<1>3. CASE UNCHANGED <<relay, owed, deaf>>
  BY <1>3 DEF TypeOK
<1> QED BY <1>2, <1>3 DEF Prune

\* Every step leaves the number of events well typed.
LEMMA SentType ==
  ASSUME TypeOK, Requested, Next
  PROVE  sent' \in 0..MaxEvents
<1>1. ASSUME Emit PROVE sent' \in 0..MaxEvents
  BY <1>1, RelayConstants DEF Emit, TypeOK
<1>2. ASSUME UNCHANGED sent PROVE sent' \in 0..MaxEvents
  BY <1>2, RelayConstants DEF TypeOK
<1>3. ASSUME
       Crash
      PROVE sent' \in 0..MaxEvents
  BY <1>3, <1>2 DEF Crash, Fault, Closed
<1>4. ASSUME NEW t \in Tasks, tasks[t] # NoTask,
       Receive(t) \/ Flush(t) \/ StopListening(t) \/ Leave(t) \/ AbortLands(t)
      PROVE sent' \in 0..MaxEvents
  BY <1>4, <1>2 DEF Receive, Sends, Undisturbed, Flush, StopListening, Leave, Prune,
                    Deafened, AbortLands
<1>5. ASSUME NEW cg \in served,
       Drain(cg[1], cg[2])
      PROVE sent' \in 0..MaxEvents
  BY <1>5, <1>2 DEF Drain
<1>6. ASSUME NEW s \in subs,
       Ensure(s) \/ Attach(s) \/ TakeHandle(s) \/ PruneAndAbort(s) \/ Refused(s) \/
       Vanish(s)
      PROVE sent' \in 0..MaxEvents
  BY <1>6, <1>2 DEF Ensure, Attach, Deafened, Answer, TakeHandle, PruneAndAbort, Prune,
                    Refused, Fault, Failed, Vanish
<1>7. ASSUME NEW c \in Clients,
       Select(c) \/ Deselect(c) \/ Answered(c) \/ TimesOut(c) \/ Retry(c) \/ EventComes(c)
       \/ Drop(c) \/ Resynced(c) \/ Reconnect(c)
      PROVE sent' \in 0..MaxEvents
  BY <1>7, <1>2 DEF Select, Choose, Sync, Deselect, Answered, TimesOut, Fault, Deafened,
                    Failed, Retry, EventComes, Drop, Closed, Resynced, Reconnect
<1> QED BY <1>1, <1>2, <1>3, <1>4, <1>5, <1>6, <1>7
     DEF Next, TaskStep, vars, relayVars, connVars, linkVars, subVars

\* Every step leaves the number of selections within its bound.
LEMMA ViewsType ==
  ASSUME TypeOK, Requested, Next
  PROVE  views' \in 0..MaxViews
<1>1. ASSUME NEW c \in Clients, Select(c) PROVE views' \in 0..MaxViews
  BY <1>1, RelayConstants DEF Select, Choose, Sync, TypeOK
<1>2. ASSUME UNCHANGED views PROVE views' \in 0..MaxViews
  BY <1>2, RelayConstants DEF TypeOK
<1>3. ASSUME
       Emit \/ Crash
      PROVE views' \in 0..MaxViews
  BY <1>3, <1>2 DEF Emit, Crash, Fault, Closed
<1>4. ASSUME NEW t \in Tasks, tasks[t] # NoTask,
       Receive(t) \/ Flush(t) \/ StopListening(t) \/ Leave(t) \/ AbortLands(t)
      PROVE views' \in 0..MaxViews
  BY <1>4, <1>2 DEF Receive, Sends, Undisturbed, Flush, StopListening, Leave, Prune,
                    Deafened, AbortLands
<1>5. ASSUME NEW cg \in served,
       Drain(cg[1], cg[2])
      PROVE views' \in 0..MaxViews
  BY <1>5, <1>2 DEF Drain
<1>6. ASSUME NEW s \in subs,
       Ensure(s) \/ Attach(s) \/ TakeHandle(s) \/ PruneAndAbort(s) \/ Refused(s) \/
       Vanish(s)
      PROVE views' \in 0..MaxViews
  BY <1>6, <1>2 DEF Ensure, Attach, Deafened, Answer, TakeHandle, PruneAndAbort, Prune,
                    Refused, Fault, Failed, Vanish
<1>7. ASSUME NEW c \in Clients,
       Deselect(c) \/ Answered(c) \/ TimesOut(c) \/ Retry(c) \/ EventComes(c) \/ Drop(c) \/
       Resynced(c) \/ Reconnect(c)
      PROVE views' \in 0..MaxViews
  BY <1>7, <1>2 DEF Deselect, Choose, Sync, Answered, TimesOut, Fault, Deafened, Failed,
                    Retry, EventComes, Drop, Closed, Resynced, Reconnect
<1> QED BY <1>1, <1>2, <1>3, <1>4, <1>5, <1>6, <1>7
     DEF Next, TaskStep, vars, relayVars, connVars, linkVars, subVars

\* Every step leaves the number of faults within its bound.
LEMMA FaultsType ==
  ASSUME TypeOK, Requested, Next
  PROVE  faults' \in 0..MaxFaults
<1>1. ASSUME NEW s \in subs, Refused(s) PROVE faults' \in 0..MaxFaults
  BY <1>1, RelayConstants DEF Refused, Fault, Failed, TypeOK
<1>2. ASSUME NEW c \in Clients, TimesOut(c) PROVE faults' \in 0..MaxFaults
  BY <1>2, RelayConstants DEF TimesOut, Fault, Deafened, Failed, TypeOK
<1>3. ASSUME NEW c \in Clients, Drop(c) PROVE faults' \in 0..MaxFaults
  BY <1>3, RelayConstants DEF Drop, Fault, Closed, TypeOK
<1>4. ASSUME Crash PROVE faults' \in 0..MaxFaults
  BY <1>4, RelayConstants DEF Crash, Fault, Closed, TypeOK
<1>5. ASSUME UNCHANGED faults PROVE faults' \in 0..MaxFaults
  BY <1>5, RelayConstants DEF TypeOK
<1>6. ASSUME
       Emit
      PROVE faults' \in 0..MaxFaults
  BY <1>6, <1>5 DEF Emit
<1>7. ASSUME NEW t \in Tasks, tasks[t] # NoTask,
       Receive(t) \/ Flush(t) \/ StopListening(t) \/ Leave(t) \/ AbortLands(t)
      PROVE faults' \in 0..MaxFaults
  BY <1>7, <1>5 DEF Receive, Sends, Undisturbed, Flush, StopListening, Leave, Prune,
                    Deafened, AbortLands
<1>8. ASSUME NEW cg \in served,
       Drain(cg[1], cg[2])
      PROVE faults' \in 0..MaxFaults
  BY <1>8, <1>5 DEF Drain
<1>9. ASSUME NEW s \in subs,
       Ensure(s) \/ Attach(s) \/ TakeHandle(s) \/ PruneAndAbort(s) \/ Vanish(s)
      PROVE faults' \in 0..MaxFaults
  BY <1>9, <1>5 DEF Ensure, Attach, Deafened, Answer, TakeHandle, PruneAndAbort, Prune,
                    Vanish
<1>10. ASSUME NEW c \in Clients,
       Select(c) \/ Deselect(c) \/ Answered(c) \/ Retry(c) \/ EventComes(c) \/ Resynced(c)
       \/ Reconnect(c)
      PROVE faults' \in 0..MaxFaults
  BY <1>10, <1>5 DEF Select, Choose, Sync, Deselect, Answered, Retry, EventComes, Resynced,
                     Closed, Reconnect
<1> QED BY <1>1, <1>2, <1>3, <1>4, <1>5, <1>6, <1>7, <1>8, <1>9, <1>10
     DEF Next, TaskStep, vars, relayVars, connVars, linkVars, subVars

\* Every step leaves the relay one that was made.
LEMMA RelayType ==
  ASSUME TypeOK, Requested, Next
  PROVE  relay' \in 0..made' /\ made' \in 0..MaxRelays
<1>1. ASSUME NEW t \in Tasks, tasks[t] # NoTask, Leave(t) PROVE relay' \in 0..made' /\ made' \in 0..MaxRelays
  <2>1. made' = made /\ relay' \in {0, relay}
    BY <1>1, PruningType DEF Leave
  <2> QED BY <2>1, RelayConstants DEF TypeOK
<1>2. ASSUME NEW s \in subs, Ensure(s) PROVE relay' \in 0..made' /\ made' \in 0..MaxRelays
  <2>1. \/ made < MaxRelays /\ made' = made + 1 /\ relay' = made'
        \/ made' = made /\ relay' = relay
    BY <1>2 DEF Ensure, relayVars
  <2> QED BY <2>1, RelayConstants DEF TypeOK
<1>3. ASSUME NEW s \in subs, PruneAndAbort(s) PROVE relay' \in 0..made' /\ made' \in 0..MaxRelays
  <2>1. made' = made /\ relay' \in {0, relay}
    BY <1>3, PruningType DEF PruneAndAbort
  <2> QED BY <2>1, RelayConstants DEF TypeOK
<1>4. ASSUME Crash PROVE relay' \in 0..made' /\ made' \in 0..MaxRelays
  BY <1>4, RelayConstants, PruningType DEF Crash, Fault, Closed, TypeOK
<1>5. ASSUME UNCHANGED <<relay, made>> PROVE relay' \in 0..made' /\ made' \in 0..MaxRelays
  BY <1>5, RelayConstants, PruningType DEF TypeOK
<1>6. ASSUME
       Emit
      PROVE relay' \in 0..made' /\ made' \in 0..MaxRelays
  BY <1>6, <1>5 DEF Emit, relayVars
<1>7. ASSUME NEW t \in Tasks, tasks[t] # NoTask,
       Receive(t) \/ Flush(t) \/ StopListening(t) \/ AbortLands(t)
      PROVE relay' \in 0..made' /\ made' \in 0..MaxRelays
  BY <1>7, <1>5 DEF Receive, Sends, Undisturbed, relayVars, Flush, StopListening, AbortLands
<1>8. ASSUME NEW cg \in served,
       Drain(cg[1], cg[2])
      PROVE relay' \in 0..made' /\ made' \in 0..MaxRelays
  BY <1>8, <1>5 DEF Drain, relayVars
<1>9. ASSUME NEW s \in subs,
       Attach(s) \/ TakeHandle(s) \/ Refused(s) \/ Vanish(s)
      PROVE relay' \in 0..made' /\ made' \in 0..MaxRelays
  BY <1>9, <1>5 DEF Attach, Deafened, Answer, relayVars, TakeHandle, Refused, Fault, Failed,
                    Vanish
<1>10. ASSUME NEW c \in Clients,
       Select(c) \/ Deselect(c) \/ Answered(c) \/ TimesOut(c) \/ Retry(c) \/ EventComes(c)
       \/ Drop(c) \/ Resynced(c) \/ Reconnect(c)
      PROVE relay' \in 0..made' /\ made' \in 0..MaxRelays
  BY <1>10, <1>5 DEF Select, Choose, Sync, relayVars, Deselect, Answered, TimesOut, Fault,
                     Deafened, Failed, Retry, EventComes, Drop, Closed, Resynced, Reconnect
<1> QED BY <1>1, <1>2, <1>3, <1>4, <1>5, <1>6, <1>7, <1>8, <1>9, <1>10
     DEF Next, TaskStep, vars, relayVars, connVars, linkVars, subVars

\* Every step leaves the connections well typed: a spent handle is of one that is
\* served.
LEMMA ConnType ==
  ASSUME TypeOK, Requested, Next
  PROVE  served' \subseteq Clients \X Nat /\ spent' \subseteq served'
<1>1. ASSUME NEW t \in Tasks, tasks[t] # NoTask, Leave(t) PROVE served' \subseteq Clients \X Nat /\ spent' \subseteq served'
  BY <1>1 DEF Leave, TypeOK
<1>2. ASSUME NEW cg \in served, Drain(cg[1], cg[2]) PROVE served' \subseteq Clients \X Nat /\ spent' \subseteq served'
  BY <1>2 DEF Drain, TypeOK
<1>3. ASSUME NEW s \in subs, Attach(s) PROVE served' \subseteq Clients \X Nat /\ spent' \subseteq served'
  BY <1>3 DEF Attach, TypeOK
<1>4. ASSUME NEW s \in subs, TakeHandle(s) PROVE served' \subseteq Clients \X Nat /\ spent' \subseteq served'
  BY <1>4 DEF TakeHandle, TypeOK
<1>5. ASSUME NEW c \in Clients, Reconnect(c) PROVE served' \subseteq Clients \X Nat /\ spent' \subseteq served'
  BY <1>5 DEF Reconnect, TypeOK
<1>6. ASSUME Crash PROVE served' \subseteq Clients \X Nat /\ spent' \subseteq served'
  BY <1>6 DEF Crash, Fault, Closed, TypeOK
<1>7. ASSUME UNCHANGED <<served, spent>> PROVE served' \subseteq Clients \X Nat /\ spent' \subseteq served'
  BY <1>7 DEF TypeOK
<1>8. ASSUME
       Emit
      PROVE served' \subseteq Clients \X Nat /\ spent' \subseteq served'
  BY <1>8, <1>7 DEF Emit, connVars
<1>9. ASSUME NEW t \in Tasks, tasks[t] # NoTask,
       Receive(t) \/ Flush(t) \/ StopListening(t) \/ AbortLands(t)
      PROVE served' \subseteq Clients \X Nat /\ spent' \subseteq served'
  BY <1>9, <1>7 DEF Receive, Sends, Undisturbed, connVars, Flush, StopListening, AbortLands
<1>10. ASSUME NEW s \in subs,
       Ensure(s) \/ PruneAndAbort(s) \/ Refused(s) \/ Vanish(s)
      PROVE served' \subseteq Clients \X Nat /\ spent' \subseteq served'
  BY <1>10, <1>7 DEF Ensure, connVars, PruneAndAbort, Prune, Answer, Deafened, Refused,
                     Fault, Failed, Vanish
<1>11. ASSUME NEW c \in Clients,
       Select(c) \/ Deselect(c) \/ Answered(c) \/ TimesOut(c) \/ Retry(c) \/ EventComes(c)
       \/ Drop(c) \/ Resynced(c)
      PROVE served' \subseteq Clients \X Nat /\ spent' \subseteq served'
  BY <1>11, <1>7 DEF Select, Choose, Sync, connVars, Deselect, Answered, TimesOut, Fault,
                     Deafened, Failed, Retry, EventComes, Drop, Closed, Resynced
<1> QED BY <1>1, <1>2, <1>3, <1>4, <1>5, <1>6, <1>7, <1>8, <1>9, <1>10, <1>11
     DEF Next, TaskStep, vars, relayVars, connVars, linkVars, subVars

\* Every step leaves the requests well typed.
LEMMA SubsType ==
  ASSUME TypeOK, Requested, Next
  PROVE  subs' \subseteq Requests
<1> DEFINE Goal == subs' \subseteq Requests
<1>1. ASSUME NEW s \in subs, Ensure(s) PROVE Goal
  <2>1. relay' \in Nat
    BY <1>1, RelayConstants DEF Ensure, TypeOK, relayVars
  <2>2. [s EXCEPT !.at = "ensured", !.arg = relay'] \in Requests
    BY <2>1, RequestIs, RequestEdits
  <2> QED BY <1>1, <2>2 DEF Ensure, TypeOK
<1>2. ASSUME NEW s \in subs, Attach(s) PROVE Goal
  BY <1>2, RequestIs DEF Attach, TypeOK
<1>3. ASSUME NEW s \in subs, TakeHandle(s) PROVE Goal
  <2> DEFINE had == Installed(s.client, s.gen)
             a == IF had = {} THEN 0 ELSE CHOOSE t \in had : TRUE
  <2>1. a \in Nat
    <3>1. had \subseteq Nat
      BY RelayConstants DEF Installed, Tasks
    <3> HIDE DEF had
    <3> QED BY <3>1
  <2>2. [s EXCEPT !.at = "removed", !.arg = a] \in Requests
    BY <2>1, RequestIs, RequestEdits
  <2>3. subs' = (subs \ {s}) \cup {[s EXCEPT !.at = "removed", !.arg = a]} \/ subs' = subs \ {s}
    BY <1>3 DEF TakeHandle
  <2> HIDE DEF a
  <2> QED BY <2>2, <2>3 DEF TypeOK
<1>4. ASSUME NEW s \in subs, PruneAndAbort(s) PROVE Goal
  BY <1>4, RequestIs DEF PruneAndAbort, TypeOK
<1>5. ASSUME NEW s \in subs, Refused(s) PROVE Goal
  BY <1>5, RequestIs DEF Refused, Fault, TypeOK
<1>6. ASSUME NEW s \in subs, Vanish(s) PROVE Goal
  BY <1>6, RequestIs DEF Vanish, TypeOK
<1>7. ASSUME NEW c \in Clients, Select(c) PROVE Goal
  <2>1. gen[c] \in Nat /\ subs \subseteq Requests
    BY DEF TypeOK
  <2>2. Sync(c, gen[c], TRUE, synced[c], subs) \/ UNCHANGED subs
    BY <1>7 DEF Select, Choose
  <2>3. Sync(c, gen[c], TRUE, synced[c], subs) => subs' \subseteq Requests
    BY <2>1, AskingType, Zenon
  <2> QED BY <2>1, <2>2, <2>3
<1>8. ASSUME NEW c \in Clients, Deselect(c) PROVE Goal
  <2>1. gen[c] \in Nat /\ subs \subseteq Requests
    BY DEF TypeOK
  <2>2. Sync(c, gen[c], FALSE, synced[c], subs) \/ UNCHANGED subs
    BY <1>8 DEF Deselect, Choose
  <2>3. Sync(c, gen[c], FALSE, synced[c], subs) => subs' \subseteq Requests
    BY <2>1, AskingType, Zenon
  <2> QED BY <2>1, <2>2, <2>3
<1>9. ASSUME NEW c \in Clients, Answered(c) PROVE Goal
  <2>1. gen[c] \in Nat /\ subs \subseteq Requests
    BY DEF TypeOK
  <2>2. Sync(c, gen[c], wants[c], synced'[c], subs)
    BY <1>9 DEF Answered
  <2>3. Sync(c, gen[c], wants[c], synced'[c], subs) => subs' \subseteq Requests
    BY <2>1, AskingType, Zenon
  <2> QED BY <2>1, <2>2, <2>3
<1>10. ASSUME NEW c \in Clients, TimesOut(c) PROVE Goal
  <2>1. \A s \in subs : [s EXCEPT !.live = FALSE] \in Requests
    BY RequestIs, RequestEdits
  <2> DEFINE mine == {s \in subs : s.client = c /\ s.live}
  <2>2. subs' = (subs \ mine) \cup {[s EXCEPT !.live = FALSE] : s \in mine}
    BY <1>10 DEF TimesOut
  <2>3. mine \subseteq subs
    OBVIOUS
  <2> HIDE DEF mine
  <2> QED BY <2>1, <2>2, <2>3 DEF TypeOK
<1>11. ASSUME NEW c \in Clients, Retry(c) PROVE Goal
  <2>1. gen[c] \in Nat /\ subs \subseteq Requests
    BY DEF TypeOK
  <2>2. Sync(c, gen[c], wants[c], synced[c], subs)
    BY <1>11 DEF Retry
  <2>3. Sync(c, gen[c], wants[c], synced[c], subs) => subs' \subseteq Requests
    BY <2>1, AskingType, Zenon
  <2> QED BY <2>1, <2>2, <2>3
<1>12. ASSUME NEW c \in Clients, Reconnect(c) PROVE Goal
  <2> DEFINE others == {IF s.client = c THEN [s EXCEPT !.live = FALSE] ELSE s : s \in subs}
  <2>1. gen'[c] \in Nat
    BY <1>12 DEF Reconnect, TypeOK
  <2>2. others \subseteq Requests
    BY RequestIs, RequestEdits
  <2>3. PICK g : g = gen'[c]
    OBVIOUS
  <2>4. Sync(c, g, wants[c], FALSE, others)
    BY <1>12, <2>3 DEF Reconnect
  <2> HIDE DEF others
  <2> QED BY <2>1, <2>2, <2>3, <2>4, AskingType, Zenon
<1>13. ASSUME Crash PROVE Goal
  BY <1>13, RequestIs DEF Crash, Fault, Closed, TypeOK
<1>14. ASSUME UNCHANGED subs PROVE Goal
  BY <1>14, RequestIs DEF TypeOK
<1>15. ASSUME
       Emit
      PROVE Goal
  BY <1>15, <1>14 DEF Emit
<1>16. ASSUME NEW t \in Tasks, tasks[t] # NoTask,
       Receive(t) \/ Flush(t) \/ StopListening(t) \/ Leave(t) \/ AbortLands(t)
      PROVE Goal
  BY <1>16, <1>14 DEF Receive, Sends, Undisturbed, Flush, StopListening, Leave, Prune,
                      Deafened, AbortLands
<1>17. ASSUME NEW cg \in served,
       Drain(cg[1], cg[2])
      PROVE Goal
  BY <1>17, <1>14 DEF Drain
<1>18. ASSUME NEW c \in Clients,
       EventComes(c) \/ Drop(c) \/ Resynced(c)
      PROVE Goal
  BY <1>18, <1>14 DEF EventComes, Drop, Fault, Closed, Resynced
<1> SUFFICES Goal
  OBVIOUS
<1> HIDE DEF Goal
<1> QED BY <1>1, <1>2, <1>3, <1>4, <1>5, <1>6, <1>7, <1>8, <1>9, <1>10, <1>11, <1>12, <1>13,
           <1>14, <1>15, <1>16, <1>17, <1>18
     DEF Next, TaskStep, vars, relayVars, connVars, linkVars, subVars

\* Every step leaves the sockets and their generations well typed.
LEMMA LinkType ==
  ASSUME TypeOK, Requested, Next
  PROVE  open' \in [Clients -> BOOLEAN] /\ gen' \in [Clients -> Nat]
<1>1. ASSUME NEW c \in Clients, Drop(c) PROVE open' \in [Clients -> BOOLEAN] /\ gen' \in [Clients -> Nat]
  BY <1>1 DEF Drop, Fault, Closed, TypeOK
<1>2. ASSUME NEW c \in Clients, Resynced(c) PROVE open' \in [Clients -> BOOLEAN] /\ gen' \in [Clients -> Nat]
  BY <1>2 DEF Resynced, Closed, TypeOK
<1>3. ASSUME NEW c \in Clients, Reconnect(c) PROVE open' \in [Clients -> BOOLEAN] /\ gen' \in [Clients -> Nat]
  BY <1>3 DEF Reconnect, TypeOK
<1>4. ASSUME Crash PROVE open' \in [Clients -> BOOLEAN] /\ gen' \in [Clients -> Nat]
  BY <1>4 DEF Crash, Fault, Closed, TypeOK
<1>5. ASSUME UNCHANGED <<open, gen>> PROVE open' \in [Clients -> BOOLEAN] /\ gen' \in [Clients -> Nat]
  BY <1>5 DEF TypeOK
<1>6. ASSUME
       Emit
      PROVE open' \in [Clients -> BOOLEAN] /\ gen' \in [Clients -> Nat]
  BY <1>6, <1>5 DEF Emit, linkVars
<1>7. ASSUME NEW t \in Tasks, tasks[t] # NoTask,
       Receive(t) \/ Flush(t) \/ StopListening(t) \/ Leave(t) \/ AbortLands(t)
      PROVE open' \in [Clients -> BOOLEAN] /\ gen' \in [Clients -> Nat]
  BY <1>7, <1>5 DEF Receive, Sends, Undisturbed, linkVars, Flush, StopListening, Leave,
                    Prune, Deafened, AbortLands
<1>8. ASSUME NEW cg \in served,
       Drain(cg[1], cg[2])
      PROVE open' \in [Clients -> BOOLEAN] /\ gen' \in [Clients -> Nat]
  BY <1>8, <1>5 DEF Drain, linkVars
<1>9. ASSUME NEW s \in subs,
       Ensure(s) \/ Attach(s) \/ TakeHandle(s) \/ PruneAndAbort(s) \/ Refused(s) \/
       Vanish(s)
      PROVE open' \in [Clients -> BOOLEAN] /\ gen' \in [Clients -> Nat]
  BY <1>9, <1>5 DEF Ensure, linkVars, Attach, Deafened, Answer, TakeHandle, PruneAndAbort,
                    Prune, Refused, Fault, Failed, Vanish
<1>10. ASSUME NEW c \in Clients,
       Select(c) \/ Deselect(c) \/ Answered(c) \/ TimesOut(c) \/ Retry(c) \/ EventComes(c)
      PROVE open' \in [Clients -> BOOLEAN] /\ gen' \in [Clients -> Nat]
  BY <1>10, <1>5 DEF Select, Choose, Sync, linkVars, Deselect, Answered, TimesOut, Fault,
                     Deafened, Failed, Retry, EventComes
<1> QED BY <1>1, <1>2, <1>3, <1>4, <1>5, <1>6, <1>7, <1>8, <1>9, <1>10
     DEF Next, TaskStep, vars, relayVars, connVars, linkVars, subVars

\* Every step leaves what the browsers want well typed.
LEMMA WantsType ==
  ASSUME TypeOK, Requested, Next
  PROVE  wants' \in [Clients -> BOOLEAN] 
<1>1. ASSUME NEW c \in Clients, Select(c) PROVE wants' \in [Clients -> BOOLEAN] 
  BY <1>1 DEF Select, Choose, TypeOK
<1>2. ASSUME NEW c \in Clients, Deselect(c) PROVE wants' \in [Clients -> BOOLEAN] 
  BY <1>2 DEF Deselect, Choose, TypeOK
<1>3. ASSUME UNCHANGED wants PROVE wants' \in [Clients -> BOOLEAN] 
  BY <1>3 DEF TypeOK
<1>4. ASSUME
       Emit \/ Crash
      PROVE wants' \in [Clients -> BOOLEAN] 
  BY <1>4, <1>3 DEF Emit, subVars, Crash, Fault, Closed
<1>5. ASSUME NEW t \in Tasks, tasks[t] # NoTask,
       Receive(t) \/ Flush(t) \/ StopListening(t) \/ Leave(t) \/ AbortLands(t)
      PROVE wants' \in [Clients -> BOOLEAN] 
  BY <1>5, <1>3 DEF Receive, Sends, Undisturbed, subVars, Flush, StopListening, Leave, Prune,
                    Deafened, AbortLands
<1>6. ASSUME NEW cg \in served,
       Drain(cg[1], cg[2])
      PROVE wants' \in [Clients -> BOOLEAN] 
  BY <1>6, <1>3 DEF Drain, subVars
<1>7. ASSUME NEW s \in subs,
       Ensure(s) \/ Attach(s) \/ TakeHandle(s) \/ PruneAndAbort(s) \/ Refused(s) \/
       Vanish(s)
      PROVE wants' \in [Clients -> BOOLEAN] 
  BY <1>7, <1>3 DEF Ensure, subVars, Attach, Deafened, Answer, TakeHandle, PruneAndAbort,
                    Prune, Refused, Fault, Failed, Vanish
<1>8. ASSUME NEW c \in Clients,
       Answered(c) \/ TimesOut(c) \/ Retry(c) \/ EventComes(c) \/ Drop(c) \/ Resynced(c) \/
       Reconnect(c)
      PROVE wants' \in [Clients -> BOOLEAN] 
  BY <1>8, <1>3 DEF Answered, Sync, TimesOut, Fault, Deafened, Failed, Retry, EventComes,
                    subVars, Drop, Closed, Resynced, Reconnect
<1> QED BY <1>1, <1>2, <1>3, <1>4, <1>5, <1>6, <1>7, <1>8
     DEF Next, TaskStep, vars, relayVars, connVars, linkVars, subVars

\* Every step leaves what the browsers believe well typed.
LEMMA SyncedType ==
  ASSUME TypeOK, Requested, Next
  PROVE  synced' \in [Clients -> BOOLEAN] 
<1>1. ASSUME NEW s \in subs, Refused(s) PROVE synced' \in [Clients -> BOOLEAN] 
  BY <1>1 DEF Refused, Fault, Failed, TypeOK
<1>2. ASSUME NEW c \in Clients, Answered(c) PROVE synced' \in [Clients -> BOOLEAN] 
  BY <1>2 DEF Answered, TypeOK
<1>3. ASSUME NEW c \in Clients, TimesOut(c) PROVE synced' \in [Clients -> BOOLEAN] 
  BY <1>3 DEF TimesOut, Fault, Failed, TypeOK
<1>4. ASSUME NEW c \in Clients, Drop(c) PROVE synced' \in [Clients -> BOOLEAN] 
  BY <1>4 DEF Drop, Fault, Closed, TypeOK
<1>5. ASSUME NEW c \in Clients, Resynced(c) PROVE synced' \in [Clients -> BOOLEAN] 
  BY <1>5 DEF Resynced, Closed, TypeOK
<1>6. ASSUME Crash PROVE synced' \in [Clients -> BOOLEAN] 
  BY <1>6 DEF Crash, Fault, Closed, TypeOK
<1>7. ASSUME UNCHANGED synced PROVE synced' \in [Clients -> BOOLEAN] 
  BY <1>7 DEF TypeOK
<1>8. ASSUME
       Emit
      PROVE synced' \in [Clients -> BOOLEAN] 
  BY <1>8, <1>7 DEF Emit, subVars
<1>9. ASSUME NEW t \in Tasks, tasks[t] # NoTask,
       Receive(t) \/ Flush(t) \/ StopListening(t) \/ Leave(t) \/ AbortLands(t)
      PROVE synced' \in [Clients -> BOOLEAN] 
  BY <1>9, <1>7 DEF Receive, Sends, Undisturbed, subVars, Flush, StopListening, Leave, Prune,
                    Deafened, AbortLands
<1>10. ASSUME NEW cg \in served,
       Drain(cg[1], cg[2])
      PROVE synced' \in [Clients -> BOOLEAN] 
  BY <1>10, <1>7 DEF Drain, subVars
<1>11. ASSUME NEW s \in subs,
       Ensure(s) \/ Attach(s) \/ TakeHandle(s) \/ PruneAndAbort(s) \/ Vanish(s)
      PROVE synced' \in [Clients -> BOOLEAN] 
  BY <1>11, <1>7 DEF Ensure, subVars, Attach, Deafened, Answer, TakeHandle, PruneAndAbort,
                     Prune, Vanish
<1>12. ASSUME NEW c \in Clients,
       Select(c) \/ Deselect(c) \/ Retry(c) \/ EventComes(c) \/ Reconnect(c)
      PROVE synced' \in [Clients -> BOOLEAN] 
  BY <1>12, <1>7 DEF Select, Choose, Sync, Deselect, Retry, EventComes, subVars, Reconnect
<1> QED BY <1>1, <1>2, <1>3, <1>4, <1>5, <1>6, <1>7, <1>8, <1>9, <1>10, <1>11, <1>12
     DEF Next, TaskStep, vars, relayVars, connVars, linkVars, subVars

\* Every step leaves well typed whether a browser waits for an answer.
LEMMA SyncingType ==
  ASSUME TypeOK, Requested, Next
  PROVE  syncing' \in [Clients -> BOOLEAN] 
<1>1. ASSUME NEW s \in subs, Refused(s) PROVE syncing' \in [Clients -> BOOLEAN] 
  BY <1>1 DEF Refused, Fault, Failed, TypeOK
<1>2. ASSUME NEW c \in Clients, Select(c) PROVE syncing' \in [Clients -> BOOLEAN] 
  BY <1>2 DEF Select, Choose, Sync, TypeOK
<1>3. ASSUME NEW c \in Clients, Deselect(c) PROVE syncing' \in [Clients -> BOOLEAN] 
  BY <1>3 DEF Deselect, Choose, Sync, TypeOK
<1>4. ASSUME NEW c \in Clients, Answered(c) PROVE syncing' \in [Clients -> BOOLEAN] 
  BY <1>4 DEF Answered, Sync, TypeOK
<1>5. ASSUME NEW c \in Clients, TimesOut(c) PROVE syncing' \in [Clients -> BOOLEAN] 
  BY <1>5 DEF TimesOut, Fault, Failed, TypeOK
<1>6. ASSUME NEW c \in Clients, Retry(c) PROVE syncing' \in [Clients -> BOOLEAN] 
  BY <1>6 DEF Retry, Sync, TypeOK
<1>7. ASSUME NEW c \in Clients, Reconnect(c) PROVE syncing' \in [Clients -> BOOLEAN] 
  BY <1>7 DEF Reconnect, Sync, TypeOK
<1>8. ASSUME UNCHANGED syncing PROVE syncing' \in [Clients -> BOOLEAN] 
  BY <1>8 DEF TypeOK
<1>9. ASSUME
       Emit \/ Crash
      PROVE syncing' \in [Clients -> BOOLEAN] 
  BY <1>9, <1>8 DEF Emit, subVars, Crash, Fault, Closed
<1>10. ASSUME NEW t \in Tasks, tasks[t] # NoTask,
       Receive(t) \/ Flush(t) \/ StopListening(t) \/ Leave(t) \/ AbortLands(t)
      PROVE syncing' \in [Clients -> BOOLEAN] 
  BY <1>10, <1>8 DEF Receive, Sends, Undisturbed, subVars, Flush, StopListening, Leave,
                     Prune, Deafened, AbortLands
<1>11. ASSUME NEW cg \in served,
       Drain(cg[1], cg[2])
      PROVE syncing' \in [Clients -> BOOLEAN] 
  BY <1>11, <1>8 DEF Drain, subVars
<1>12. ASSUME NEW s \in subs,
       Ensure(s) \/ Attach(s) \/ TakeHandle(s) \/ PruneAndAbort(s) \/ Vanish(s)
      PROVE syncing' \in [Clients -> BOOLEAN] 
  BY <1>12, <1>8 DEF Ensure, subVars, Attach, Deafened, Answer, TakeHandle, PruneAndAbort,
                     Prune, Vanish
<1>13. ASSUME NEW c \in Clients,
       EventComes(c) \/ Drop(c) \/ Resynced(c)
      PROVE syncing' \in [Clients -> BOOLEAN] 
  BY <1>13, <1>8 DEF EventComes, subVars, Drop, Fault, Closed, Resynced
<1> QED BY <1>1, <1>2, <1>3, <1>4, <1>5, <1>6, <1>7, <1>8, <1>9, <1>10, <1>11, <1>12, <1>13
     DEF Next, TaskStep, vars, relayVars, connVars, linkVars, subVars

\* Every step leaves well typed whether a browser is to ask again.
LEMMA RetryType ==
  ASSUME TypeOK, Requested, Next
  PROVE  retry' \in [Clients -> BOOLEAN] 
<1>1. ASSUME NEW s \in subs, Refused(s) PROVE retry' \in [Clients -> BOOLEAN] 
  BY <1>1 DEF Refused, Fault, Failed, TypeOK
<1>2. ASSUME NEW c \in Clients, Select(c) PROVE retry' \in [Clients -> BOOLEAN] 
  BY <1>2 DEF Select, Choose, TypeOK
<1>3. ASSUME NEW c \in Clients, Deselect(c) PROVE retry' \in [Clients -> BOOLEAN] 
  BY <1>3 DEF Deselect, Choose, TypeOK
<1>4. ASSUME NEW c \in Clients, TimesOut(c) PROVE retry' \in [Clients -> BOOLEAN] 
  BY <1>4 DEF TimesOut, Fault, Failed, TypeOK
<1>5. ASSUME NEW c \in Clients, Retry(c) PROVE retry' \in [Clients -> BOOLEAN] 
  BY <1>5 DEF Retry, TypeOK
<1>6. ASSUME NEW c \in Clients, Drop(c) PROVE retry' \in [Clients -> BOOLEAN] 
  BY <1>6 DEF Drop, Fault, Closed, TypeOK
<1>7. ASSUME NEW c \in Clients, Resynced(c) PROVE retry' \in [Clients -> BOOLEAN] 
  BY <1>7 DEF Resynced, Closed, TypeOK
<1>8. ASSUME Crash PROVE retry' \in [Clients -> BOOLEAN] 
  BY <1>8 DEF Crash, Fault, Closed, TypeOK
<1>9. ASSUME UNCHANGED retry PROVE retry' \in [Clients -> BOOLEAN] 
  BY <1>9 DEF TypeOK
<1>10. ASSUME
       Emit
      PROVE retry' \in [Clients -> BOOLEAN] 
  BY <1>10, <1>9 DEF Emit, subVars
<1>11. ASSUME NEW t \in Tasks, tasks[t] # NoTask,
       Receive(t) \/ Flush(t) \/ StopListening(t) \/ Leave(t) \/ AbortLands(t)
      PROVE retry' \in [Clients -> BOOLEAN] 
  BY <1>11, <1>9 DEF Receive, Sends, Undisturbed, subVars, Flush, StopListening, Leave,
                     Prune, Deafened, AbortLands
<1>12. ASSUME NEW cg \in served,
       Drain(cg[1], cg[2])
      PROVE retry' \in [Clients -> BOOLEAN] 
  BY <1>12, <1>9 DEF Drain, subVars
<1>13. ASSUME NEW s \in subs,
       Ensure(s) \/ Attach(s) \/ TakeHandle(s) \/ PruneAndAbort(s) \/ Vanish(s)
      PROVE retry' \in [Clients -> BOOLEAN] 
  BY <1>13, <1>9 DEF Ensure, subVars, Attach, Deafened, Answer, TakeHandle, PruneAndAbort,
                     Prune, Vanish
<1>14. ASSUME NEW c \in Clients,
       Answered(c) \/ EventComes(c) \/ Reconnect(c)
      PROVE retry' \in [Clients -> BOOLEAN] 
  BY <1>14, <1>9 DEF Answered, Sync, EventComes, subVars, Reconnect
<1> QED BY <1>1, <1>2, <1>3, <1>4, <1>5, <1>6, <1>7, <1>8, <1>9, <1>10, <1>11, <1>12, <1>13,
           <1>14
     DEF Next, TaskStep, vars, relayVars, connVars, linkVars, subVars

\* Every step leaves what is owed, and who is deaf, well typed.
LEMMA OwedType ==
  ASSUME TypeOK, Requested, Next
  PROVE  owed' \in [Clients -> SUBSET Numbers] /\ deaf' \in SUBSET Clients
<1>1. ASSUME NEW t \in Tasks, tasks[t] # NoTask, Leave(t) PROVE owed' \in [Clients -> SUBSET Numbers] /\ deaf' \in SUBSET Clients
  BY <1>1, DeafeningType, PruningType DEF Leave, TypeOK
<1>2. ASSUME NEW s \in subs, Attach(s) PROVE owed' \in [Clients -> SUBSET Numbers] /\ deaf' \in SUBSET Clients
  <2>1. {s.client} \in SUBSET Clients
    BY RequestIs
  <2>2. CASE UNCHANGED <<owed, deaf>>
    BY <2>2 DEF TypeOK
  <2>3. CASE deaf' = deaf \ {s.client} /\ owed' = IF s.live THEN owed ELSE [owed EXCEPT ![s.client] = {}]
    BY <2>3 DEF TypeOK
  <2>4. CASE Deafened({s.client})
    BY <2>1, <2>4, DeafeningType
  <2> QED BY <1>2, <2>2, <2>3, <2>4 DEF Attach
<1>3. ASSUME NEW s \in subs, TakeHandle(s) PROVE owed' \in [Clients -> SUBSET Numbers] /\ deaf' \in SUBSET Clients
  <2>1. {s.client} \in SUBSET Clients
    BY RequestIs
  <2>2. CASE UNCHANGED <<owed, deaf>>
    BY <2>2 DEF TypeOK
  <2>3. CASE Deafened({s.client})
    BY <2>1, <2>3, DeafeningType
  <2> QED BY <1>3, <2>2, <2>3 DEF TakeHandle
<1>4. ASSUME NEW s \in subs, PruneAndAbort(s) PROVE owed' \in [Clients -> SUBSET Numbers] /\ deaf' \in SUBSET Clients
  BY <1>4, DeafeningType, PruningType DEF PruneAndAbort, TypeOK
<1>5. ASSUME NEW c \in Clients, Select(c) PROVE owed' \in [Clients -> SUBSET Numbers] /\ deaf' \in SUBSET Clients
  BY <1>5, DeafeningType, PruningType DEF Select, Choose, TypeOK
<1>6. ASSUME NEW c \in Clients, Deselect(c) PROVE owed' \in [Clients -> SUBSET Numbers] /\ deaf' \in SUBSET Clients
  BY <1>6, DeafeningType, PruningType DEF Deselect, Choose, TypeOK
<1>7. ASSUME NEW c \in Clients, TimesOut(c) PROVE owed' \in [Clients -> SUBSET Numbers] /\ deaf' \in SUBSET Clients
  <2>1. {c} \in SUBSET Clients
    OBVIOUS
  <2>2. CASE UNCHANGED <<owed, deaf>>
    BY <2>2 DEF TypeOK
  <2>3. CASE Deafened({c})
    BY <2>1, <2>3, DeafeningType
  <2> QED BY <1>7, <2>2, <2>3 DEF TimesOut
<1>8. ASSUME NEW c \in Clients, EventComes(c) PROVE owed' \in [Clients -> SUBSET Numbers] /\ deaf' \in SUBSET Clients
  BY <1>8, DeafeningType, PruningType DEF EventComes, TypeOK
<1>9. ASSUME NEW c \in Clients, Drop(c) PROVE owed' \in [Clients -> SUBSET Numbers] /\ deaf' \in SUBSET Clients
  BY <1>9, ClosedType DEF Drop, TypeOK
<1>10. ASSUME NEW c \in Clients, Resynced(c) PROVE owed' \in [Clients -> SUBSET Numbers] /\ deaf' \in SUBSET Clients
  BY <1>10, ClosedType DEF Resynced, TypeOK
<1>11. ASSUME NEW c \in Clients, Reconnect(c) PROVE owed' \in [Clients -> SUBSET Numbers] /\ deaf' \in SUBSET Clients
  BY <1>11, DeafeningType, PruningType DEF Reconnect, TypeOK
<1>12. ASSUME Emit PROVE owed' \in [Clients -> SUBSET Numbers] /\ deaf' \in SUBSET Clients
  <2>1. sent' \in Numbers
    BY <1>12, RelayConstants DEF Emit, TypeOK, Numbers
  <2> QED BY <1>12, <2>1 DEF Emit, TypeOK
<1>13. ASSUME Crash PROVE owed' \in [Clients -> SUBSET Numbers] /\ deaf' \in SUBSET Clients
  BY <1>13, ClosedType DEF Crash, TypeOK
<1>14. ASSUME UNCHANGED <<owed, deaf>> PROVE owed' \in [Clients -> SUBSET Numbers] /\ deaf' \in SUBSET Clients
  BY <1>14, DeafeningType, PruningType DEF TypeOK
<1>15. ASSUME NEW t \in Tasks, tasks[t] # NoTask,
       Receive(t) \/ Flush(t) \/ StopListening(t) \/ AbortLands(t)
      PROVE owed' \in [Clients -> SUBSET Numbers] /\ deaf' \in SUBSET Clients
  BY <1>15, <1>14 DEF Receive, Sends, Undisturbed, Flush, StopListening, AbortLands
<1>16. ASSUME NEW cg \in served,
       Drain(cg[1], cg[2])
      PROVE owed' \in [Clients -> SUBSET Numbers] /\ deaf' \in SUBSET Clients
  BY <1>16, <1>14 DEF Drain
<1>17. ASSUME NEW s \in subs,
       Ensure(s) \/ Refused(s) \/ Vanish(s)
      PROVE owed' \in [Clients -> SUBSET Numbers] /\ deaf' \in SUBSET Clients
  BY <1>17, <1>14 DEF Ensure, Refused, Fault, Failed, Vanish
<1>18. ASSUME NEW c \in Clients,
       Answered(c) \/ Retry(c)
      PROVE owed' \in [Clients -> SUBSET Numbers] /\ deaf' \in SUBSET Clients
  BY <1>18, <1>14 DEF Answered, Sync, Retry
<1> QED BY <1>1, <1>2, <1>3, <1>4, <1>5, <1>6, <1>7, <1>8, <1>9, <1>10, <1>11, <1>12, <1>13,
           <1>14, <1>15, <1>16, <1>17, <1>18
     DEF Next, TaskStep, vars, relayVars, connVars, linkVars, subVars

\* TypeOK is kept.
LEMMA TypingStep ==
  ASSUME TypeOK, Requested, [Next]_vars
  PROVE  TypeOK'
<1>1. CASE Next
  <2>1. {wants', synced', syncing', retry'} \subseteq [Clients -> BOOLEAN]
    BY <1>1, WantsType, SyncedType, SyncingType, RetryType
  <2> QED BY <1>1, <2>1, TasksType, WireType, SentType, ViewsType, FaultsType, RelayType, ConnType, SubsType,
             LinkType, OwedType DEF TypeOK
<1>2. CASE UNCHANGED vars
  BY <1>2 DEF TypeOK, vars, relayVars, connVars, linkVars, subVars
<1> QED BY <1>1, <1>2

\* It holds at first, when nothing is asked.
LEMMA TypingStart ==
  ASSUME Init
  PROVE  TypeOK /\ Requested
<1>1. sent \in 0..MaxEvents /\ relay \in 0..made /\ made \in 0..MaxRelays /\ views \in 0..MaxViews /\ faults \in 0..MaxFaults
  BY RelayConstants DEF Init
<1>2. tasks \in [Tasks -> {NoTask} \cup TaskTypes] /\ subs \subseteq Requests
  BY DEF Init
<1>3. served \subseteq Clients \X Nat /\ spent \subseteq served /\ open \in [Clients -> BOOLEAN] /\ gen \in [Clients -> Nat]
  BY DEF Init
<1>4. wire \in [Clients -> Seq(Messages)]
  BY EmptySeq DEF Init
<1>5. wants \in [Clients -> BOOLEAN] /\ synced = wants /\ syncing = wants /\ retry = wants
  BY DEF Init
<1>6. owed \in [Clients -> SUBSET Numbers] /\ deaf \subseteq Clients
  BY DEF Init
<1>7. Requested
  BY DEF Init, Requested
<1> QED BY <1>1, <1>2, <1>3, <1>4, <1>5, <1>6, <1>7 DEF TypeOK

-------------------------------------------------------------------------------
(* What a step makes of a task.                                            *)

\* The identity of a task: what no step of it changes.
SameTask(k, tk) == k.client = tk.client /\ k.gen = tk.gen /\ k.relay = tk.relay
SameHandle(k, tk) == k.installed = tk.installed /\ k.aborted = tk.aborted

\* What is left of a task that leaves its loop: its handle.
LEMMA LeftIs ==
  ASSUME NEW tk \in TaskTypes
  PROVE  /\ SameTask(Left(tk), tk) /\ SameHandle(Left(tk), tk)
         /\ Left(tk).at = "leaving" /\ Left(tk).inbox = <<>> /\ Left(tk).lagged = FALSE /\ Left(tk).held = {}
BY DEF TaskTypes, Left, SameTask, SameHandle

\* What an abort changes of a task: its handle only.
LEMMA AbortedIs ==
  ASSUME NEW tk \in TaskTypes
  PROVE  /\ SameTask(Aborted(tk), tk) /\ Aborted(tk).installed = FALSE /\ Aborted(tk).aborted = TRUE
         /\ Aborted(tk).at = tk.at /\ Aborted(tk).inbox = tk.inbox /\ Aborted(tk).lagged = tk.lagged /\ Aborted(tk).held = tk.held
BY DEF TaskTypes, Aborted, SameTask

\* What a task loses when its handle is taken out: nothing else.
LEMMA UninstalledIs ==
  ASSUME NEW tk \in TaskTypes
  PROVE  LET k == [tk EXCEPT !.installed = FALSE]
         IN  /\ SameTask(k, tk) /\ k.installed = FALSE /\ k.aborted = tk.aborted
             /\ k.at = tk.at /\ k.inbox = tk.inbox /\ k.lagged = tk.lagged /\ k.held = tk.held
BY DEF TaskTypes, SameTask

\* What a flush changes of a task.
LEMMA FlushedIs ==
  ASSUME NEW tk \in TaskTypes
  PROVE  LET k == [tk EXCEPT !.held = {}]
         IN  /\ SameTask(k, tk) /\ SameHandle(k, tk)
             /\ k.at = tk.at /\ k.inbox = tk.inbox /\ k.lagged = tk.lagged /\ k.held = {}
BY DEF TaskTypes, SameTask, SameHandle

\* What a task that reads an event of its channel keeps.
LEMMA ReadIs ==
  ASSUME NEW tk \in TaskTypes, NEW h
  PROVE  LET k == [[tk EXCEPT !.inbox = Tail(@)] EXCEPT !.held = h]
         IN  /\ SameTask(k, tk) /\ SameHandle(k, tk)
             /\ k.at = tk.at /\ k.inbox = Tail(tk.inbox) /\ k.lagged = tk.lagged /\ k.held = h
<1> DEFINE i == Tail(tk.inbox)
<1>1. [[tk EXCEPT !.inbox = Tail(@)] EXCEPT !.held = h] = [[tk EXCEPT !.inbox = i] EXCEPT !.held = h]
  OBVIOUS
<1> HIDE DEF i
<1>2. LET k == [[tk EXCEPT !.inbox = i] EXCEPT !.held = h]
      IN  /\ SameTask(k, tk) /\ SameHandle(k, tk)
          /\ k.at = tk.at /\ k.inbox = i /\ k.lagged = tk.lagged /\ k.held = h
  BY DEF TaskTypes, SameTask, SameHandle
<1> QED BY <1>1, <1>2 DEF i

\* What a task that is given an event keeps: all, or it has lagged.
LEMMA PushedIs ==
  ASSUME NEW tk \in TaskTypes, NEW n \in Numbers
  PROVE  LET k == Push(tk, n)
         IN  /\ SameTask(k, tk) /\ SameHandle(k, tk) /\ k.at = tk.at /\ k.held = tk.held
             /\ \/ k.inbox = Append(tk.inbox, n) /\ k.lagged = tk.lagged
                \/ k.lagged = TRUE
<1>1. CASE Len(tk.inbox) < Room
  BY <1>1 DEF TaskTypes, SameTask, SameHandle, Push
<1>2. CASE ~(Len(tk.inbox) < Room)
  <2> DEFINE i == Append(Tail(tk.inbox), n)
  <2>1. Push(tk, n) = [tk EXCEPT !.inbox = i, !.lagged = TRUE]
    BY <1>2 DEF Push
  <2> HIDE DEF i
  <2> QED BY <2>1 DEF TaskTypes, SameTask, SameHandle
<1> QED BY <1>1, <1>2

\* What a step makes of a task.
Gone(u)   == tasks'[u] = NoTask
Began(u)  == tasks[u] = NoTask /\ u \in Free /\ tasks'[u] # NoTask /\ tasks'[u].at = "run" /\ tasks'[u].aborted = FALSE
Goes(u)   == tasks[u] # NoTask /\ tasks'[u] # NoTask /\ SameTask(tasks'[u], tasks[u])
Moves(u)  == /\ Goes(u)
             /\ SameHandle(tasks'[u], tasks[u]) \/ tasks'[u].installed = FALSE
             /\ \/ tasks'[u].at = "run"
                \/ tasks'[u].at = tasks[u].at /\ tasks'[u].inbox = tasks[u].inbox
                   /\ tasks'[u].lagged = tasks[u].lagged /\ tasks'[u].held = tasks[u].held
                \/ tasks'[u].at = "leaving" /\ tasks'[u].inbox = <<>> /\ tasks'[u].lagged = FALSE /\ tasks'[u].held = {}
Same(u) == tasks'[u] = tasks[u]

\* A task that is left goes on in this sense.
LEMMA LeftGoes ==
  ASSUME TypeOK, NEW u \in Tasks, tasks[u] # NoTask, tasks'[u] = Left(tasks[u])
  PROVE  Moves(u)
<1>1. tasks[u] \in TaskTypes
  BY TaskIs
<1>2. Left(tasks[u]) # NoTask
  BY <1>1, TaskEdits
<1> QED BY <1>1, <1>2, LeftIs DEF Moves, Goes

\* So does one that is aborted.
LEMMA AbortedGoes ==
  ASSUME TypeOK, NEW u \in Tasks, tasks[u] # NoTask, tasks'[u] = Aborted(tasks[u])
  PROVE  Moves(u)
<1>1. tasks[u] \in TaskTypes
  BY TaskIs
<1>2. Aborted(tasks[u]) # NoTask
  BY <1>1, TaskEdits
<1> QED BY <1>1, <1>2, AbortedIs DEF Moves, Goes

\* So does one whose handle is taken out.
LEMMA UninstalledGoes ==
  ASSUME TypeOK, NEW u \in Tasks, tasks[u] # NoTask, tasks'[u] = [tasks[u] EXCEPT !.installed = FALSE]
  PROVE  Moves(u)
<1>1. tasks[u] \in TaskTypes
  BY TaskIs
<1>2. [tasks[u] EXCEPT !.installed = FALSE] # NoTask
  BY <1>1, TaskEdits
<1> QED BY <1>1, <1>2, UninstalledIs DEF Moves, Goes

\* Every step ends a task, begins one, lets it go on, or leaves it alone.
LEMMA TaskFate ==
  ASSUME TypeOK, Requested, Next, NEW u \in Tasks
  PROVE  (Gone(u) \/ Began(u) \/ Moves(u) \/ Same(u))
<1> DEFINE Goal == (Gone(u) \/ Began(u) \/ Moves(u) \/ Same(u))
<1>1. ASSUME NEW t \in Tasks, tasks[t] # NoTask, Receive(t) PROVE Goal
  <2>1. PICK h \in SUBSET Numbers, ms \in Seq(Messages) :
          /\ tasks[t].inbox # <<>> /\ tasks[t].at = "run"
          /\ Sends(t, ms, [[tasks[t] EXCEPT !.inbox = Tail(@)] EXCEPT !.held = h])
    BY <1>1, Receiving
  <2> DEFINE k == [[tasks[t] EXCEPT !.inbox = Tail(@)] EXCEPT !.held = h]
  <2>2. tasks[t] \in TaskTypes
    BY <1>1, TaskIs
  <2>3. k \in TaskTypes
    BY <2>1, <2>2, TaskReads
  <2>4. k.at = tasks[t].at /\ SameTask(k, tasks[t]) /\ SameHandle(k, tasks[t])
    BY <2>2, ReadIs
  <2>5. Sends(t, ms, k)
    BY <2>1
  <2> HIDE DEF k
  <2>6. /\ u # t => tasks'[u] = tasks[u]
        /\ tasks'[t] = k \/ tasks'[t] = Left(tasks[t])
    BY <1>1, <2>3, <2>5, Sending
  <2>7. CASE u = t /\ tasks'[t] = k
    BY <1>1, <2>1, <2>3, <2>4, <2>7, TaskEdits DEF Moves, Goes
  <2> QED BY <1>1, <2>6, <2>7, LeftGoes DEF Same
<1>2. ASSUME NEW t \in Tasks, tasks[t] # NoTask, Flush(t) PROVE Goal
  <2> DEFINE k == [tasks[t] EXCEPT !.held = {}]
  <2>1. tasks[t] \in TaskTypes
    BY <1>2, TaskIs
  <2>2. k \in TaskTypes /\ k.at = tasks[t].at /\ SameTask(k, tasks[t]) /\ SameHandle(k, tasks[t])
    BY <2>1, FlushedIs, TaskEdits
  <2>3. Sends(t, Flushed(tasks[t]), k) /\ tasks[t].at = "run"
    BY <1>2 DEF Flush
  <2> HIDE DEF k
  <2>4. /\ u # t => tasks'[u] = tasks[u]
        /\ tasks'[t] = k \/ tasks'[t] = Left(tasks[t])
    BY <1>2, <2>2, <2>3, Sending
  <2>5. CASE u = t /\ tasks'[t] = k
    BY <1>2, <2>2, <2>3, <2>5, TaskEdits DEF Moves, Goes
  <2> QED BY <1>2, <2>4, <2>5, LeftGoes DEF Same
<1>3. ASSUME NEW t \in Tasks, tasks[t] # NoTask, StopListening(t) PROVE Goal
  <2>1. PICK ms \in Seq(Messages) : Sends(t, ms, Left(tasks[t]))
    BY <1>3, Stopping
  <2>2. Left(tasks[t]) \in TaskTypes
    BY <1>3, TaskIs, TaskEdits
  <2>3. /\ u # t => tasks'[u] = tasks[u]
        /\ tasks'[t] = Left(tasks[t])
    BY <1>3, <2>1, <2>2, Sending
  <2> QED BY <1>3, <2>3, LeftGoes DEF Same
<1>4. ASSUME NEW t \in Tasks, tasks[t] # NoTask, Leave(t) PROVE Goal
  BY <1>4 DEF Leave, TypeOK, Gone, Same
<1>5. ASSUME NEW t \in Tasks, tasks[t] # NoTask, AbortLands(t) PROVE Goal
  BY <1>5 DEF AbortLands, TypeOK, Gone, Same
<1>6. ASSUME NEW cg \in served, Drain(cg[1], cg[2]) PROVE Goal
  <2>1. tasks'[u] = IF u \in Installed(cg[1], cg[2]) THEN Aborted(tasks[u]) ELSE tasks[u]
    BY <1>6 DEF Drain
  <2>2. u \in Installed(cg[1], cg[2]) => tasks[u] # NoTask
    BY DEF Installed
  <2> QED BY <2>1, <2>2, AbortedGoes DEF Same
<1>7. ASSUME NEW s \in subs, Attach(s) PROVE Goal
  <2> DEFINE own == CHOOSE t \in Free : TRUE
             new == [at |-> "run", client |-> s.client, gen |-> s.gen, relay |-> s.arg, inbox |-> <<>>, lagged |-> FALSE,
              held |-> {}, installed |-> TRUE, aborted |-> FALSE]
  <2>1. own \in Free /\ tasks[own] = NoTask
    BY <1>7 DEF Attach, Free
  <2>2. tasks'[u] = IF u = own THEN new ELSE IF u \in Installed(s.client, s.gen) THEN Aborted(tasks[u]) ELSE tasks[u]
    BY <1>7 DEF Attach
  <2>3. u \in Installed(s.client, s.gen) => tasks[u] # NoTask
    BY DEF Installed
  <2>4. new # NoTask /\ new.at = "run" /\ new.aborted = FALSE
    <3>1. new.at # NoTask.at
      BY DEF NoTask
    <3> QED BY <3>1
  <2> HIDE DEF own, new
  <2>5. CASE u = own
    BY <2>1, <2>2, <2>4, <2>5 DEF Began
  <2>6. CASE u # own
    BY <2>2, <2>3, <2>6, AbortedGoes DEF Same
  <2> QED BY <2>5, <2>6
<1>8. ASSUME NEW s \in subs, TakeHandle(s) PROVE Goal
  <2>1. tasks'[u] = IF u \in Installed(s.client, s.gen) THEN [tasks[u] EXCEPT !.installed = FALSE] ELSE tasks[u]
    BY <1>8 DEF TakeHandle
  <2>2. u \in Installed(s.client, s.gen) => tasks[u] # NoTask
    BY DEF Installed
  <2> QED BY <2>1, <2>2, UninstalledGoes DEF Same
<1>9. ASSUME NEW s \in subs, PruneAndAbort(s) PROVE Goal
  <2>1. tasks'[u] = IF u = s.arg /\ tasks[u] # NoTask THEN Aborted(tasks[u]) ELSE tasks[u]
    BY <1>9 DEF PruneAndAbort
  <2> QED BY <2>1, AbortedGoes DEF Same
<1>10. ASSUME Emit PROVE Goal
  <2>1. sent' \in Numbers
    BY <1>10, RelayConstants DEF Emit, TypeOK, Numbers
  <2>2. tasks'[u] = IF Hears(tasks[u], relay) THEN Push(tasks[u], sent') ELSE tasks[u]
    BY <1>10 DEF Emit
  <2>3. CASE Hears(tasks[u], relay)
    <3>1. tasks[u] \in TaskTypes /\ tasks[u].at = "run" /\ tasks[u] # NoTask
      BY <2>3, TaskIs DEF Hears
    <3>2. PICK n \in Numbers : n = sent'
      BY <2>1
    <3>3. /\ Push(tasks[u], n) # NoTask /\ Push(tasks[u], n).at = "run"
          /\ SameTask(Push(tasks[u], n), tasks[u]) /\ SameHandle(Push(tasks[u], n), tasks[u])
      BY <3>1, <3>2, PushedIs, TaskGets, TaskEdits
    <3> QED BY <2>2, <2>3, <3>1, <3>2, <3>3 DEF Moves, Goes
  <2> QED BY <2>2, <2>3 DEF Same
<1>11. ASSUME Crash PROVE Goal
  BY <1>11 DEF Crash, Gone
<1>12. ASSUME UNCHANGED tasks PROVE Goal
  BY <1>12 DEF Same
<1>13. ASSUME NEW s \in subs,
       Ensure(s) \/ Refused(s) \/ Vanish(s)
      PROVE Goal
  BY <1>13, <1>12 DEF Ensure, Refused, Fault, Failed, Vanish
<1>14. ASSUME NEW c \in Clients,
       Select(c) \/ Deselect(c) \/ Answered(c) \/ TimesOut(c) \/ Retry(c) \/ EventComes(c)
       \/ Drop(c) \/ Resynced(c) \/ Reconnect(c)
      PROVE Goal
  BY <1>14, <1>12 DEF Select, Choose, Sync, Deselect, Answered, TimesOut, Fault, Deafened,
                      Failed, Retry, EventComes, Drop, Closed, Resynced, Reconnect
<1> SUFFICES Goal
  OBVIOUS
<1> HIDE DEF Goal
<1> QED BY <1>1, <1>2, <1>3, <1>4, <1>5, <1>6, <1>7, <1>8, <1>9, <1>10, <1>11, <1>12, <1>13,
           <1>14
     DEF Next, TaskStep, vars, relayVars, connVars, linkVars, subVars

\* TaskOK is kept: a task that is leaving has nothing, an aborted one no handle.
LEMMA TaskStepOK ==
  ASSUME TypeOK, Requested, Next, NEW u \in Tasks, TaskOK(u)
  PROVE  TaskOK(u)'
<1>1. CASE Gone(u)
  BY <1>1 DEF Gone, TaskOK
<1>2. CASE Same(u)
  BY <1>2 DEF Same, TaskOK
<1>3. CASE Began(u)
  BY <1>3 DEF Began, TaskOK
<1>4. CASE Moves(u)
  <2>1. tasks[u] # NoTask /\ tasks'[u] # NoTask
    BY <1>4 DEF Moves, Goes
  <2>2. tasks'[u].at = "leaving" => tasks'[u].inbox = <<>> /\ ~tasks'[u].lagged /\ tasks'[u].held = {}
    BY <1>4, <2>1, Zenon DEF Moves, TaskOK
  <2>3. tasks'[u].aborted => ~tasks'[u].installed
    BY <1>4, <2>1, Zenon DEF Moves, TaskOK, SameHandle
  <2> QED BY <2>2, <2>3 DEF TaskOK
<1> QED BY <1>1, <1>2, <1>3, <1>4, TaskFate

-------------------------------------------------------------------------------
(* What a step makes of a request.                                         *)

\* What a request may be after a step: kept, given up, made, or taken further.
GivenUp(s) == [s EXCEPT !.live = FALSE]
Further(s, at, a) == [s EXCEPT !.at = at, !.arg = a]

Kept(r)     == r \in subs /\ gen'[r.client] = gen[r.client]
Abandoned(r) == \E s \in subs : r = GivenUp(s)
Made(r)     == /\ r \in Requests /\ r.at = "sent" /\ r.live = TRUE /\ r.gen = gen'[r.client]
Ensured(r)  == /\ relay' \in Relays /\ UNCHANGED gen
               /\ \E s \in subs : s.kind = "subscribe" /\ r = Further(s, "ensured", relay')
Cut(r)      == /\ UNCHANGED gen
               /\ \E s \in subs : \E a \in Nat :
                    /\ s.kind = "unsubscribe" /\ r = Further(s, "removed", a)
                    /\ a \in Tasks => tasks'[a].installed = FALSE

\* What a request that is given up keeps.
LEMMA GivenUpIs ==
  ASSUME NEW s \in Requests
  PROVE  LET r == GivenUp(s)
         IN  r.client = s.client /\ r.gen = s.gen /\ r.kind = s.kind /\ r.at = s.at /\ r.arg = s.arg /\ r.live = FALSE
BY DEF GivenUp, Requests

\* What a request that is taken further keeps.
LEMMA FurtherIs ==
  ASSUME NEW s \in Requests, NEW at, NEW a
  PROVE  LET r == Further(s, at, a)
         IN  r.client = s.client /\ r.gen = s.gen /\ r.kind = s.kind /\ r.at = at /\ r.arg = a /\ r.live = s.live
BY DEF Further, Requests

AskedBy(r, c, g) == r \in Requests /\ r.at = "sent" /\ r.live = TRUE /\ r.gen = g /\ r.client = c

\* What the call that asks leaves in the gateway.
LEMMA AskingLeaves ==
  ASSUME NEW c \in Clients, NEW g \in Nat, NEW w, NEW s, NEW others, Sync(c, g, w, s, others),
         NEW r, r \in subs', r \notin others
  PROVE  /\ AskedBy(r, c, g) /\ ~(w = s)
         /\ r.kind = IF w THEN "subscribe" ELSE "unsubscribe"
<1>1. PICK q \in Requests :
           /\ q = [client |-> c, gen |-> g, kind |-> IF w THEN "subscribe" ELSE "unsubscribe",
                   at |-> "sent", arg |-> 0, live |-> TRUE]
           /\ subs' = IF w = s THEN others ELSE others \cup {q}
  BY Asking
<1>2. r = q /\ ~(w = s)
  BY <1>1
<1>3. q.at = "sent" /\ q.live = TRUE /\ q.gen = g /\ q.client = c /\ q.kind = IF w THEN "subscribe" ELSE "unsubscribe"
  BY <1>1
<1> QED BY <1>2, <1>3 DEF AskedBy

\* Where a request that is out after a step comes from.
LEMMA RequestFate ==
  ASSUME TypeOK, Requested, Next, NEW r \in subs'
  PROVE  (Kept(r) \/ Abandoned(r) \/ Made(r) \/ Ensured(r) \/ Cut(r))
<1> DEFINE Goal == (Kept(r) \/ Abandoned(r) \/ Made(r) \/ Ensured(r) \/ Cut(r))
<1>1. ASSUME NEW s \in subs, Ensure(s) PROVE Goal
  <2>1. \/ made < MaxRelays /\ made' = made + 1 /\ relay' = made'
        \/ relay # 0 /\ relay' = relay
    BY <1>1 DEF Ensure, relayVars
  <2>2. relay' \in Relays
    BY <2>1, RelayConstants DEF TypeOK, Relays
  <2>3. s.kind = "subscribe" /\ subs' = (subs \ {s}) \cup {Further(s, "ensured", relay')} /\ UNCHANGED gen
    BY <1>1 DEF Ensure, Further, linkVars
  <2> QED BY <2>2, <2>3 DEF Kept, Ensured
<1>2. ASSUME NEW s \in subs, Attach(s) PROVE Goal
  BY <1>2 DEF Attach, linkVars, Kept
<1>3. ASSUME NEW s \in subs, TakeHandle(s) PROVE Goal
  <2> DEFINE had == Installed(s.client, s.gen)
             a == IF had = {} THEN 0 ELSE CHOOSE t \in had : TRUE
  <2>1. a \in Nat /\ (a \in Tasks => a \in had)
    <3>1. had \subseteq Nat /\ 0 \notin Tasks
      BY RelayConstants DEF Installed, Tasks
    <3> HIDE DEF had
    <3> QED BY <3>1
  <2>2. ASSUME NEW t \in Tasks, t \in had PROVE tasks'[t].installed = FALSE
    <3>1. tasks'[t] = [tasks[t] EXCEPT !.installed = FALSE]
      BY <1>3, <2>2 DEF TakeHandle
    <3>2. tasks[t] \in TaskTypes
      BY <2>2, TaskIs DEF Installed
    <3> QED BY <3>1, <3>2, UninstalledIs
  <2>3. subs' = (subs \ {s}) \cup {Further(s, "removed", a)} \/ subs' = subs \ {s}
    BY <1>3 DEF TakeHandle, Further
  <2>4. s.kind = "unsubscribe" /\ UNCHANGED gen
    BY <1>3 DEF TakeHandle, linkVars
  <2> HIDE DEF a, had
  <2>5. a \in Tasks => tasks'[a].installed = FALSE
    BY <2>1, <2>2
  <2> QED BY <2>1, <2>3, <2>4, <2>5 DEF Kept, Cut
<1>4. ASSUME NEW s \in subs, PruneAndAbort(s) PROVE Goal
  BY <1>4 DEF PruneAndAbort, linkVars, Kept
<1>5. ASSUME NEW s \in subs, Refused(s) PROVE Goal
  BY <1>5 DEF Refused, Fault, linkVars, Kept
<1>6. ASSUME NEW s \in subs, Vanish(s) PROVE Goal
  BY <1>6 DEF Vanish, linkVars, Kept
<1>7. ASSUME NEW c \in Clients, Select(c) PROVE Goal
  <2>1. gen[c] \in Nat
    BY DEF TypeOK
  <2>2. UNCHANGED gen /\ (Sync(c, gen[c], TRUE, synced[c], subs) \/ subs' = subs)
    BY <1>7 DEF Select, Choose, linkVars
  <2>3. CASE r \in subs
    BY <2>2, <2>3 DEF Kept
  <2>4. CASE r \notin subs
    <3>1. Sync(c, gen[c], TRUE, synced[c], subs)
      BY <2>2, <2>4
    <3>2. AskedBy(r, c, gen[c])
      BY <2>1, <2>4, <3>1, AskingLeaves, Zenon
    <3> QED BY <2>2, <3>2 DEF Made, AskedBy
  <2> QED BY <2>3, <2>4
<1>8. ASSUME NEW c \in Clients, Deselect(c) PROVE Goal
  <2>1. gen[c] \in Nat
    BY DEF TypeOK
  <2>2. UNCHANGED gen /\ (Sync(c, gen[c], FALSE, synced[c], subs) \/ subs' = subs)
    BY <1>8 DEF Deselect, Choose, linkVars
  <2>3. CASE r \in subs
    BY <2>2, <2>3 DEF Kept
  <2>4. CASE r \notin subs
    <3>1. Sync(c, gen[c], FALSE, synced[c], subs)
      BY <2>2, <2>4
    <3>2. AskedBy(r, c, gen[c])
      BY <2>1, <2>4, <3>1, AskingLeaves, Zenon
    <3> QED BY <2>2, <3>2 DEF Made, AskedBy
  <2> QED BY <2>3, <2>4
<1>9. ASSUME NEW c \in Clients, Answered(c) PROVE Goal
  <2>1. gen[c] \in Nat
    BY DEF TypeOK
  <2>2. UNCHANGED gen /\ (Sync(c, gen[c], wants[c], synced'[c], subs) \/ subs' = subs)
    BY <1>9 DEF Answered, linkVars
  <2>3. CASE r \in subs
    BY <2>2, <2>3 DEF Kept
  <2>4. CASE r \notin subs
    <3>1. Sync(c, gen[c], wants[c], synced'[c], subs)
      BY <2>2, <2>4
    <3>2. AskedBy(r, c, gen[c])
      BY <2>1, <2>4, <3>1, AskingLeaves, Zenon
    <3> QED BY <2>2, <3>2 DEF Made, AskedBy
  <2> QED BY <2>3, <2>4
<1>10. ASSUME NEW c \in Clients, TimesOut(c) PROVE Goal
  <2> DEFINE mine == {s \in subs : s.client = c /\ s.live}
  <2>1. subs' = (subs \ mine) \cup {GivenUp(s) : s \in mine} /\ UNCHANGED gen
    BY <1>10 DEF TimesOut, GivenUp, linkVars
  <2>2. mine \subseteq subs
    OBVIOUS
  <2> HIDE DEF mine
  <2> QED BY <2>1, <2>2 DEF Kept, Abandoned
<1>11. ASSUME NEW c \in Clients, Retry(c) PROVE Goal
  <2>1. gen[c] \in Nat
    BY DEF TypeOK
  <2>2. UNCHANGED gen /\ (Sync(c, gen[c], wants[c], synced[c], subs) \/ subs' = subs)
    BY <1>11 DEF Retry, linkVars
  <2>3. CASE r \in subs
    BY <2>2, <2>3 DEF Kept
  <2>4. CASE r \notin subs
    <3>1. Sync(c, gen[c], wants[c], synced[c], subs)
      BY <2>2, <2>4
    <3>2. AskedBy(r, c, gen[c])
      BY <2>1, <2>4, <3>1, AskingLeaves, Zenon
    <3> QED BY <2>2, <3>2 DEF Made, AskedBy
  <2> QED BY <2>3, <2>4
<1>12. ASSUME NEW c \in Clients, Reconnect(c) PROVE Goal
  <2> DEFINE others == {IF s.client = c THEN [s EXCEPT !.live = FALSE] ELSE s : s \in subs}
  <2>1. gen' = [gen EXCEPT ![c] = gen[c] + 1] /\ gen \in [Clients -> Nat] /\ gen'[c] \in Nat
    BY <1>12 DEF Reconnect, TypeOK
  <2>2. PICK g \in Nat : g = gen'[c]
    BY <2>1
  <2>3. Sync(c, g, wants[c], FALSE, others)
    BY <1>12, <2>2 DEF Reconnect
  <2>4. CASE r \in others
    <3>1. PICK s \in subs : r = IF s.client = c THEN [s EXCEPT !.live = FALSE] ELSE s
      BY <2>4
    <3>2. s.client \in Clients
      BY RequestIs
    <3> QED BY <2>1, <3>1, <3>2 DEF Abandoned, GivenUp, Kept
  <2>5. CASE r \notin others
    <3> HIDE DEF others
    <3>1. AskedBy(r, c, g)
      BY <2>2, <2>3, <2>5, AskingLeaves, Zenon
    <3> QED BY <2>2, <3>1 DEF Made, AskedBy
  <2> QED BY <2>4, <2>5
<1>13. ASSUME Crash PROVE Goal
  BY <1>13 DEF Crash, Fault, Closed, Kept, linkVars
<1>14. ASSUME UNCHANGED <<subs, gen>> PROVE Goal
  BY <1>14 DEF Kept, linkVars
<1>15. ASSUME
       Emit
      PROVE Goal
  BY <1>15, <1>14 DEF Emit, linkVars
<1>16. ASSUME NEW t \in Tasks, tasks[t] # NoTask,
       Receive(t) \/ Flush(t) \/ StopListening(t) \/ Leave(t) \/ AbortLands(t)
      PROVE Goal
  BY <1>16, <1>14 DEF Receive, Sends, Undisturbed, linkVars, Flush, StopListening, Leave,
                      Prune, Deafened, AbortLands
<1>17. ASSUME NEW cg \in served,
       Drain(cg[1], cg[2])
      PROVE Goal
  BY <1>17, <1>14 DEF Drain, linkVars
<1>18. ASSUME NEW c \in Clients,
       EventComes(c) \/ Drop(c) \/ Resynced(c)
      PROVE Goal
  BY <1>18, <1>14 DEF EventComes, linkVars, Drop, Fault, Closed, Resynced
<1> SUFFICES Goal
  OBVIOUS
<1> HIDE DEF Goal
<1> QED BY <1>1, <1>2, <1>3, <1>4, <1>5, <1>6, <1>7, <1>8, <1>9, <1>10, <1>11, <1>12, <1>13,
           <1>14, <1>15, <1>16, <1>17, <1>18
     DEF Next, TaskStep, vars, relayVars, connVars, linkVars, subVars

\* A task whose handle was taken out is not installed again while the request that
\* took it is under way.
LEMMA StillCutOff ==
  ASSUME TypeOK, Requested, Next, NEW s \in subs, s.at = "removed", NEW a, a = s.arg, a \in Tasks
  PROVE  tasks'[a] = NoTask \/ ~tasks'[a].installed
<1>1. tasks[a] = NoTask \/ ~tasks[a].installed
  BY DEF Requested, RequestOK
<1>2. a \notin Free
  BY DEF Free
<1>3. CASE Gone(a)
  BY <1>3 DEF Gone
<1>4. CASE Same(a)
  BY <1>1, <1>4 DEF Same
<1>5. CASE Began(a)
  BY <1>2, <1>5 DEF Began
<1>6. CASE Moves(a)
  <2>1. tasks'[a].installed = tasks[a].installed \/ tasks'[a].installed = FALSE
    BY <1>6, Zenon DEF Moves, SameHandle
  <2>2. tasks[a] # NoTask
    BY <1>6 DEF Moves, Goes
  <2> QED BY <1>1, <2>1, <2>2, Zenon
<1> QED BY <1>3, <1>4, <1>5, <1>6, TaskFate

\* RequestOK is kept for every request.
LEMMA RequestsStepOK ==
  ASSUME TypeOK, Requested, Next
  PROVE  Requested'
<1> DEFINE OK(r) == /\ r.at = "ensured" => r.arg \in Relays /\ r.kind = "subscribe"
                    /\ r.at = "removed" => r.kind = "unsubscribe"
                    /\ \A a \in Tasks : r.at = "removed" /\ r.arg = a => tasks'[a] = NoTask \/ ~tasks'[a].installed
                    /\ r.live => r.gen = gen'[r.client]
<1> SUFFICES ASSUME NEW r \in subs' PROVE OK(r)
  BY DEF Requested, RequestOK
<1>1. CASE Kept(r)
  <2>1. r \in subs /\ gen'[r.client] = gen[r.client]
    BY <1>1 DEF Kept
  <2>2. \A a \in Tasks : r.at = "removed" /\ r.arg = a => tasks'[a] = NoTask \/ ~tasks'[a].installed
    BY <2>1, StillCutOff
  <2> QED BY <2>1, <2>2 DEF Requested, RequestOK
<1>2. CASE Abandoned(r)
  <2>1. PICK s \in subs : r = GivenUp(s)
    BY <1>2 DEF Abandoned
  <2>2. r.kind = s.kind /\ r.at = s.at /\ r.arg = s.arg /\ r.live = FALSE
    BY <2>1, RequestIs, GivenUpIs
  <2>3. \A a \in Tasks : r.at = "removed" /\ r.arg = a => tasks'[a] = NoTask \/ ~tasks'[a].installed
    BY <2>2, StillCutOff
  <2>4. ~r.live
    BY <2>2, Zenon
  <2> QED BY <2>2, <2>3, <2>4 DEF Requested, RequestOK
<1>3. CASE Made(r)
  BY <1>3 DEF Made
<1>4. CASE Ensured(r)
  <2>1. PICK s \in subs : s.kind = "subscribe" /\ r = Further(s, "ensured", relay')
    BY <1>4 DEF Ensured
  <2>2. r.kind = s.kind /\ r.at = "ensured" /\ r.arg = relay' /\ r.live = s.live /\ r.gen = s.gen /\ r.client = s.client
    BY <2>1, RequestIs, FurtherIs
  <2>3. gen'[r.client] = gen[s.client] /\ relay' \in Relays
    BY <1>4, <2>2 DEF Ensured
  <2>4. s.live => s.gen = gen[s.client]
    BY DEF Requested, RequestOK
  <2>5. r.live => r.gen = gen'[r.client]
    BY <2>2, <2>3, <2>4, Zenon
  <2> QED BY <2>1, <2>2, <2>3, <2>5
<1>5. CASE Cut(r)
  <2>7. PICK s \in subs : \E b \in Nat : /\ s.kind = "unsubscribe" /\ r = Further(s, "removed", b)
                                         /\ b \in Tasks => tasks'[b].installed = FALSE
    BY <1>5 DEF Cut
  <2>1. PICK b \in Nat : s.kind = "unsubscribe" /\ r = Further(s, "removed", b)
                         /\ (b \in Tasks => tasks'[b].installed = FALSE)
    BY <2>7
  <2>2. r.kind = s.kind /\ r.at = "removed" /\ r.arg = b /\ r.live = s.live /\ r.gen = s.gen /\ r.client = s.client
    BY <2>1, RequestIs, FurtherIs
  <2>3. gen'[r.client] = gen[s.client]
    BY <1>5, <2>2 DEF Cut
  <2>4. s.live => s.gen = gen[s.client]
    BY DEF Requested, RequestOK
  <2>5. r.live => r.gen = gen'[r.client]
    BY <2>2, <2>3, <2>4, Zenon
  <2>6. \A a \in Tasks : r.arg = a => ~tasks'[a].installed
    BY <2>1, <2>2, Zenon
  <2> QED BY <2>1, <2>2, <2>5, <2>6
<1> QED BY <1>1, <1>2, <1>3, <1>4, <1>5, RequestFate

-------------------------------------------------------------------------------
(* What is on the wires.                                                   *)

\* Messages that answer nothing.
News(ms) == \A m \in ToSet(ms) : m.kind \notin {"subscribe", "unsubscribe"}

\* News behind what is on a wire leaves the answers on it alone.
LEMMA NewsKeepsAnswers ==
  ASSUME NEW w \in Seq(Messages), NEW ms \in Seq(Messages), News(ms)
  PROVE  Kinds(w \o ms) = Kinds(w) /\ (Single(w) => Single(w \o ms))
<1> DEFINE j == w \o ms
<1>1. /\ \A i \in DOMAIN w : i \in DOMAIN j /\ j[i] = w[i]
      /\ \A i \in DOMAIN j : i \notin DOMAIN w => j[i] \in ToSet(ms)
  BY Joined
<1> HIDE DEF j
<1>2. ASSUME NEW i \in AnswersIn(j) PROVE i \in AnswersIn(w) /\ j[i] = w[i]
  BY <1>1 DEF News, AnswersIn
<1>3. ASSUME NEW i \in AnswersIn(w) PROVE i \in AnswersIn(j) /\ j[i] = w[i]
  BY <1>1 DEF AnswersIn
<1>4. Kinds(j) = Kinds(w)
  BY <1>2, <1>3 DEF Kinds
<1>5. Single(w) => Single(j)
  BY <1>2 DEF Single
<1> QED BY <1>4, <1>5 DEF j

\* An answer on a wire without one is the only one.
LEMMA AnswerIsAdded ==
  ASSUME NEW w \in Seq(Messages), Kinds(w) = {}, NEW m \in Messages, m.kind \in {"subscribe", "unsubscribe"}
  PROVE  Kinds(Append(w, m)) = {m.kind} /\ Single(Append(w, m))
<1> DEFINE j == Append(w, m)
<1>1. /\ DOMAIN j = DOMAIN w \cup {Len(w) + 1}
      /\ \A i \in DOMAIN w : j[i] = w[i]
      /\ j[Len(w) + 1] = m
  BY Appended
<1> HIDE DEF j
<1>2. ASSUME NEW i \in DOMAIN w PROVE i \notin AnswersIn(j)
  <2>1. i \notin AnswersIn(w)
    BY DEF Kinds
  <2> QED BY <1>1, <2>1 DEF AnswersIn
<1>3. AnswersIn(j) = {Len(w) + 1}
  BY <1>1, <1>2 DEF AnswersIn
<1>4. Kinds(j) = {m.kind} /\ Single(j)
  BY <1>1, <1>3 DEF Kinds, Single
<1> QED BY <1>4 DEF j

\* News taken from a wire leaves the answers on it alone.
LEMMA NewsIsTaken ==
  ASSUME NEW w \in Seq(Messages), w # <<>>, Head(w).kind \notin {"subscribe", "unsubscribe"}
  PROVE  Kinds(Tail(w)) = Kinds(w) /\ (Single(w) => Single(Tail(w)))
<1>1. /\ Head(w) = w[1] /\ Tail(w) \in Seq(Messages)
      /\ \A i \in DOMAIN Tail(w) : i \in Nat \ {0} /\ i + 1 \in DOMAIN w /\ Tail(w)[i] = w[i + 1]
      /\ ToSet(w) = {Head(w)} \cup ToSet(Tail(w))
  BY Taken
<1>2. ASSUME NEW i \in AnswersIn(Tail(w)) PROVE i + 1 \in AnswersIn(w) /\ Tail(w)[i] = w[i + 1] /\ i \in Nat
  BY <1>1 DEF AnswersIn
<1>3. ASSUME NEW i \in AnswersIn(w) PROVE w[i].kind \in Kinds(Tail(w))
  <2>1. w[i] \in ToSet(w) /\ w[i].kind \in {"subscribe", "unsubscribe"}
    BY DEF AnswersIn, ToSet
  <2>2. w[i] \in ToSet(Tail(w))
    BY <1>1, <2>1
  <2> QED BY <2>1, <2>2 DEF Kinds, AnswersIn, ToSet
<1>4. Kinds(Tail(w)) = Kinds(w)
  BY <1>2, <1>3 DEF Kinds
<1>5. ASSUME Single(w), NEW i \in AnswersIn(Tail(w)), NEW k \in AnswersIn(Tail(w)) PROVE i = k
  <2>1. i + 1 = k + 1
    BY <1>2, <1>5 DEF Single
  <2> QED BY <1>2, <2>1
<1> QED BY <1>4, <1>5 DEF Single

\* The only answer taken from a wire leaves none.
LEMMA AnswerIsTaken ==
  ASSUME NEW w \in Seq(Messages), w # <<>>, Head(w).kind \in {"subscribe", "unsubscribe"}, Single(w)
  PROVE  Kinds(Tail(w)) = {} /\ Single(Tail(w)) /\ Kinds(w) = {Head(w).kind}
<1>1. /\ Head(w) = w[1] /\ Tail(w) \in Seq(Messages) /\ 1 \in DOMAIN w
      /\ \A i \in DOMAIN Tail(w) : i \in Nat \ {0} /\ i + 1 \in DOMAIN w /\ Tail(w)[i] = w[i + 1]
  BY Taken
<1>2. 1 \in AnswersIn(w)
  BY <1>1 DEF AnswersIn
<1>3. ASSUME NEW i \in AnswersIn(Tail(w)) PROVE FALSE
  <2>1. i \in Nat \ {0} /\ i + 1 \in AnswersIn(w)
    BY <1>1 DEF AnswersIn
  <2>2. i + 1 = 1
    BY <1>2, <2>1 DEF Single
  <2> QED BY <2>1, <2>2
<1>4. AnswersIn(w) = {1}
  BY <1>2 DEF Single
<1> QED BY <1>1, <1>3, <1>4 DEF Single, Kinds

\* So does the only answer that is ignored.
LEMMA AnswerIsDropped ==
  ASSUME NEW w \in Seq(Messages), Single(w), NEW k \in AnswersIn(w)
  PROVE  Kinds(RemoveAt(w, k)) = {} /\ Single(RemoveAt(w, k))
<1> DEFINE j == RemoveAt(w, k)
<1>1. k \in DOMAIN w
  BY DEF AnswersIn
<1>2. ToSet(j) = {w[i] : i \in DOMAIN w \ {k}}
  BY <1>1, Removed
<1> HIDE DEF j
<1>3. ASSUME NEW i \in AnswersIn(j) PROVE FALSE
  <2>1. j[i] \in ToSet(j) /\ j[i].kind \in {"subscribe", "unsubscribe"}
    BY DEF AnswersIn, ToSet
  <2>2. PICK n \in DOMAIN w \ {k} : j[i] = w[n]
    BY <1>2, <2>1
  <2>3. n \in AnswersIn(w)
    BY <2>1, <2>2 DEF AnswersIn
  <2> QED BY <2>2, <2>3 DEF Single
<1>4. Kinds(j) = {} /\ Single(j)
  BY <1>3 DEF Kinds, Single
<1> QED BY <1>4 DEF j

\* What the tasks send.
LEMMA TasksSendNews ==
  ASSUME NEW tk \in TaskTypes
  PROVE  /\ News(<<>>) /\ News(Flushed(tk)) /\ News(Lagged(tk))
         /\ \A n \in Numbers : News(Append(Flushed(tk), Event({n})))
<1>1. Resync.kind \notin {"subscribe", "unsubscribe"}
  BY DEF Resync
<1>2. \A h : Event(h).kind \notin {"subscribe", "unsubscribe"}
  BY DEF Event
<1>3. News(<<>>)
  BY DEF News, ToSet
<1>4. \A m : News(<<m>>) <=> m.kind \notin {"subscribe", "unsubscribe"}
  BY DEF News, ToSet
<1>5. News(Flushed(tk)) /\ Flushed(tk) \in Seq(Messages)
  BY <1>2, <1>3, <1>4, SendingOut DEF Flushed
<1>6. News(Lagged(tk))
  <2>1. <<Resync>> \in Seq(Messages) /\ News(<<Resync>>)
    BY <1>1, <1>4, Messaging
  <2>2. ToSet(<<Resync>> \o Flushed(tk)) = ToSet(<<Resync>>) \cup ToSet(Flushed(tk))
    BY <1>5, <2>1, Joined, ZenonT(30)
  <2> QED BY <1>5, <2>1, <2>2 DEF Lagged, News
<1>7. ASSUME NEW n \in Numbers PROVE News(Append(Flushed(tk), Event({n})))
  <2>1. Event({n}) \in Messages
    BY Messaging
  <2>2. ToSet(Append(Flushed(tk), Event({n}))) = ToSet(Flushed(tk)) \cup {Event({n})}
    BY <1>5, <2>1, Appended
  <2> QED BY <1>2, <1>5, <2>2 DEF News
<1> QED BY <1>3, <1>5, <1>6, <1>7

\* The wire of browser b after a task sends, and after an answer.
LEMMA SentOn ==
  ASSUME TypeOK, NEW t \in Tasks, tasks[t] # NoTask, NEW ms \in Seq(Messages), NEW next, Sends(t, ms, next), NEW b \in Clients
  PROVE  \/ wire'[b] = wire[b]
         \/ b = tasks[t].client /\ Alive(b, tasks[t].gen) /\ wire'[b] = wire[b] \o ms
<1>1. tasks[t].client \in Clients /\ wire \in [Clients -> Seq(Messages)]
  BY TaskIs DEF TypeOK
<1>2. wire' = wire \/ (Alive(tasks[t].client, tasks[t].gen) /\ wire' = [wire EXCEPT ![tasks[t].client] = @ \o ms])
  BY DEF Sends
<1>3. CASE wire' = wire
  BY <1>3
<1>4. CASE Alive(tasks[t].client, tasks[t].gen) /\ wire' = [wire EXCEPT ![tasks[t].client] = @ \o ms]
  BY <1>1, <1>4
<1> QED BY <1>2, <1>3, <1>4

\* The tasks leave the answers on the wires alone.
LEMMA TaskWires ==
  ASSUME TypeOK, NEW t \in Tasks, tasks[t] # NoTask, Receive(t) \/ Flush(t) \/ StopListening(t), NEW b \in Clients
  PROVE  \/ wire'[b] = wire[b]
         \/ open[b] /\ Kinds(wire'[b]) = Kinds(wire[b]) /\ (Single(wire[b]) => Single(wire'[b]))
<1>1. tasks[t] \in TaskTypes /\ wire[b] \in Seq(Messages)
  BY TaskIs DEF TypeOK
<1>2. ASSUME NEW ms \in Seq(Messages), NEW next, Sends(t, ms, next), News(ms)
      PROVE  \/ wire'[b] = wire[b]
             \/ open[b] /\ Kinds(wire'[b]) = Kinds(wire[b]) /\ (Single(wire[b]) => Single(wire'[b]))
  <2>1. Kinds(wire[b] \o ms) = Kinds(wire[b]) /\ (Single(wire[b]) => Single(wire[b] \o ms))
    BY <1>1, <1>2, NewsKeepsAnswers
  <2> QED BY <1>1, <1>2, <2>1, SentOn DEF Alive
<1>3. CASE Receive(t)
  <2>1. PICK h \in SUBSET Numbers, ms \in Seq(Messages) :
           LET tk == tasks[t]
           IN  /\ tk.at = "run" /\ ~tk.lagged /\ tk.inbox # <<>>
               /\ Sends(t, ms, [[tk EXCEPT !.inbox = Tail(@)] EXCEPT !.held = h])
               /\ \/ ms = <<>> /\ h = tk.held \cup {Head(tk.inbox)}
                  \/ ms = Flushed(tk) /\ h = {Head(tk.inbox)}
                  \/ ms = Append(Flushed(tk), Event({Head(tk.inbox)})) /\ h = {}
    BY <1>3, Receiving
  <2>2. Head(tasks[t].inbox) \in Numbers
    BY <1>1, <2>1, TaskReads
  <2>3. News(ms)
    BY <1>1, <2>1, <2>2, TasksSendNews
  <2> QED BY <1>2, <2>1, <2>3
<1>4. CASE Flush(t)
  BY <1>1, <1>2, <1>4, TasksSendNews, SendingOut DEF Flush
<1>5. CASE StopListening(t)
  <2>1. PICK ms \in Seq(Messages) : Sends(t, ms, Left(tasks[t])) /\ ms \in {Lagged(tasks[t]), Flushed(tasks[t])}
    BY <1>5, Stopping
  <2> QED BY <1>1, <1>2, <2>1, TasksSendNews
<1> QED BY <1>3, <1>4, <1>5

\* An answer is appended to the wire of a browser that still waits for it.
LEMMA AnsweredOn ==
  ASSUME TypeOK, NEW s \in subs, Answer(s), NEW b \in Clients
  PROVE  /\ wire'[b] = IF b = s.client /\ s.live /\ Alive(b, s.gen)
                       THEN Append(wire[b], [kind |-> s.kind]) ELSE wire[b]
         /\ [kind |-> s.kind] \in Messages
<1>1. s.client \in Clients /\ [kind |-> s.kind] \in Messages /\ wire \in [Clients -> Seq(Messages)]
  BY RequestIs, Messaging DEF TypeOK
<1> QED BY <1>1 DEF Answer

-------------------------------------------------------------------------------
(* The connections of the browsers.                                        *)

\* What closed sockets lose.
LEMMA ClosedFor ==
  ASSUME TypeOK, NEW C \in SUBSET Clients, Closed(C), NEW b \in Clients
  PROVE  /\ open'[b] = (open[b] /\ b \notin C) /\ synced'[b] = (synced[b] /\ b \notin C)
         /\ wire'[b] = IF b \in C THEN <<>> ELSE wire[b]
         /\ owed'[b] = IF b \in C THEN {} ELSE owed[b]
BY DEF Closed

\* The connection of an open socket is served.
LEMMA LinkServed ==
  ASSUME TypeOK, Requested, Next, NEW b \in Clients, LinkOK(b)
  PROVE  (open'[b] => <<b, gen'[b]>> \in served')
<1> DEFINE Goal == (open'[b] => <<b, gen'[b]>> \in served')
<1>1. ASSUME NEW cg \in served, Drain(cg[1], cg[2]) PROVE Goal
  <2>1. served' = served \ {<<cg[1], cg[2]>>} /\ ~Alive(cg[1], cg[2]) /\ UNCHANGED <<open, gen>>
    BY <1>1 DEF Drain, linkVars
  <2>2. <<cg[1], cg[2]>> = <<b, gen[b]>> => cg[1] = b /\ cg[2] = gen[b]
    OBVIOUS
  <2> QED BY <2>1, <2>2 DEF LinkOK, Alive
<1>2. ASSUME NEW c \in Clients, Drop(c) PROVE Goal
  <2>1. open'[b] => open[b]
    BY <1>2, ClosedFor DEF Drop
  <2> QED BY <1>2, <2>1 DEF Drop, LinkOK, connVars
<1>3. ASSUME NEW c \in Clients, Resynced(c) PROVE Goal
  <2>1. open'[b] => open[b]
    BY <1>3, ClosedFor DEF Resynced
  <2> QED BY <1>3, <2>1 DEF Resynced, LinkOK, connVars
<1>4. ASSUME NEW c \in Clients, Reconnect(c) PROVE Goal
  <2>1. /\ served' = served \cup {<<c, gen'[c]>>} /\ open' = [open EXCEPT ![c] = TRUE] /\ gen' = [gen EXCEPT ![c] = @ + 1]
    BY <1>4 DEF Reconnect
  <2>2. CASE b = c
    BY <2>1, <2>2
  <2>3. CASE b # c
    BY <2>1, <2>3 DEF LinkOK, TypeOK
  <2> QED BY <2>2, <2>3
<1>5. ASSUME Crash PROVE Goal
  <2>1. open'[b] = FALSE
    BY <1>5, ClosedFor DEF Crash
  <2> QED BY <2>1
<1>6. ASSUME UNCHANGED <<open, gen, served>> PROVE Goal
  BY <1>6 DEF LinkOK
<1>7. ASSUME
       Emit
      PROVE Goal
  BY <1>7, <1>6 DEF Emit, connVars, linkVars
<1>8. ASSUME NEW t \in Tasks, tasks[t] # NoTask,
       Receive(t) \/ Flush(t) \/ StopListening(t) \/ Leave(t) \/ AbortLands(t)
      PROVE Goal
  BY <1>8, <1>6 DEF Receive, Sends, Undisturbed, connVars, linkVars, Flush, StopListening,
                    Leave, Prune, Deafened, AbortLands
<1>9. ASSUME NEW s \in subs,
       Ensure(s) \/ Attach(s) \/ TakeHandle(s) \/ PruneAndAbort(s) \/ Refused(s) \/
       Vanish(s)
      PROVE Goal
  BY <1>9, <1>6 DEF Ensure, connVars, linkVars, Attach, Deafened, Answer, TakeHandle,
                    PruneAndAbort, Prune, Refused, Fault, Failed, Vanish
<1>10. ASSUME NEW c \in Clients,
       Select(c) \/ Deselect(c) \/ Answered(c) \/ TimesOut(c) \/ Retry(c) \/ EventComes(c)
      PROVE Goal
  BY <1>10, <1>6 DEF Select, Choose, Sync, connVars, linkVars, Deselect, Answered, TimesOut,
                     Fault, Deafened, Failed, Retry, EventComes
<1> SUFFICES Goal
  OBVIOUS
<1> HIDE DEF Goal
<1> QED BY <1>1, <1>2, <1>3, <1>4, <1>5, <1>6, <1>7, <1>8, <1>9, <1>10
     DEF Next, TaskStep, vars, relayVars, connVars, linkVars, subVars

\* A browser whose socket is gone believes nothing, and nothing is on its wire.
LEMMA LinkQuiet ==
  ASSUME TypeOK, Requested, Next, NEW b \in Clients, LinkOK(b)
  PROVE  (~open'[b] => ~synced'[b] /\ wire'[b] = <<>>)
<1> DEFINE Goal == (~open'[b] => ~synced'[b] /\ wire'[b] = <<>>)
<1>1. ASSUME NEW t \in Tasks, tasks[t] # NoTask, Receive(t) PROVE Goal
  <2>1. wire'[b] = wire[b] \/ open[b]
    BY <1>1, TaskWires
  <2>2. UNCHANGED <<open, synced>>
    BY <1>1 DEF Receive, linkVars, subVars, Undisturbed
  <2> QED BY <2>1, <2>2 DEF LinkOK
<1>2. ASSUME NEW t \in Tasks, tasks[t] # NoTask, Flush(t) PROVE Goal
  <2>1. wire'[b] = wire[b] \/ open[b]
    BY <1>2, TaskWires
  <2>2. UNCHANGED <<open, synced>>
    BY <1>2 DEF Flush, linkVars, subVars, Undisturbed
  <2> QED BY <2>1, <2>2 DEF LinkOK
<1>3. ASSUME NEW t \in Tasks, tasks[t] # NoTask, StopListening(t) PROVE Goal
  <2>1. wire'[b] = wire[b] \/ open[b]
    BY <1>3, TaskWires
  <2>2. UNCHANGED <<open, synced>>
    BY <1>3 DEF StopListening, linkVars, subVars, Undisturbed
  <2> QED BY <2>1, <2>2 DEF LinkOK
<1>4. ASSUME NEW s \in subs, Attach(s) PROVE Goal
  <2>1. wire'[b] = wire[b] \/ open[b]
    BY <1>4, AnsweredOn DEF Attach, Alive
  <2>2. UNCHANGED <<open, synced>>
    BY <1>4 DEF Attach, linkVars, subVars, Undisturbed
  <2> QED BY <2>1, <2>2 DEF LinkOK
<1>5. ASSUME NEW s \in subs, TakeHandle(s) PROVE Goal
  <2>1. wire'[b] = wire[b] \/ open[b]
    BY <1>5, AnsweredOn DEF TakeHandle, Alive
  <2>2. UNCHANGED <<open, synced>>
    BY <1>5 DEF TakeHandle, linkVars, subVars, Undisturbed
  <2> QED BY <2>1, <2>2 DEF LinkOK
<1>6. ASSUME NEW s \in subs, PruneAndAbort(s) PROVE Goal
  <2>1. wire'[b] = wire[b] \/ open[b]
    BY <1>6, AnsweredOn DEF PruneAndAbort, Alive
  <2>2. UNCHANGED <<open, synced>>
    BY <1>6 DEF PruneAndAbort, linkVars, subVars, Undisturbed
  <2> QED BY <2>1, <2>2 DEF LinkOK
<1>7. ASSUME NEW s \in subs, Refused(s) PROVE Goal
  <2>1. open[s.client] /\ synced' = [synced EXCEPT ![s.client] = s.kind = "unsubscribe"] /\ UNCHANGED <<open, wire>>
    BY <1>7 DEF Refused, Alive, Failed, linkVars
  <2> QED BY <2>1 DEF LinkOK, TypeOK
<1>8. ASSUME NEW c \in Clients, Answered(c) PROVE Goal
  <2>1. wire[c] # <<>> /\ wire' = [wire EXCEPT ![c] = Tail(@)] /\ UNCHANGED open
        /\ synced' = [synced EXCEPT ![c] = Head(wire[c]).kind = "subscribe"]
    BY <1>8 DEF Answered, linkVars
  <2>2. b = c => open[b]
    BY <2>1 DEF LinkOK
  <2> QED BY <2>1, <2>2 DEF LinkOK, TypeOK
<1>9. ASSUME NEW c \in Clients, TimesOut(c) PROVE Goal
  <2>1. open[c] /\ UNCHANGED open
    BY <1>9 DEF TimesOut, linkVars
  <2>2. b # c => wire'[b] = wire[b] /\ synced'[b] = synced[b]
    BY <1>9 DEF TimesOut, Failed, TypeOK
  <2> QED BY <2>1, <2>2 DEF LinkOK
<1>10. ASSUME NEW c \in Clients, EventComes(c) PROVE Goal
  <2>1. wire[c] # <<>> /\ wire' = [wire EXCEPT ![c] = Tail(@)] /\ UNCHANGED <<open, synced>>
    BY <1>10 DEF EventComes, linkVars, subVars
  <2>2. b = c => open[b]
    BY <2>1 DEF LinkOK
  <2> QED BY <2>1, <2>2 DEF LinkOK, TypeOK
<1>11. ASSUME NEW c \in Clients, Drop(c) PROVE Goal
  <2>1. Closed({c}) /\ {c} \in SUBSET Clients
    BY <1>11 DEF Drop
  <2>2. ~open'[b] => ~synced'[b]
    BY <2>1, ClosedFor DEF LinkOK
  <2>3. ~open'[b] => wire'[b] = <<>>
    BY <2>1, ClosedFor DEF LinkOK
  <2> QED BY <2>2, <2>3
<1>12. ASSUME NEW c \in Clients, Resynced(c) PROVE Goal
  <2>1. Closed({c}) /\ {c} \in SUBSET Clients
    BY <1>12 DEF Resynced
  <2>2. ~open'[b] => ~synced'[b]
    BY <2>1, ClosedFor DEF LinkOK
  <2>3. ~open'[b] => wire'[b] = <<>>
    BY <2>1, ClosedFor DEF LinkOK
  <2> QED BY <2>2, <2>3
<1>13. ASSUME NEW c \in Clients, Reconnect(c) PROVE Goal
  <2>1. open' = [open EXCEPT ![c] = TRUE] /\ UNCHANGED <<synced, wire>>
    BY <1>13 DEF Reconnect
  <2> QED BY <2>1 DEF LinkOK, TypeOK
<1>14. ASSUME Crash PROVE Goal
  <2>1. Closed(Clients) /\ Clients \in SUBSET Clients
    BY <1>14 DEF Crash
  <2>2. ~open'[b] => ~synced'[b]
    BY <2>1, ClosedFor DEF LinkOK
  <2>3. ~open'[b] => wire'[b] = <<>>
    BY <2>1, ClosedFor DEF LinkOK
  <2> QED BY <2>2, <2>3
<1>15. ASSUME UNCHANGED <<open, synced, wire>> PROVE Goal
  BY <1>15 DEF LinkOK
<1>16. ASSUME
       Emit
      PROVE Goal
  BY <1>16, <1>15 DEF Emit, linkVars, subVars
<1>17. ASSUME NEW t \in Tasks, tasks[t] # NoTask,
       Leave(t) \/ AbortLands(t)
      PROVE Goal
  BY <1>17, <1>15 DEF Leave, Prune, linkVars, subVars, Deafened, AbortLands, Undisturbed
<1>18. ASSUME NEW cg \in served,
       Drain(cg[1], cg[2])
      PROVE Goal
  BY <1>18, <1>15 DEF Drain, linkVars, subVars
<1>19. ASSUME NEW s \in subs,
       Ensure(s) \/ Vanish(s)
      PROVE Goal
  BY <1>19, <1>15 DEF Ensure, linkVars, subVars, Vanish
<1>20. ASSUME NEW c \in Clients,
       Select(c) \/ Deselect(c) \/ Retry(c)
      PROVE Goal
  BY <1>20, <1>15 DEF Select, Choose, Sync, linkVars, Deselect, Retry
<1> SUFFICES Goal
  OBVIOUS
<1> HIDE DEF Goal
<1> QED BY <1>1, <1>2, <1>3, <1>4, <1>5, <1>6, <1>7, <1>8, <1>9, <1>10, <1>11, <1>12, <1>13,
           <1>14, <1>15, <1>16, <1>17, <1>18, <1>19, <1>20
     DEF Next, TaskStep, vars, relayVars, connVars, linkVars, subVars

-------------------------------------------------------------------------------
(* One request out, or one answer coming.                                  *)

\* What OneAnswer says of a browser, its requests, and what is on its wire.
Answering(kinds, single, asked, believes, waits) ==
  /\ single
  /\ \A s1, s2 \in asked : s1 = s2
  /\ asked = {} \/ kinds = {}
  /\ waits <=> asked # {} \/ kinds # {}
  /\ \A s \in asked : s.kind = IF believes THEN "unsubscribe" ELSE "subscribe"
  /\ kinds \subseteq {IF believes THEN "unsubscribe" ELSE "subscribe"}

\* OneAnswer in these words, before a step and after it.
LEMMA OneAnswerIs ==
  ASSUME NEW b \in Clients
  PROVE  /\ OneAnswer(b) <=> (open[b] => Answering(Kinds(wire[b]), Single(wire[b]), Asked(b), synced[b], syncing[b]))
         /\ OneAnswer(b)' <=> (open'[b] => Answering(Kinds(wire'[b]), Single(wire'[b]), Asked(b)', synced'[b], syncing'[b]))
BY Zenon DEF OneAnswer, Answering, Kind

\* The requests browser b waits for, after a step on one of them.
LEMMA AskedLess ==
  ASSUME NEW b \in Clients, NEW s \in subs, subs' = subs \ {s}
  PROVE  Asked(b)' = Asked(b) \ {s}
BY DEF Asked

\* The requests browser b waits for, when the gateway takes one further.
LEMMA AskedFurther ==
  ASSUME TypeOK, NEW b \in Clients, NEW s \in subs, NEW at, NEW a, subs' = (subs \ {s}) \cup {Further(s, at, a)}
  PROVE  IF s \in Asked(b) THEN Asked(b)' = (Asked(b) \ {s}) \cup {Further(s, at, a)} ELSE Asked(b)' = Asked(b)
<1> DEFINE q == Further(s, at, a)
<1>1. q.client = s.client /\ q.live = s.live
  BY RequestIs, FurtherIs
<1>2. subs' = (subs \ {s}) \cup {q}
  OBVIOUS
<1> HIDE DEF q
<1>3. CASE s \in Asked(b)
  <2>1. s.client = b /\ s.live
    BY <1>3 DEF Asked
  <2>2. q.client = b /\ q.live
    BY <1>1, <2>1, Zenon
  <2> QED BY <1>2, <1>3, <2>2 DEF Asked, q
<1>4. CASE s \notin Asked(b)
  <2>1. ~(q.client = b /\ q.live)
    BY <1>1, <1>4, Zenon DEF Asked
  <2> QED BY <1>2, <1>4, <2>1 DEF Asked
<1> QED BY <1>3, <1>4

\* OneAnswer is kept when the gateway takes a request further.
LEMMA FurtherAnswers ==
  ASSUME TypeOK, NEW b \in Clients, OneAnswer(b), NEW s \in subs, NEW at, NEW a, subs' = (subs \ {s}) \cup {Further(s, at, a)},
         UNCHANGED <<open, wire, synced, syncing>>
  PROVE  OneAnswer(b)'
<1>1. Further(s, at, a).kind = s.kind
  BY RequestIs, FurtherIs
<1>2. CASE s \in Asked(b)
  <2>1. Asked(b)' = (Asked(b) \ {s}) \cup {Further(s, at, a)}
    BY <1>2, AskedFurther
  <2>2. ASSUME open[b] PROVE Answering(Kinds(wire[b]), Single(wire[b]), Asked(b)', synced[b], syncing[b])
    <3>1. Answering(Kinds(wire[b]), Single(wire[b]), Asked(b), synced[b], syncing[b])
      BY <2>2, OneAnswerIs
    <3>2. Asked(b) = {s}
      BY <1>2, <3>1 DEF Answering
    <3>3. Asked(b)' = {Further(s, at, a)}
      BY <2>1, <3>2
    <3> HIDE <2>1
    <3>4. /\ Asked(b)' # {} /\ Asked(b) # {} /\ \A s1, s2 \in Asked(b)' : s1 = s2
      BY <3>2, <3>3
    <3>5. \A r \in Asked(b)' : r.kind = s.kind
      BY <1>1, <3>3
    <3> QED BY <1>2, <3>1, <3>4, <3>5, Zenon DEF Answering
  <2> QED BY <2>2, OneAnswerIs
<1>3. CASE s \notin Asked(b)
  <2>1. Asked(b)' = Asked(b)
    BY <1>3, AskedFurther
  <2> QED BY <2>1, OneAnswerIs
<1> QED BY <1>2, <1>3

\* OneAnswer is kept when the gateway answers one: the answer takes its place.
LEMMA AnswerAnswers ==
  ASSUME TypeOK, Requested, NEW b \in Clients, OneAnswer(b), NEW s \in subs, subs' = subs \ {s}, Answer(s),
         UNCHANGED <<open, synced, syncing>>
  PROVE  OneAnswer(b)'
<1>1. Asked(b)' = Asked(b) \ {s}
  BY AskedLess
<1>2. wire[b] \in Seq(Messages) /\ s.kind \in {"subscribe", "unsubscribe"}
  BY RequestIs DEF TypeOK
<1>3. CASE s \in Asked(b)
  <2>1. s.client = b /\ s.live /\ s.gen = gen[b]
    BY <1>3 DEF Asked, Requested, RequestOK
  <2>2. ASSUME open[b] PROVE Answering(Kinds(wire'[b]), Single(wire'[b]), Asked(b)', synced[b], syncing[b])
    <3>1. Answering(Kinds(wire[b]), Single(wire[b]), Asked(b), synced[b], syncing[b])
      BY <2>2, OneAnswerIs
    <3>2. Asked(b) = {s} /\ Kinds(wire[b]) = {}
      BY <1>3, <3>1 DEF Answering
    <3>3. wire'[b] = Append(wire[b], [kind |-> s.kind]) /\ [kind |-> s.kind] \in Messages
      BY <2>1, <2>2, AnsweredOn DEF Alive
    <3>4. Kinds(wire'[b]) = {s.kind} /\ Single(wire'[b])
      BY <1>2, <3>2, <3>3, AnswerIsAdded
    <3>5. Asked(b)' = {}
      BY <1>1, <3>2
    <3>6. s.kind = IF synced[b] THEN "unsubscribe" ELSE "subscribe"
      BY <1>3, <3>1 DEF Answering
    <3>7. syncing[b]
      BY <1>3, <3>1 DEF Answering
    <3> QED BY <3>4, <3>5, <3>6, <3>7 DEF Answering
  <2> QED BY <2>2, OneAnswerIs
<1>4. CASE s \notin Asked(b)
  <2>1. Asked(b)' = Asked(b)
    BY <1>1, <1>4
  <2>2. ~(b = s.client /\ s.live)
    BY <1>4 DEF Asked
  <2>3. wire'[b] = wire[b]
    BY <2>2, AnsweredOn
  <2> QED BY <2>1, <2>3, OneAnswerIs
<1> QED BY <1>3, <1>4

\* A browser that waits for nothing asks, or does not need to.
LEMMA SyncAnswers ==
  ASSUME TypeOK, NEW b \in Clients, NEW c \in Clients, NEW w, NEW s, NEW g \in Nat, NEW others,
         w \in BOOLEAN, s \in BOOLEAN, Sync(c, g, w, s, others), s = synced'[c],
         b # c => OneAnswer(b) /\ open'[b] = open[b] /\ wire'[b] = wire[b] /\ synced'[b] = synced[b]
                  /\ \A r : r \in Asked(b) <=> r \in others /\ r.client = b /\ r.live,
         b = c => Kinds(wire'[b]) = {} /\ Single(wire'[b]) /\ \A r \in others : ~(r.client = b /\ r.live)
  PROVE  OneAnswer(b)'
<1>1. PICK q \in Requests :
           /\ q = [client |-> c, gen |-> g, kind |-> IF w THEN "subscribe" ELSE "unsubscribe",
                   at |-> "sent", arg |-> 0, live |-> TRUE]
           /\ subs' = IF w = s THEN others ELSE others \cup {q}
  <2> DEFINE q == [client |-> c, gen |-> g, kind |-> IF w THEN "subscribe" ELSE "unsubscribe",
                   at |-> "sent", arg |-> 0, live |-> TRUE]
  <2>1. q \in Requests
    BY DEF Requests
  <2>2. subs' = IF w = s THEN others ELSE others \cup {q}
    BY DEF Sync
  <2> QED BY <2>1, <2>2
<1>2. q.client = c /\ q.kind = (IF w THEN "subscribe" ELSE "unsubscribe") /\ q.live
  BY <1>1
<1>3. syncing' = [syncing EXCEPT ![c] = ~(w = s)] /\ syncing \in [Clients -> BOOLEAN]
  BY DEF Sync, TypeOK
<1>4. CASE b = c
  <2>1. syncing'[b] = ~(w = s)
    BY <1>3, <1>4
  <2>2. CASE w = s
    <3>1. subs' = others
      BY <1>1, <2>2
    <3>2. Asked(b)' = {}
      BY <1>4, <3>1 DEF Asked
    <3>3. ~syncing'[b]
      BY <2>1, <2>2
    <3> QED BY <1>4, <3>2, <3>3, OneAnswerIs DEF Answering
  <2>3. CASE ~(w = s)
    <3>1. subs' = others \cup {q}
      BY <1>1, <2>3
    <3>2. Asked(b)' = {q}
      BY <1>2, <1>4, <3>1 DEF Asked
    <3>3. syncing'[b]
      BY <2>1, <2>3
    <3>4. q.kind = IF synced'[b] THEN "unsubscribe" ELSE "subscribe"
      BY <1>2, <1>4, <2>3
    <3>5. \A r \in Asked(b)' : r = q
      BY <3>2
    <3> QED BY <1>4, <3>2, <3>3, <3>4, <3>5, OneAnswerIs DEF Answering
  <2> QED BY <2>2, <2>3
<1>5. CASE b # c
  <2>1. syncing'[b] = syncing[b]
    BY <1>3, <1>5
  <2>2. ~(q.client = b)
    BY <1>2, <1>5
  <2>3. \A r : r \in subs' /\ r.client = b /\ r.live <=> r \in others /\ r.client = b /\ r.live
    BY <1>1, <2>2
  <2>4. Asked(b)' = Asked(b)
    <3>1. \A r : r \in Asked(b)' <=> r \in subs' /\ r.client = b /\ r.live
      BY DEF Asked
    <3>2. \A r : r \in Asked(b) <=> r \in others /\ r.client = b /\ r.live
      BY <1>5
    <3> QED BY <2>3, <3>1, <3>2
  <2>5. open'[b] = open[b] /\ wire'[b] = wire[b] /\ synced'[b] = synced[b] /\ OneAnswer(b)
    BY <1>5
  <2> QED BY <2>1, <2>4, <2>5, OneAnswerIs
<1> QED BY <1>4, <1>5

\* A browser that is not open, or whose requests, wire and beliefs stay as they are.
LEMMA AnswersStay ==
  ASSUME NEW b \in Clients, OneAnswer(b), open'[b] => open[b], Asked(b)' = Asked(b),
         wire'[b] = wire[b] \/ (Kinds(wire'[b]) = Kinds(wire[b]) /\ (Single(wire[b]) => Single(wire'[b]))),
         synced'[b] = synced[b], syncing'[b] = syncing[b]
  PROVE  OneAnswer(b)'
<1>1. Kinds(wire'[b]) = Kinds(wire[b]) /\ (Single(wire[b]) => Single(wire'[b]))
  OBVIOUS
<1>2. ASSUME open[b] PROVE Answering(Kinds(wire'[b]), Single(wire'[b]), Asked(b), synced[b], syncing[b])
  <2>1. Answering(Kinds(wire[b]), Single(wire[b]), Asked(b), synced[b], syncing[b])
    BY <1>2, OneAnswerIs
  <2> QED BY <1>1, <2>1 DEF Answering
<1> QED BY <1>2, OneAnswerIs

\* A browser whose last request or answer goes, and who then waits for nothing.
LEMMA NothingAsked ==
  ASSUME NEW b \in Clients, Asked(b)' = {}, Kinds(wire'[b]) = {}, Single(wire'[b]), syncing'[b] = FALSE
  PROVE  OneAnswer(b)'
BY OneAnswerIs DEF Answering

\* A browser that waits for nothing has no request out, and no answer coming.
LEMMA WaitsForNothing ==
  ASSUME NEW b \in Clients, OneAnswer(b), open[b]
  PROVE  /\ Single(wire[b])
         /\ ~syncing[b] => Asked(b) = {} /\ Kinds(wire[b]) = {}
         /\ Asked(b) = {} \/ Kinds(wire[b]) = {}
         /\ \A s \in Asked(b) : Asked(b) = {s}
<1>1. Answering(Kinds(wire[b]), Single(wire[b]), Asked(b), synced[b], syncing[b])
  BY OneAnswerIs
<1>2. Single(wire[b]) /\ (~syncing[b] => Asked(b) = {} /\ Kinds(wire[b]) = {}) /\ (Asked(b) = {} \/ Kinds(wire[b]) = {})
  BY <1>1, Zenon DEF Answering
<1>3. \A s1, s2 \in Asked(b) : s1 = s2
  BY <1>1, Zenon DEF Answering
<1> QED BY <1>2, <1>3

\* A browser that has nothing out asks on the connection it has.
LEMMA AsksNext ==
  ASSUME TypeOK, NEW b \in Clients, OneAnswer(b), NEW c \in Clients, NEW w, NEW s, w \in BOOLEAN, s \in BOOLEAN,
         Sync(c, gen[c], w, s, subs), s = synced'[c], UNCHANGED open,
         b # c => wire'[b] = wire[b] /\ synced'[b] = synced[b],
         b = c => Kinds(wire'[b]) = {} /\ Single(wire'[b]) /\ Asked(b) = {}
  PROVE  OneAnswer(b)'
<1>1. gen[c] \in Nat
  BY DEF TypeOK
<1>2. \A r : r \in Asked(b) <=> r \in subs /\ r.client = b /\ r.live
  BY DEF Asked
<1>3. b = c => \A r \in subs : ~(r.client = b /\ r.live)
  BY <1>2
<1>4. b # c => OneAnswer(b) /\ open'[b] = open[b] /\ wire'[b] = wire[b] /\ synced'[b] = synced[b]
                  /\ \A r : r \in Asked(b) <=> r \in subs /\ r.client = b /\ r.live
  BY <1>2
<1>5. b = c => Kinds(wire'[b]) = {} /\ Single(wire'[b]) /\ \A r \in subs : ~(r.client = b /\ r.live)
  BY <1>3
<1> QED BY <1>1, <1>4, <1>5, SyncAnswers

\* OneAnswer is kept: a browser has one request out, or one answer coming, exactly
\* while it waits (ws-client.ts, syncSessionSubscription), and it asks for the
\* opposite of what it believes.
LEMMA AnswersStepOK ==
  ASSUME TypeOK, Requested, Next, NEW b \in Clients, LinkOK(b), OneAnswer(b)
  PROVE  OneAnswer(b)'
<1> DEFINE Goal == OneAnswer(b)'
<1>1. ASSUME NEW t \in Tasks, tasks[t] # NoTask, Receive(t) PROVE Goal
  <2>1. UNCHANGED <<open, synced, syncing, subs>>
    BY <1>1 DEF Receive, Undisturbed, subVars, linkVars
  <2>2. Asked(b)' = Asked(b)
    BY <2>1 DEF Asked
  <2>3. wire'[b] = wire[b] \/ (Kinds(wire'[b]) = Kinds(wire[b]) /\ (Single(wire[b]) => Single(wire'[b])))
    BY <1>1, TaskWires
  <2> QED BY <2>1, <2>2, <2>3, AnswersStay
<1>2. ASSUME NEW t \in Tasks, tasks[t] # NoTask, Flush(t) PROVE Goal
  <2>1. UNCHANGED <<open, synced, syncing, subs>>
    BY <1>2 DEF Flush, Undisturbed, subVars, linkVars
  <2>2. Asked(b)' = Asked(b)
    BY <2>1 DEF Asked
  <2>3. wire'[b] = wire[b] \/ (Kinds(wire'[b]) = Kinds(wire[b]) /\ (Single(wire[b]) => Single(wire'[b])))
    BY <1>2, TaskWires
  <2> QED BY <2>1, <2>2, <2>3, AnswersStay
<1>3. ASSUME NEW t \in Tasks, tasks[t] # NoTask, StopListening(t) PROVE Goal
  <2>1. UNCHANGED <<open, synced, syncing, subs>>
    BY <1>3 DEF StopListening, Undisturbed, subVars, linkVars
  <2>2. Asked(b)' = Asked(b)
    BY <2>1 DEF Asked
  <2>3. wire'[b] = wire[b] \/ (Kinds(wire'[b]) = Kinds(wire[b]) /\ (Single(wire[b]) => Single(wire'[b])))
    BY <1>3, TaskWires
  <2> QED BY <2>1, <2>2, <2>3, AnswersStay
<1>4. ASSUME NEW s \in subs, Ensure(s) PROVE Goal
  <2>1. subs' = (subs \ {s}) \cup {Further(s, "ensured", relay')} /\ UNCHANGED <<open, wire, synced, syncing>>
    BY <1>4 DEF Ensure, Further, linkVars, subVars
  <2> QED BY <2>1, FurtherAnswers
<1>5. ASSUME NEW s \in subs, Attach(s) PROVE Goal
  <2>1. UNCHANGED <<open, synced, syncing>> /\ subs' = subs \ {s} /\ Answer(s)
    BY <1>5 DEF Attach, subVars, linkVars
  <2> QED BY <2>1, AnswerAnswers
<1>6. ASSUME NEW s \in subs, TakeHandle(s) PROVE Goal
  <2>1. UNCHANGED <<open, synced, syncing>>
    BY <1>6 DEF TakeHandle, subVars, linkVars
  <2>2. \/ UNCHANGED wire /\ \E a : subs' = (subs \ {s}) \cup {Further(s, "removed", a)}
        \/ subs' = subs \ {s} /\ Answer(s)
    BY <1>6 DEF TakeHandle, Further
  <2>3. CASE subs' = subs \ {s} /\ Answer(s)
    BY <2>1, <2>3, AnswerAnswers
  <2>4. CASE UNCHANGED wire /\ \E a : subs' = (subs \ {s}) \cup {Further(s, "removed", a)}
    <3>1. PICK a : subs' = (subs \ {s}) \cup {Further(s, "removed", a)}
      BY <2>4
    <3> QED BY <2>1, <2>4, <3>1, FurtherAnswers
  <2> QED BY <2>2, <2>3, <2>4
<1>7. ASSUME NEW s \in subs, PruneAndAbort(s) PROVE Goal
  <2>1. UNCHANGED <<open, synced, syncing>> /\ subs' = subs \ {s} /\ Answer(s)
    BY <1>7 DEF PruneAndAbort, subVars, linkVars
  <2> QED BY <2>1, AnswerAnswers
<1>8. ASSUME NEW s \in subs, Refused(s) PROVE Goal
  <2>1. /\ s.live /\ open[s.client] /\ subs' = subs \ {s} /\ UNCHANGED <<open, wire>> /\ s.client \in Clients
        /\ synced' = [synced EXCEPT ![s.client] = s.kind = "unsubscribe"] /\ syncing' = [syncing EXCEPT ![s.client] = FALSE]
    BY <1>8, RequestIs DEF Refused, Failed, Alive, linkVars
  <2>2. Asked(b)' = Asked(b) \ {s}
    BY <2>1, AskedLess
  <2>3. CASE b = s.client
    <3>1. s \in Asked(b)
      BY <2>1, <2>3 DEF Asked
    <3>2. Single(wire[b]) /\ Kinds(wire[b]) = {} /\ Asked(b) = {s}
      BY <2>1, <2>3, <3>1, WaitsForNothing
    <3>3. syncing'[b] = FALSE
      BY <2>1, <2>3 DEF TypeOK
    <3> QED BY <2>1, <2>2, <3>2, <3>3, NothingAsked
  <2>4. CASE b # s.client
    <3>1. Asked(b)' = Asked(b)
      BY <2>2, <2>4 DEF Asked
    <3>2. synced'[b] = synced[b] /\ syncing'[b] = syncing[b]
      BY <2>1, <2>4 DEF TypeOK
    <3> QED BY <2>1, <3>1, <3>2, AnswersStay
  <2> QED BY <2>3, <2>4
<1>9. ASSUME NEW s \in subs, Vanish(s) PROVE Goal
  <2>1. subs' = subs \ {s} /\ UNCHANGED <<open, wire, synced, syncing>> /\ ~Alive(s.client, s.gen)
    BY <1>9 DEF Vanish, linkVars, subVars
  <2>2. Asked(b)' = Asked(b) \ {s}
    BY <2>1, AskedLess
  <2>3. CASE s \in Asked(b)
    <3>1. s.live /\ s.client = b
      BY <2>3 DEF Asked
    <3>2. s.gen = gen[b]
      BY <3>1 DEF Requested, RequestOK
    <3>3. ~open'[b]
      BY <2>1, <3>1, <3>2 DEF Alive
    <3> QED BY <3>3, OneAnswerIs
  <2>4. CASE s \notin Asked(b)
    <3>1. Asked(b)' = Asked(b)
      BY <2>2, <2>4
    <3> QED BY <2>1, <3>1, AnswersStay
  <2> QED BY <2>3, <2>4
<1>10. ASSUME NEW c \in Clients, Select(c) PROVE Goal
  <2>1. UNCHANGED <<open, wire, synced>> /\ synced[c] \in BOOLEAN
    BY <1>10 DEF Select, Choose, linkVars, TypeOK
  <2>2. CASE open[c] /\ ~syncing[c]
    <3>1. Sync(c, gen[c], TRUE, synced[c], subs)
      BY <1>10, <2>2 DEF Select, Choose
    <3>2. b = c => Kinds(wire'[b]) = {} /\ Single(wire'[b]) /\ Asked(b) = {}
      BY <2>1, <2>2, WaitsForNothing
    <3>3. synced[c] = synced'[c]
      BY <2>1
    <3>4. b # c => wire'[b] = wire[b] /\ synced'[b] = synced[b]
      BY <2>1
    <3>5. TRUE \in BOOLEAN
      OBVIOUS
    <3> QED BY <2>1, <3>1, <3>2, <3>3, <3>4, <3>5, AsksNext
  <2>3. CASE ~(open[c] /\ ~syncing[c])
    <3>1. UNCHANGED <<subs, syncing>>
      BY <1>10, <2>3 DEF Select, Choose
    <3>2. Asked(b)' = Asked(b)
      BY <3>1 DEF Asked
    <3> QED BY <2>1, <3>1, <3>2, AnswersStay
  <2> QED BY <2>2, <2>3
<1>11. ASSUME NEW c \in Clients, Deselect(c) PROVE Goal
  <2>1. UNCHANGED <<open, wire, synced>> /\ synced[c] \in BOOLEAN
    BY <1>11 DEF Deselect, Choose, linkVars, TypeOK
  <2>2. CASE open[c] /\ ~syncing[c]
    <3>1. Sync(c, gen[c], FALSE, synced[c], subs)
      BY <1>11, <2>2 DEF Deselect, Choose
    <3>2. b = c => Kinds(wire'[b]) = {} /\ Single(wire'[b]) /\ Asked(b) = {}
      BY <2>1, <2>2, WaitsForNothing
    <3>3. synced[c] = synced'[c]
      BY <2>1
    <3>4. b # c => wire'[b] = wire[b] /\ synced'[b] = synced[b]
      BY <2>1
    <3>5. FALSE \in BOOLEAN
      OBVIOUS
    <3> QED BY <2>1, <3>1, <3>2, <3>3, <3>4, <3>5, AsksNext
  <2>3. CASE ~(open[c] /\ ~syncing[c])
    <3>1. UNCHANGED <<subs, syncing>>
      BY <1>11, <2>3 DEF Deselect, Choose
    <3>2. Asked(b)' = Asked(b)
      BY <3>1 DEF Asked
    <3> QED BY <2>1, <3>1, <3>2, AnswersStay
  <2> QED BY <2>2, <2>3
<1>12. ASSUME NEW c \in Clients, Answered(c) PROVE Goal
  <2>1. wire[c] # <<>> /\ Head(wire[c]).kind \in {"subscribe", "unsubscribe"} /\ UNCHANGED open
        /\ wire' = [wire EXCEPT ![c] = Tail(@)] /\ Sync(c, gen[c], wants[c], synced'[c], subs)
        /\ synced' = [synced EXCEPT ![c] = Head(wire[c]).kind = "subscribe"]
    BY <1>12 DEF Answered, linkVars
  <2>2. wire[c] \in Seq(Messages) /\ wire'[c] = Tail(wire[c]) /\ wants[c] \in BOOLEAN /\ synced'[c] \in BOOLEAN
    BY <2>1 DEF TypeOK
  <2>3. b # c => wire'[b] = wire[b] /\ synced'[b] = synced[b]
    BY <2>1 DEF TypeOK
  <2>4. CASE b = c
    <3>1. open[b] /\ Single(wire[b])
      BY <2>1, <2>4, WaitsForNothing DEF LinkOK
    <3>2. Kinds(wire'[b]) = {} /\ Single(wire'[b]) /\ Kinds(wire[b]) # {}
      <4>1. wire[c] # <<>> /\ Head(wire[c]).kind \in {"subscribe", "unsubscribe"} /\ Single(wire[c])
        BY <2>1, <2>4, <3>1, Zenon
      <4>2. Kinds(Tail(wire[c])) = {} /\ Single(Tail(wire[c])) /\ Kinds(wire[c]) = {Head(wire[c]).kind}
        BY <2>2, <4>1, AnswerIsTaken, Zenon
      <4> QED BY <2>2, <2>4, <4>2
    <3>3. Asked(b) = {}
      BY <3>1, <3>2, WaitsForNothing
    <3> QED BY <2>1, <2>2, <2>3, <3>2, <3>3, AsksNext
  <2>5. CASE b # c
    BY <2>1, <2>2, <2>3, <2>5, AsksNext
  <2> QED BY <2>4, <2>5
<1>13. ASSUME NEW c \in Clients, TimesOut(c) PROVE Goal
  <2> DEFINE mine == {s \in subs : s.client = c /\ s.live}
             late == {i \in DOMAIN wire[c] : wire[c][i].kind \in {"subscribe", "unsubscribe"}}
  <2>1. /\ open[c] /\ UNCHANGED open
        /\ subs' = (subs \ mine) \cup {GivenUp(s) : s \in mine}
        /\ wire' = [wire EXCEPT ![c] = IF late = {} THEN @ ELSE RemoveAt(@, CHOOSE i \in late : TRUE)]
        /\ syncing' = [syncing EXCEPT ![c] = FALSE]
    BY <1>13 DEF TimesOut, Failed, linkVars, GivenUp
  <2>2. b # c => wire'[b] = wire[b] /\ synced'[b] = synced[b] /\ syncing'[b] = syncing[b]
    BY <1>13 DEF TimesOut, Failed, TypeOK
  <2>3. late = AnswersIn(wire[c]) /\ wire[c] \in Seq(Messages)
    BY DEF AnswersIn, TypeOK
  <2>4. \A s \in mine : GivenUp(s).client = c /\ GivenUp(s).live = FALSE
    BY RequestIs, GivenUpIs
  <2>5. \A r \in subs : r \in mine <=> r.client = c /\ r.live
    OBVIOUS
  <2>6. mine \subseteq subs
    OBVIOUS
  <2> HIDE DEF mine, late
  <2>7. CASE b = c
    <3>1. Asked(b)' = {}
      BY <2>1, <2>4, <2>5, <2>7 DEF Asked
    <3>2. Single(wire[c])
      BY <2>1, <2>7, WaitsForNothing
    <3>3. Kinds(wire'[b]) = {} /\ Single(wire'[b])
      <4>1. CASE late = {}
        <5>1. wire'[b] = wire[c] /\ Kinds(wire[c]) = {}
          BY <2>1, <2>3, <2>7, <4>1 DEF TypeOK, Kinds
        <5> QED BY <3>2, <5>1
      <4>2. CASE late # {}
        <5>1. PICK i \in late : wire'[b] = RemoveAt(wire[c], i)
          BY <2>1, <2>7, <4>2 DEF TypeOK
        <5> QED BY <2>3, <3>2, <5>1, AnswerIsDropped
      <4> QED BY <4>1, <4>2
    <3>4. syncing'[b] = FALSE
      BY <2>1, <2>7 DEF TypeOK
    <3> QED BY <3>1, <3>3, <3>4, NothingAsked
  <2>8. CASE b # c
    <3>1. Asked(b)' = Asked(b)
      BY <2>1, <2>4, <2>5, <2>6, <2>8 DEF Asked
    <3> QED BY <2>1, <2>2, <2>8, <3>1, AnswersStay
  <2> QED BY <2>7, <2>8
<1>14. ASSUME NEW c \in Clients, Retry(c) PROVE Goal
  <2>1. open[c] /\ ~syncing[c] /\ UNCHANGED <<open, wire, synced>> /\ Sync(c, gen[c], wants[c], synced[c], subs)
    BY <1>14 DEF Retry, linkVars
  <2>2. wants[c] \in BOOLEAN /\ synced[c] \in BOOLEAN /\ synced[c] = synced'[c]
    BY <2>1 DEF TypeOK
  <2>3. b = c => Kinds(wire'[b]) = {} /\ Single(wire'[b]) /\ Asked(b) = {}
    BY <2>1, WaitsForNothing
  <2>4. b # c => wire'[b] = wire[b] /\ synced'[b] = synced[b]
    BY <2>1
  <2> QED BY <2>1, <2>2, <2>3, <2>4, AsksNext
<1>15. ASSUME NEW c \in Clients, EventComes(c) PROVE Goal
  <2>1. /\ wire[c] # <<>> /\ Head(wire[c]).kind = "event" /\ wire' = [wire EXCEPT ![c] = Tail(@)]
        /\ UNCHANGED <<open, synced, syncing, subs>>
    BY <1>15 DEF EventComes, linkVars, subVars
  <2>2. wire[c] \in Seq(Messages) /\ wire'[c] = Tail(wire[c]) /\ (b # c => wire'[b] = wire[b])
    BY <2>1 DEF TypeOK
  <2>3. wire'[b] = wire[b] \/ (Kinds(wire'[b]) = Kinds(wire[b]) /\ (Single(wire[b]) => Single(wire'[b])))
    BY <2>1, <2>2, NewsIsTaken
  <2>4. Asked(b)' = Asked(b)
    BY <2>1 DEF Asked
  <2> QED BY <2>1, <2>3, <2>4, AnswersStay
<1>16. ASSUME NEW c \in Clients, Drop(c) PROVE Goal
  <2>1. Closed({c}) /\ {c} \in SUBSET Clients /\ UNCHANGED <<subs, syncing>>
    BY <1>16 DEF Drop
  <2>2. CASE b = c
    <3>1. ~open'[b]
      BY <2>1, <2>2, ClosedFor
    <3> QED BY <3>1, OneAnswerIs
  <2>3. CASE b # c
    <3>1. open'[b] = open[b] /\ synced'[b] = synced[b] /\ wire'[b] = wire[b]
      BY <2>1, <2>3 DEF TypeOK, Closed
    <3>2. Asked(b)' = Asked(b)
      BY <2>1 DEF Asked
    <3> QED BY <2>1, <3>1, <3>2, AnswersStay
  <2> QED BY <2>2, <2>3
<1>17. ASSUME NEW c \in Clients, Resynced(c) PROVE Goal
  <2>1. Closed({c}) /\ {c} \in SUBSET Clients /\ UNCHANGED <<subs, syncing>>
    BY <1>17 DEF Resynced
  <2>2. CASE b = c
    <3>1. ~open'[b]
      BY <2>1, <2>2, ClosedFor
    <3> QED BY <3>1, OneAnswerIs
  <2>3. CASE b # c
    <3>1. open'[b] = open[b] /\ synced'[b] = synced[b] /\ wire'[b] = wire[b]
      BY <2>1, <2>3 DEF TypeOK, Closed
    <3>2. Asked(b)' = Asked(b)
      BY <2>1 DEF Asked
    <3> QED BY <2>1, <3>1, <3>2, AnswersStay
  <2> QED BY <2>2, <2>3
<1>18. ASSUME NEW c \in Clients, Reconnect(c) PROVE Goal
  <2> DEFINE others == {IF s.client = c THEN [s EXCEPT !.live = FALSE] ELSE s : s \in subs}
  <2>1. /\ ~open[c] /\ open' = [open EXCEPT ![c] = TRUE] /\ gen' = [gen EXCEPT ![c] = @ + 1] /\ UNCHANGED <<wire, synced>>
        /\ Sync(c, gen'[c], wants[c], FALSE, others)
    BY <1>18 DEF Reconnect
  <2>2. gen'[c] \in Nat /\ wants[c] \in BOOLEAN
    BY <2>1 DEF TypeOK
  <2>3. \A s \in subs : s.client = c => [s EXCEPT !.live = FALSE].client = c /\ ~[s EXCEPT !.live = FALSE].live
    BY RequestIs, GivenUpIs DEF GivenUp
  <2>4. b # c => \A r : r \in Asked(b) <=> r \in others /\ r.client = b /\ r.live
    BY <2>3 DEF Asked
  <2>5. b = c => \A r \in others : ~(r.client = b /\ r.live)
    BY <2>3
  <2> HIDE DEF others
  <2>6. b # c => OneAnswer(b) /\ open'[b] = open[b] /\ wire'[b] = wire[b] /\ synced'[b] = synced[b]
                  /\ \A r : r \in Asked(b) <=> r \in others /\ r.client = b /\ r.live
    BY <2>1, <2>4 DEF TypeOK
  <2>7. b = c => Kinds(wire'[b]) = {} /\ Single(wire'[b]) /\ \A r \in others : ~(r.client = b /\ r.live)
    <3>1. b = c => wire'[b] = <<>>
      BY <2>1 DEF LinkOK
    <3>2. Kinds(<<>>) = {} /\ Single(<<>>)
      BY DEF Kinds, Single, AnswersIn
    <3> QED BY <2>5, <3>1, <3>2
  <2>8. b = c => synced'[c] = FALSE
    BY <2>1 DEF LinkOK, TypeOK
  <2>9. CASE b = c
    <3>1. PICK s : s = synced'[c] /\ s \in BOOLEAN /\ s = FALSE
      BY <2>8, <2>9
    <3>2. PICK g \in Nat : g = gen'[c]
      BY <2>2
    <3>3. PICK w : w \in BOOLEAN /\ w = wants[c]
      BY <2>2
    <3>4. Sync(c, g, w, s, others)
      BY <2>1, <3>1, <3>2, <3>3, Zenon
    <3>5. PICK o : o = others
      OBVIOUS
    <3>6. Sync(c, g, w, s, o)
      BY <3>4, <3>5, Zenon
    <3>7. b # c => OneAnswer(b) /\ open'[b] = open[b] /\ wire'[b] = wire[b] /\ synced'[b] = synced[b]
                  /\ \A r : r \in Asked(b) <=> r \in o /\ r.client = b /\ r.live
      BY <2>9
    <3>8. b = c => Kinds(wire'[b]) = {} /\ Single(wire'[b]) /\ \A r \in o : ~(r.client = b /\ r.live)
      BY <2>7, <3>5
    <3>9. OneAnswer(b)'
      BY <3>1, <3>3, <3>6, <3>7, <3>8, SyncAnswers
    <3> QED BY <3>9
  <2>10. CASE b # c
    <3>1. syncing'[b] = syncing[b]
      BY <2>1, <2>10 DEF Sync, TypeOK
    <3> DEFINE q == [client |-> c, gen |-> gen'[c], kind |-> IF wants[c] THEN "subscribe" ELSE "unsubscribe",
                     at |-> "sent", arg |-> 0, live |-> TRUE]
    <3>2. q.client = c /\ (subs' = others \/ subs' = others \cup {q})
      BY <2>1 DEF Sync
    <3> HIDE DEF q
    <3>3. Asked(b)' = Asked(b)
      <4>1. \A r : r \in Asked(b)' <=> r \in subs' /\ r.client = b /\ r.live
        BY DEF Asked
      <4>2. ~(q.client = b)
        BY <2>10, <3>2
      <4> QED BY <2>6, <2>10, <3>2, <4>1, <4>2
    <3> QED BY <2>1, <2>6, <2>10, <3>1, <3>3, AnswersStay
  <2> QED BY <2>9, <2>10
<1>19. ASSUME Crash PROVE Goal
  <2>1. ~open'[b]
    BY <1>19, ClosedFor DEF Crash
  <2> QED BY <2>1, OneAnswerIs
<1>20. ASSUME UNCHANGED <<open, wire, synced, syncing, subs>> PROVE Goal
  BY <1>20 DEF OneAnswer, Kind, Asked
<1>21. ASSUME
       Emit
      PROVE Goal
  BY <1>21, <1>20 DEF Emit, linkVars, subVars
<1>22. ASSUME NEW t \in Tasks, tasks[t] # NoTask,
       Leave(t) \/ AbortLands(t)
      PROVE Goal
  BY <1>22, <1>20 DEF Leave, Prune, linkVars, subVars, Deafened, AbortLands, Undisturbed
<1>23. ASSUME NEW cg \in served,
       Drain(cg[1], cg[2])
      PROVE Goal
  BY <1>23, <1>20 DEF Drain, linkVars, subVars
<1> SUFFICES Goal
  OBVIOUS
<1> HIDE DEF Goal
<1> QED BY <1>1, <1>2, <1>3, <1>4, <1>5, <1>6, <1>7, <1>8, <1>9, <1>10, <1>11, <1>12, <1>13,
           <1>14, <1>15, <1>16, <1>17, <1>18, <1>19, <1>20, <1>21, <1>22, <1>23
     DEF Next, TaskStep, vars, relayVars, connVars, linkVars, subVars

-------------------------------------------------------------------------------
(* What a browser is told, and what its task carries.                      *)

\* The task t of browser b tells it to resync, listens for it, has event n for it.
Warns(t, b)      == t \in Installed(b, gen[b]) /\ tasks[t].lagged
Listens(t, b)    == t \in Installed(b, gen[b]) /\ Hears(tasks[t], relay)
Carries(t, b, n) == t \in Installed(b, gen[b]) /\ n \in tasks[t].held \cup ToSet(tasks[t].inbox)
\* What is on wire w tells of it.
Warned(w)    == Resync \in ToSet(w)
Brings(w, n) == \E m \in ToSet(w) : m.kind = "event" /\ n \in m.has

\* ToldToResync in these words, before a step and after it.
LEMMA ToldIs ==
  ASSUME NEW b \in Clients
  PROVE  /\ ToldToResync(b) <=> Warned(wire[b]) \/ \E t \in Tasks : Warns(t, b)
         /\ ToldToResync(b)' <=> Warned(wire'[b]) \/ \E t \in Tasks : Warns(t, b)'
<1>1. Warned(wire[b]) <=> \E i \in DOMAIN wire[b] : wire[b][i] = Resync
  BY DEF Warned, ToSet
<1>2. (\E t \in Tasks : Warns(t, b)) <=> \E t \in Installed(b, gen[b]) : tasks[t].lagged
  BY DEF Warns, Installed
<1>3. Warned(wire'[b]) <=> \E i \in DOMAIN wire'[b] : wire'[b][i] = Resync
  BY DEF Warned, ToSet
<1>4. (\E t \in Tasks : Warns(t, b)') <=> \E t \in Installed(b, gen[b])' : tasks'[t].lagged
  BY DEF Warns, Installed
<1> QED BY <1>1, <1>2, <1>3, <1>4 DEF ToldToResync

\* Heard in these words, before a step and after it.
LEMMA HeardIs ==
  ASSUME NEW b \in Clients
  PROVE  /\ Heard(b) <=> Warned(wire[b]) \/ \E t \in Tasks : Warns(t, b) \/ Listens(t, b)
         /\ Heard(b)' <=> Warned(wire'[b]) \/ \E t \in Tasks : Warns(t, b)' \/ Listens(t, b)'
<1>1. (\E t \in Tasks : Listens(t, b)) <=> \E t \in Installed(b, gen[b]) : Hears(tasks[t], relay)
  BY DEF Listens, Installed
<1>2. (\E t \in Tasks : Listens(t, b)') <=> \E t \in Installed(b, gen[b])' : Hears(tasks'[t], relay')
  BY DEF Listens, Installed
<1> QED BY <1>1, <1>2, ToldIs DEF Heard

\* Coming in these words, before a step and after it.
LEMMA ComingIs ==
  ASSUME NEW b \in Clients, NEW n
  PROVE  /\ Coming(b, n) <=> Brings(wire[b], n) \/ \E t \in Tasks : Carries(t, b, n)
         /\ Coming(b, n)' <=> Brings(wire'[b], n) \/ \E t \in Tasks : Carries(t, b, n)'
<1>1. Brings(wire[b], n) <=> \E i \in DOMAIN wire[b] : wire[b][i].kind = "event" /\ n \in wire[b][i].has
  BY DEF Brings, ToSet
<1>2. (\E t \in Tasks : Carries(t, b, n)) <=> \E t \in Installed(b, gen[b]) : n \in tasks[t].held \cup ToSet(tasks[t].inbox)
  BY DEF Carries, Installed
<1>3. Brings(wire'[b], n) <=> \E i \in DOMAIN wire'[b] : wire'[b][i].kind = "event" /\ n \in wire'[b][i].has
  BY DEF Brings, ToSet
<1>4. (\E t \in Tasks : Carries(t, b, n)') <=> \E t \in Installed(b, gen[b])' : n \in tasks'[t].held \cup ToSet(tasks'[t].inbox)
  BY DEF Carries, Installed
<1> QED BY <1>1, <1>2, <1>3, <1>4 DEF Coming

\* A longer wire has what it had.
LEMMA MoreNews ==
  ASSUME NEW w \in Seq(Messages), NEW m, m \in ToSet(w), NEW v,
         v = w \/ (\E ms \in Seq(Messages) : v = w \o ms) \/ \E a \in Messages : v = Append(w, a)
  PROVE  m \in ToSet(v)
<1>1. \A ms \in Seq(Messages) : ToSet(w \o ms) = ToSet(w) \cup ToSet(ms)
  BY Joined
<1>2. \A a \in Messages : ToSet(Append(w, a)) = ToSet(w) \cup {a}
  BY Appended
<1> QED BY <1>1, <1>2

\* A step after which browser b is not owed what it was: its socket is gone, its
\* subscription was undone behind its back, or its handle was put or taken.
Served(b) == \E s \in subs : s.client = b /\ s.gen = gen[b] /\ (Attach(s) \/ TakeHandle(s))
Undone(b) == b \in deaf' /\ owed'[b] = {}
Lost(b)   == ~open'[b] \/ Undone(b) \/ Served(b)

\* Who is deafened is owed nothing; the others are as they were.
LEMMA DeafenedIs ==
  ASSUME TypeOK, NEW S, Deafened(S), NEW b \in Clients
  PROVE  /\ b \in S => Undone(b)
         /\ b \notin S => (b \in deaf' <=> b \in deaf) /\ owed'[b] = owed[b]
BY DEF Deafened, Undone, TypeOK

\* The connection of an open socket stays its connection.
LEMMA GenStays ==
  ASSUME TypeOK, Requested, Next, NEW b \in Clients, open[b]
  PROVE  (gen'[b] = gen[b])
<1> DEFINE Goal == (gen'[b] = gen[b])
<1>1. ASSUME NEW c \in Clients, Reconnect(c) PROVE Goal
  <2>1. ~open[c] /\ gen' = [gen EXCEPT ![c] = @ + 1]
    BY <1>1 DEF Reconnect
  <2> QED BY <2>1 DEF TypeOK
<1>2. ASSUME UNCHANGED gen PROVE Goal
  BY <1>2
<1>3. ASSUME
       Emit \/ Crash
      PROVE Goal
  BY <1>3, <1>2 DEF Emit, linkVars, Crash, Fault, Closed
<1>4. ASSUME NEW t \in Tasks, tasks[t] # NoTask,
       Receive(t) \/ Flush(t) \/ StopListening(t) \/ Leave(t) \/ AbortLands(t)
      PROVE Goal
  BY <1>4, <1>2 DEF Receive, Sends, Undisturbed, linkVars, Flush, StopListening, Leave,
                    Prune, Deafened, AbortLands
<1>5. ASSUME NEW cg \in served,
       Drain(cg[1], cg[2])
      PROVE Goal
  BY <1>5, <1>2 DEF Drain, linkVars
<1>6. ASSUME NEW s \in subs,
       Ensure(s) \/ Attach(s) \/ TakeHandle(s) \/ PruneAndAbort(s) \/ Refused(s) \/
       Vanish(s)
      PROVE Goal
  BY <1>6, <1>2 DEF Ensure, linkVars, Attach, Deafened, Answer, TakeHandle, PruneAndAbort,
                    Prune, Refused, Fault, Failed, Vanish
<1>7. ASSUME NEW c \in Clients,
       Select(c) \/ Deselect(c) \/ Answered(c) \/ TimesOut(c) \/ Retry(c) \/ EventComes(c)
       \/ Drop(c) \/ Resynced(c)
      PROVE Goal
  BY <1>7, <1>2 DEF Select, Choose, Sync, linkVars, Deselect, Answered, TimesOut, Fault,
                    Deafened, Failed, Retry, EventComes, Drop, Closed, Resynced
<1> SUFFICES Goal
  OBVIOUS
<1> HIDE DEF Goal
<1> QED BY <1>1, <1>2, <1>3, <1>4, <1>5, <1>6, <1>7
     DEF Next, TaskStep, vars, relayVars, connVars, linkVars, subVars

\* News on a wire stays there until the browser takes it, or loses its socket.
LEMMA NewsStays ==
  ASSUME TypeOK, Requested, Next, NEW b \in Clients, NEW m, m \in ToSet(wire[b]),
         m.kind \notin {"subscribe", "unsubscribe"}, m.kind # "event" => m = Resync
  PROVE  (m \in ToSet(wire'[b]) \/ ~open'[b] \/ (m.kind = "event" /\ owed'[b] \cap m.has = {}))
<1> DEFINE Goal == (m \in ToSet(wire'[b]) \/ ~open'[b] \/ (m.kind = "event" /\ owed'[b] \cap m.has = {}))
<1>1. ASSUME NEW t \in Tasks, tasks[t] # NoTask, Receive(t) PROVE Goal
  <2>1. tasks[t] \in TaskTypes /\ wire[b] \in Seq(Messages)
    BY <1>1, TaskIs DEF TypeOK
  <2>2. PICK ms \in Seq(Messages) : \E next : Sends(t, ms, next)
    BY <1>1, Receiving
  <2>3. wire'[b] = wire[b] \/ wire'[b] = wire[b] \o ms
    BY <1>1, <2>2, SentOn
  <2>4. m \in ToSet(wire'[b])
    BY <2>1, <2>2, <2>3, MoreNews
  <2> QED BY <2>4
<1>2. ASSUME NEW t \in Tasks, tasks[t] # NoTask, Flush(t) PROVE Goal
  <2>1. tasks[t] \in TaskTypes /\ wire[b] \in Seq(Messages)
    BY <1>2, TaskIs DEF TypeOK
  <2>2. PICK ms \in Seq(Messages) : \E next : Sends(t, ms, next)
    BY <1>2, <2>1, SendingOut DEF Flush
  <2>3. wire'[b] = wire[b] \/ wire'[b] = wire[b] \o ms
    BY <1>2, <2>2, SentOn
  <2>4. m \in ToSet(wire'[b])
    BY <2>1, <2>2, <2>3, MoreNews
  <2> QED BY <2>4
<1>3. ASSUME NEW t \in Tasks, tasks[t] # NoTask, StopListening(t) PROVE Goal
  <2>1. tasks[t] \in TaskTypes /\ wire[b] \in Seq(Messages)
    BY <1>3, TaskIs DEF TypeOK
  <2>2. PICK ms \in Seq(Messages) : \E next : Sends(t, ms, next)
    BY <1>3, Stopping
  <2>3. wire'[b] = wire[b] \/ wire'[b] = wire[b] \o ms
    BY <1>3, <2>2, SentOn
  <2>4. m \in ToSet(wire'[b])
    BY <2>1, <2>2, <2>3, MoreNews
  <2> QED BY <2>4
<1>4. ASSUME NEW s \in subs, Attach(s) PROVE Goal
  <2>1. Answer(s) \/ UNCHANGED wire
    BY <1>4 DEF Attach
  <2>2. wire[b] \in Seq(Messages)
    BY DEF TypeOK
  <2>3. wire'[b] = wire[b] \/ \E a \in Messages : wire'[b] = Append(wire[b], a)
    BY <2>1, AnsweredOn
  <2>4. m \in ToSet(wire'[b])
    BY <2>2, <2>3, MoreNews
  <2> QED BY <2>4
<1>5. ASSUME NEW s \in subs, TakeHandle(s) PROVE Goal
  <2>1. Answer(s) \/ UNCHANGED wire
    BY <1>5 DEF TakeHandle
  <2>2. wire[b] \in Seq(Messages)
    BY DEF TypeOK
  <2>3. wire'[b] = wire[b] \/ \E a \in Messages : wire'[b] = Append(wire[b], a)
    BY <2>1, AnsweredOn
  <2>4. m \in ToSet(wire'[b])
    BY <2>2, <2>3, MoreNews
  <2> QED BY <2>4
<1>6. ASSUME NEW s \in subs, PruneAndAbort(s) PROVE Goal
  <2>1. Answer(s) \/ UNCHANGED wire
    BY <1>6 DEF PruneAndAbort
  <2>2. wire[b] \in Seq(Messages)
    BY DEF TypeOK
  <2>3. wire'[b] = wire[b] \/ \E a \in Messages : wire'[b] = Append(wire[b], a)
    BY <2>1, AnsweredOn
  <2>4. m \in ToSet(wire'[b])
    BY <2>2, <2>3, MoreNews
  <2> QED BY <2>4
<1>7. ASSUME NEW c \in Clients, Answered(c) PROVE Goal
  <2>1. wire[c] # <<>> /\ Head(wire[c]).kind \in {"subscribe", "unsubscribe"} /\ wire' = [wire EXCEPT ![c] = Tail(@)]
    BY <1>7 DEF Answered
  <2>2. wire[c] \in Seq(Messages) /\ wire'[c] = Tail(wire[c]) /\ (b # c => wire'[b] = wire[b])
    BY <2>1 DEF TypeOK
  <2>3. b = c => m \in ToSet(wire'[b])
    BY <2>1, <2>2, Taken
  <2> QED BY <2>2, <2>3
<1>8. ASSUME NEW c \in Clients, TimesOut(c) PROVE Goal
  <2> DEFINE late == {i \in DOMAIN wire[c] : wire[c][i].kind \in {"subscribe", "unsubscribe"}}
  <2>1. wire' = [wire EXCEPT ![c] = IF late = {} THEN @ ELSE RemoveAt(@, CHOOSE i \in late : TRUE)]
    BY <1>8 DEF TimesOut
  <2>2. wire[c] \in Seq(Messages) /\ (b # c => wire'[b] = wire[b]) /\ (late = {} => wire'[b] = wire[b])
    BY <2>1 DEF TypeOK
  <2>3. ASSUME b = c, late # {} PROVE m \in ToSet(wire'[b])
    <3>1. PICK k \in late : wire'[b] = RemoveAt(wire[c], k)
      BY <2>1, <2>3 DEF TypeOK
    <3>2. k \in DOMAIN wire[c] /\ wire[c][k].kind \in {"subscribe", "unsubscribe"}
      OBVIOUS
    <3>3. PICK j \in DOMAIN wire[c] : m = wire[c][j]
      BY <2>3 DEF ToSet
    <3>4. j # k
      BY <3>2, <3>3
    <3> QED BY <2>2, <3>1, <3>2, <3>3, <3>4, Removed
  <2> QED BY <2>2, <2>3
<1>9. ASSUME NEW c \in Clients, EventComes(c) PROVE Goal
  <2>1. wire[c] # <<>> /\ Head(wire[c]).kind = "event" /\ wire' = [wire EXCEPT ![c] = Tail(@)]
        /\ owed' = [owed EXCEPT ![c] = @ \ Head(wire[c]).has]
    BY <1>9 DEF EventComes
  <2>2. wire[c] \in Seq(Messages) /\ wire'[c] = Tail(wire[c]) /\ (b # c => wire'[b] = wire[b])
        /\ owed'[c] = owed[c] \ Head(wire[c]).has
    BY <2>1 DEF TypeOK
  <2>3. b = c => m \in ToSet(wire'[b]) \/ m = Head(wire[c])
    BY <2>1, <2>2, Taken
  <2>4. Resync.kind # "event"
    BY DEF Resync
  <2> QED BY <2>1, <2>2, <2>3, <2>4
<1>10. ASSUME NEW c \in Clients, Drop(c) PROVE Goal
  <2>1. Closed({c}) /\ {c} \in SUBSET Clients
    BY <1>10 DEF Drop
  <2>2. ~open'[b] \/ wire'[b] = wire[b]
    BY <2>1, ClosedFor
  <2> QED BY <2>2
<1>11. ASSUME NEW c \in Clients, Resynced(c) PROVE Goal
  <2>1. Closed({c}) /\ {c} \in SUBSET Clients
    BY <1>11 DEF Resynced
  <2>2. ~open'[b] \/ wire'[b] = wire[b]
    BY <2>1, ClosedFor
  <2> QED BY <2>2
<1>12. ASSUME Crash PROVE Goal
  <2>1. Closed(Clients) /\ Clients \in SUBSET Clients
    BY <1>12 DEF Crash
  <2>2. ~open'[b] \/ wire'[b] = wire[b]
    BY <2>1, ClosedFor
  <2> QED BY <2>2
<1>13. ASSUME UNCHANGED wire PROVE Goal
  BY <1>13
<1>14. ASSUME
       Emit
      PROVE Goal
  BY <1>14, <1>13 DEF Emit
<1>15. ASSUME NEW t \in Tasks, tasks[t] # NoTask,
       Leave(t) \/ AbortLands(t)
      PROVE Goal
  BY <1>15, <1>13 DEF Leave, Prune, Deafened, AbortLands
<1>16. ASSUME NEW cg \in served,
       Drain(cg[1], cg[2])
      PROVE Goal
  BY <1>16, <1>13 DEF Drain
<1>17. ASSUME NEW s \in subs,
       Ensure(s) \/ Refused(s) \/ Vanish(s)
      PROVE Goal
  BY <1>17, <1>13 DEF Ensure, Refused, Fault, Failed, Vanish
<1>18. ASSUME NEW c \in Clients,
       Select(c) \/ Deselect(c) \/ Retry(c) \/ Reconnect(c)
      PROVE Goal
  BY <1>18, <1>13 DEF Select, Choose, Sync, Deselect, Retry, Reconnect
<1> SUFFICES Goal
  OBVIOUS
<1> HIDE DEF Goal
<1> QED BY <1>1, <1>2, <1>3, <1>4, <1>5, <1>6, <1>7, <1>8, <1>9, <1>10, <1>11, <1>12, <1>13,
           <1>14, <1>15, <1>16, <1>17, <1>18
     DEF Next, TaskStep, vars, relayVars, connVars, linkVars, subVars

\* The relay that a browser is heard by stays, or the browser is deafened.
LEMMA RelayStays ==
  ASSUME TypeOK, Requested, Next, NEW b \in Clients, \A u \in Tasks : TaskOK(u), NEW k \in Tasks, Listens(k, b)
  PROVE  (relay' = relay \/ Lost(b))
<1> DEFINE Goal == (relay' = relay \/ Lost(b))
<1>1. ASSUME NEW t \in Tasks, tasks[t] # NoTask, Leave(t) PROVE Goal
  <2>1. Prune(0, t) /\ UNCHANGED gen
    BY <1>1 DEF Leave, linkVars
  <2>2. k # t
    BY <1>1 DEF Leave, Listens, Hears
  <2>3. k \in Listeners(relay) \ {t}
    BY <2>2 DEF Listens, Listeners, Installed
  <2>4. b \in Audience(relay, t)
    BY <2>3 DEF Audience, Listens
  <2>5. relay' = relay \/ Deafened(Audience(relay, t))
    BY <2>1 DEF Prune
  <2> QED BY <2>4, <2>5, DeafenedIs DEF Lost
<1>2. ASSUME NEW s \in subs, Ensure(s) PROVE Goal
  <2>1. relay # 0
    BY TaskIs DEF Listens, Installed, Hears, Relays
  <2>2. relay = 0 \/ UNCHANGED relayVars
    BY <1>2 DEF Ensure
  <2> QED BY <2>1, <2>2 DEF relayVars
<1>3. ASSUME NEW s \in subs, PruneAndAbort(s) PROVE Goal
  <2>1. Prune(1, s.arg) /\ UNCHANGED gen
    BY <1>3 DEF PruneAndAbort, linkVars
  <2>2. k # s.arg
    BY <1>3 DEF PruneAndAbort, Requested, RequestOK, Listens, Installed
  <2>3. k \in Listeners(relay) \ {s.arg}
    BY <2>2 DEF Listens, Listeners, Installed
  <2>4. b \in Audience(relay, s.arg)
    BY <2>3 DEF Audience, Listens
  <2>5. relay' = relay \/ Deafened(Audience(relay, s.arg))
    BY <2>1 DEF Prune
  <2> QED BY <2>4, <2>5, DeafenedIs DEF Lost
<1>4. ASSUME Crash PROVE Goal
  <2>1. ~open'[b]
    BY <1>4, ClosedFor DEF Crash
  <2> QED BY <2>1 DEF Lost
<1>5. ASSUME UNCHANGED relay PROVE Goal
  BY <1>5
<1>6. ASSUME
       Emit
      PROVE Goal
  BY <1>6, <1>5 DEF Emit, relayVars
<1>7. ASSUME NEW t \in Tasks, tasks[t] # NoTask,
       Receive(t) \/ Flush(t) \/ StopListening(t) \/ AbortLands(t)
      PROVE Goal
  BY <1>7, <1>5 DEF Receive, Sends, Undisturbed, relayVars, Flush, StopListening, AbortLands
<1>8. ASSUME NEW cg \in served,
       Drain(cg[1], cg[2])
      PROVE Goal
  BY <1>8, <1>5 DEF Drain, relayVars
<1>9. ASSUME NEW s \in subs,
       Attach(s) \/ TakeHandle(s) \/ Refused(s) \/ Vanish(s)
      PROVE Goal
  BY <1>9, <1>5 DEF Attach, Deafened, Answer, relayVars, TakeHandle, Refused, Fault, Failed,
                    Vanish
<1>10. ASSUME NEW c \in Clients,
       Select(c) \/ Deselect(c) \/ Answered(c) \/ TimesOut(c) \/ Retry(c) \/ EventComes(c)
       \/ Drop(c) \/ Resynced(c) \/ Reconnect(c)
      PROVE Goal
  BY <1>10, <1>5 DEF Select, Choose, Sync, relayVars, Deselect, Answered, TimesOut, Fault,
                     Deafened, Failed, Retry, EventComes, Drop, Closed, Resynced, Reconnect
<1> SUFFICES Goal
  OBVIOUS
<1> HIDE DEF Goal
<1> QED BY <1>1, <1>2, <1>3, <1>4, <1>5, <1>6, <1>7, <1>8, <1>9, <1>10
     DEF Next, TaskStep, vars, relayVars, connVars, linkVars, subVars

\* What a flush brings.
LEMMA FlushBrings ==
  ASSUME NEW tk \in TaskTypes
  PROVE  /\ \A n \in tk.held : Brings(Flushed(tk), n)
         /\ \A n \in tk.held, h \in Numbers : Brings(Append(Flushed(tk), Event({h})), n)
         /\ \A h \in Numbers : Brings(Append(Flushed(tk), Event({h})), h)
         /\ Warned(Lagged(tk))
<1>1. Flushed(tk) \in Seq(Messages)
  BY SendingOut
<1>2. \A S : Event(S).kind = "event" /\ Event(S).has = S
  BY DEF Event
<1>3. \A m : ToSet(<<m>>) = {m}
  BY DEF ToSet
<1>4. \A n \in tk.held : Brings(Flushed(tk), n)
  <2>1. ASSUME NEW n \in tk.held PROVE Event(tk.held) \in ToSet(Flushed(tk))
    BY <1>3 DEF Flushed
  <2> QED BY <1>2, <2>1 DEF Brings
<1>5. ASSUME NEW h \in Numbers
      PROVE  ToSet(Append(Flushed(tk), Event({h}))) = ToSet(Flushed(tk)) \cup {Event({h})}
  BY <1>1, Appended, Messaging
<1>6. \A h \in Numbers : Brings(Append(Flushed(tk), Event({h})), h)
  BY <1>2, <1>5 DEF Brings
<1>7. \A n \in tk.held, h \in Numbers : Brings(Append(Flushed(tk), Event({h})), n)
  BY <1>4, <1>5 DEF Brings
<1>8. Warned(Lagged(tk))
  <2>1. <<Resync>> \in Seq(Messages)
    BY Messaging
  <2>2. ToSet(<<Resync>> \o Flushed(tk)) = ToSet(<<Resync>>) \cup ToSet(Flushed(tk))
    BY <1>1, <2>1, Joined, ZenonT(30)
  <2> QED BY <1>3, <2>2 DEF Warned, Lagged
<1> QED BY <1>4, <1>6, <1>7, <1>8

\* A task of a connection that is served and alive sends, and goes on.
LEMMA SendsOn ==
  ASSUME TypeOK, NEW t \in Tasks, tasks[t] # NoTask, NEW ms \in Seq(Messages), NEW next, Sends(t, ms, next),
         NEW b \in Clients, tasks[t].client = b, Alive(b, tasks[t].gen), <<b, tasks[t].gen>> \in served
  PROVE  /\ tasks'[t] = next
         /\ \A n : Brings(ms, n) => Brings(wire'[b], n)
         /\ Warned(ms) => Warned(wire'[b])
<1>1. tasks' = [tasks EXCEPT ![t] = next] /\ wire' = [wire EXCEPT ![b] = @ \o ms]
  BY DEF Sends
<1>2. wire[b] \in Seq(Messages) /\ wire'[b] = wire[b] \o ms /\ tasks'[t] = next
  BY <1>1 DEF TypeOK
<1>3. ToSet(wire'[b]) = ToSet(wire[b]) \cup ToSet(ms)
  BY <1>2, Joined
<1> QED BY <1>2, <1>3 DEF Brings, Warned

\* An installed task after a step: it goes on with all that it had, as far as it
\* has not sent it.
Moved(t, b) ==
  /\ tasks'[t] # NoTask /\ tasks'[t].installed /\ SameTask(tasks'[t], tasks[t])
  /\ tasks[t].lagged => tasks'[t].lagged
  /\ Hears(tasks[t], relay) => tasks'[t].at = "run"
  /\ \A n \in tasks[t].held \cup ToSet(tasks[t].inbox) :
        n \in tasks'[t].held \cup ToSet(tasks'[t].inbox) \/ tasks'[t].lagged \/ Brings(wire'[b], n)

\* A task that a step leaves alone goes on.
LEMMA SameMoves ==
  ASSUME NEW b \in Clients, NEW k \in Tasks, k \in Installed(b, gen[b]), tasks'[k] = tasks[k]
  PROVE  Moved(k, b)
BY DEF Moved, Installed, SameTask, Hears

\* The installed task of a browser after a step.
LEMMA Passing ==
  ASSUME TypeOK, Requested, Next, NEW b \in Clients, \A u \in Tasks : TaskOK(u), LinkOK(b), open[b],
         NEW k \in Tasks, k \in Installed(b, gen[b])
  PROVE  (Lost(b) \/ Warned(wire'[b]) \/ tasks[k].at = "leaving" \/ Moved(k, b))
<1> DEFINE Goal == (Lost(b) \/ Warned(wire'[b]) \/ tasks[k].at = "leaving" \/ Moved(k, b))
<1>1. ASSUME NEW t \in Tasks, tasks[t] # NoTask, Receive(t) PROVE Goal
  <2>1. tasks[t] \in TaskTypes
    BY <1>1, TaskIs
  <2>2. CASE t # k
    <3>1. \E ms, next : Sends(t, ms, next)
      BY <1>1 DEF Receive
    <3>2. tasks'[k] = tasks[k]
      BY <2>1, <2>2, <3>1 DEF Sends, TypeOK
    <3> QED BY <3>2, SameMoves
  <2>3. CASE t = k
    <3>1. tasks[k].client = b /\ tasks[k].installed /\ Alive(b, tasks[k].gen) /\ <<b, tasks[k].gen>> \in served
      BY <1>1, <2>3 DEF Installed, Alive, LinkOK
    <3>2. PICK h \in SUBSET Numbers, ms \in Seq(Messages) :
           LET tk == tasks[t]
           IN  /\ tk.at = "run" /\ ~tk.lagged /\ tk.inbox # <<>>
               /\ Sends(t, ms, [[tk EXCEPT !.inbox = Tail(@)] EXCEPT !.held = h])
               /\ \/ ms = <<>> /\ h = tk.held \cup {Head(tk.inbox)}
                  \/ ms = Flushed(tk) /\ h = {Head(tk.inbox)}
                  \/ ms = Append(Flushed(tk), Event({Head(tk.inbox)})) /\ h = {}
      BY <1>1, Receiving
    <3> DEFINE next == [[tasks[t] EXCEPT !.inbox = Tail(@)] EXCEPT !.held = h]
    <3>9. Sends(t, ms, next)
      BY <3>2
    <3> HIDE DEF next
    <3>10. tasks'[t] = next /\ \A n : Brings(ms, n) => Brings(wire'[b], n)
      BY <1>1, <2>3, <3>1, <3>9, SendsOn
    <3>3. tasks'[k] = [[tasks[k] EXCEPT !.inbox = Tail(@)] EXCEPT !.held = h]
          /\ \A n : Brings(ms, n) => Brings(wire'[b], n)
      BY <2>3, <3>10 DEF next
    <3>4. /\ SameTask(tasks'[k], tasks[k]) /\ tasks'[k].installed /\ tasks'[k].at = "run"
          /\ tasks'[k].inbox = Tail(tasks[k].inbox) /\ tasks'[k].held = h /\ tasks'[k] # NoTask
      <4>1. LET j == [[tasks[k] EXCEPT !.inbox = Tail(@)] EXCEPT !.held = h]
            IN  /\ SameTask(j, tasks[k]) /\ SameHandle(j, tasks[k])
                /\ j.at = tasks[k].at /\ j.inbox = Tail(tasks[k].inbox) /\ j.held = h
        BY <2>1, <2>3, ReadIs
      <4>2. tasks'[k] \in TaskTypes
        BY <2>1, <2>3, <3>2, <3>3, TaskReads
      <4> QED BY <2>3, <3>1, <3>2, <3>3, <4>1, <4>2, TaskEdits DEF SameHandle
    <3>5. Head(tasks[k].inbox) \in Numbers /\ ToSet(tasks[k].inbox) = {Head(tasks[k].inbox)} \cup ToSet(Tail(tasks[k].inbox))
      BY <2>1, <2>3, <3>2, Taken DEF TaskTypes
    <3>6. ASSUME NEW n \in tasks[k].held PROVE n \in h \/ Brings(ms, n)
      BY <2>1, <2>3, <3>2, <3>5, FlushBrings
    <3>7. Head(tasks[k].inbox) \in h \/ Brings(ms, Head(tasks[k].inbox))
      BY <2>1, <2>3, <3>2, <3>5, FlushBrings
    <3>8. \A n \in tasks[k].held \cup ToSet(tasks[k].inbox) :
             n \in tasks'[k].held \cup ToSet(tasks'[k].inbox) \/ Brings(wire'[b], n)
      BY <3>3, <3>4, <3>5, <3>6, <3>7
    <3> QED BY <2>3, <3>2, <3>4, <3>8 DEF Moved
  <2> QED BY <2>2, <2>3
<1>2. ASSUME NEW t \in Tasks, tasks[t] # NoTask, Flush(t) PROVE Goal
  <2>1. tasks[t] \in TaskTypes
    BY <1>2, TaskIs
  <2>2. CASE t # k
    <3>1. \E ms, next : Sends(t, ms, next)
      BY <1>2 DEF Flush
    <3>2. tasks'[k] = tasks[k]
      BY <2>1, <2>2, <3>1 DEF Sends, TypeOK
    <3> QED BY <3>2, SameMoves
  <2>3. CASE t = k
    <3>1. tasks[k].client = b /\ tasks[k].installed /\ Alive(b, tasks[k].gen) /\ <<b, tasks[k].gen>> \in served
      BY <1>2, <2>3 DEF Installed, Alive, LinkOK
    <3>2. Sends(t, Flushed(tasks[t]), [tasks[t] EXCEPT !.held = {}]) /\ Flushed(tasks[t]) \in Seq(Messages) /\ tasks[t].at = "run"
      BY <1>2, <2>1, SendingOut DEF Flush
    <3>3. tasks'[k] = [tasks[k] EXCEPT !.held = {}] /\ \A n : Brings(Flushed(tasks[k]), n) => Brings(wire'[b], n)
      BY <1>2, <2>3, <3>1, <3>2, SendsOn
    <3>4. /\ SameTask(tasks'[k], tasks[k]) /\ tasks'[k].installed /\ tasks'[k].at = "run" /\ tasks'[k].lagged = tasks[k].lagged
          /\ tasks'[k].inbox = tasks[k].inbox /\ tasks'[k] # NoTask
      <4> DEFINE j == [tasks[k] EXCEPT !.held = {}]
      <4>1. SameTask(j, tasks[k]) /\ SameHandle(j, tasks[k]) /\ j.at = tasks[k].at /\ j.inbox = tasks[k].inbox /\ j.lagged = tasks[k].lagged
        BY <2>1, <2>3, FlushedIs
      <4>2. j \in TaskTypes
        BY <2>1, <2>3, TaskEdits
      <4>3. j # NoTask
        BY <4>2, TaskEdits
      <4>4. tasks'[k] = j
        BY <3>3
      <4> HIDE DEF j
      <4> QED BY <2>3, <3>1, <3>2, <4>1, <4>3, <4>4 DEF SameHandle
    <3>5. \A n \in tasks[k].held \cup ToSet(tasks[k].inbox) :
             n \in tasks'[k].held \cup ToSet(tasks'[k].inbox) \/ Brings(wire'[b], n)
      BY <2>1, <2>3, <3>3, <3>4, FlushBrings
    <3> QED BY <3>4, <3>5 DEF Moved
  <2> QED BY <2>2, <2>3
<1>3. ASSUME NEW t \in Tasks, tasks[t] # NoTask, StopListening(t) PROVE Goal
  <2>1. tasks[t] \in TaskTypes
    BY <1>3, TaskIs
  <2>2. CASE t # k
    <3>1. \E ms, next : Sends(t, ms, next)
      BY <1>3 DEF StopListening
    <3>2. tasks'[k] = tasks[k]
      BY <2>1, <2>2, <3>1 DEF Sends, TypeOK
    <3> QED BY <3>2, SameMoves
  <2>3. CASE t = k
    <3>1. tasks[k].client = b /\ tasks[k].installed /\ Alive(b, tasks[k].gen) /\ <<b, tasks[k].gen>> \in served
      BY <1>3, <2>3 DEF Installed, Alive, LinkOK
    <3>2. PICK ms \in Seq(Messages) :
           LET tk == tasks[t]
           IN  /\ tk.at = "run" /\ Sends(t, ms, Left(tk))
               /\ \/ tk.lagged /\ ms = Lagged(tk)
                  \/ ~tk.lagged /\ tk.inbox = <<>> /\ ~HasSender(tk.relay) /\ ms = Flushed(tk)
      BY <1>3, Stopping
    <3>3. tasks'[k] = Left(tasks[k]) /\ (\A n : Brings(ms, n) => Brings(wire'[b], n)) /\ (Warned(ms) => Warned(wire'[b]))
      BY <1>3, <2>3, <3>1, <3>2, SendsOn
    <3>4. CASE ms = Lagged(tasks[t])
      BY <2>1, <3>3, <3>4, FlushBrings
    <3>5. CASE ~tasks[t].lagged /\ tasks[t].inbox = <<>> /\ ~HasSender(tasks[t].relay) /\ ms = Flushed(tasks[t])
      <4>1. SameTask(tasks'[k], tasks[k]) /\ tasks'[k].installed /\ tasks'[k] # NoTask
        <5>1. SameTask(Left(tasks[k]), tasks[k]) /\ SameHandle(Left(tasks[k]), tasks[k])
          BY <2>1, <2>3, LeftIs, Zenon
        <5>2. Left(tasks[k]) # NoTask
          <6>1. Left(tasks[k]) \in TaskTypes
            BY <2>1, <2>3, TaskEdits
          <6> QED BY <6>1, TaskEdits
        <5> QED BY <3>1, <3>3, <5>1, <5>2, Zenon DEF SameHandle
      <4>2. ~Hears(tasks[k], relay) /\ ~tasks[k].lagged
        BY <2>3, <3>5 DEF HasSender, Hears
      <4>3. ToSet(tasks[k].inbox) = {}
        BY <2>3, <3>5 DEF ToSet
      <4>4. \A n \in tasks[k].held : Brings(wire'[b], n)
        BY <2>1, <2>3, <3>3, <3>5, FlushBrings
      <4> QED BY <4>1, <4>2, <4>3, <4>4 DEF Moved
    <3> QED BY <3>2, <3>4, <3>5
  <2> QED BY <2>2, <2>3
<1>4. ASSUME NEW t \in Tasks, tasks[t] # NoTask, Leave(t) PROVE Goal
  <2>1. tasks' = [tasks EXCEPT ![t] = NoTask] /\ tasks[t].at = "leaving"
    BY <1>4 DEF Leave
  <2>2. CASE t = k
    BY <2>1, <2>2
  <2>3. CASE t # k
    <3>1. tasks'[k] = tasks[k]
      BY <2>1, <2>3 DEF TypeOK
    <3> QED BY <3>1, SameMoves
  <2> QED BY <2>2, <2>3
<1>5. ASSUME NEW t \in Tasks, tasks[t] # NoTask, AbortLands(t) PROVE Goal
  <2>1. tasks' = [tasks EXCEPT ![t] = NoTask] /\ tasks[t].aborted
    BY <1>5 DEF AbortLands
  <2>2. t # k
    BY <1>5, <2>1 DEF TaskOK, Installed
  <2>3. tasks'[k] = tasks[k]
    BY <2>1, <2>2 DEF TypeOK
  <2> QED BY <2>3, SameMoves
<1>6. ASSUME NEW cg \in served, Drain(cg[1], cg[2]) PROVE Goal
  <2>1. ~Alive(cg[1], cg[2]) /\ tasks' = [t \in Tasks |-> IF t \in Installed(cg[1], cg[2]) THEN Aborted(tasks[t]) ELSE tasks[t]]
    BY <1>6 DEF Drain
  <2>2. k \notin Installed(cg[1], cg[2])
    BY <2>1 DEF Installed, Alive
  <2>3. tasks'[k] = tasks[k]
    BY <2>1, <2>2
  <2> QED BY <2>3, SameMoves
<1>7. ASSUME NEW s \in subs, Attach(s) PROVE Goal
  <2>1. CASE s.client = b /\ s.gen = gen[b]
    BY <1>7, <2>1 DEF Lost, Served
  <2>2. CASE ~(s.client = b /\ s.gen = gen[b])
    <3>1. k \notin Installed(s.client, s.gen) /\ tasks[k] # NoTask
      BY <2>2 DEF Installed
    <3>2. tasks'[k] = tasks[k]
      <4> DEFINE own == CHOOSE t \in Free : TRUE
      <4>1. own \in Free
        BY <1>7 DEF Attach
      <4>2. k # own
        BY <3>1, <4>1 DEF Free
      <4> QED BY <1>7, <3>1, <4>2 DEF Attach
    <3> QED BY <3>2, SameMoves
  <2> QED BY <2>1, <2>2
<1>8. ASSUME NEW s \in subs, TakeHandle(s) PROVE Goal
  <2>1. CASE s.client = b /\ s.gen = gen[b]
    BY <1>8, <2>1 DEF Lost, Served
  <2>2. CASE ~(s.client = b /\ s.gen = gen[b])
    <3>1. k \notin Installed(s.client, s.gen) /\ tasks[k] # NoTask
      BY <2>2 DEF Installed
    <3>2. tasks'[k] = tasks[k]
      BY <1>8, <3>1 DEF TakeHandle
    <3> QED BY <3>2, SameMoves
  <2> QED BY <2>1, <2>2
<1>9. ASSUME NEW s \in subs, PruneAndAbort(s) PROVE Goal
  <2>1. k # s.arg
    BY <1>9 DEF PruneAndAbort, Requested, RequestOK, Installed
  <2>2. tasks'[k] = tasks[k]
    BY <1>9, <2>1 DEF PruneAndAbort
  <2> QED BY <2>2, SameMoves
<1>10. ASSUME Emit PROVE Goal
  <2>1. tasks'[k] = (IF Hears(tasks[k], relay) THEN Push(tasks[k], sent') ELSE tasks[k]) /\ sent' \in Numbers
    BY <1>10, RelayConstants DEF Emit, TypeOK, Numbers
  <2>2. CASE ~Hears(tasks[k], relay)
    BY <2>1, <2>2, SameMoves
  <2>3. CASE Hears(tasks[k], relay)
    <3>1. tasks'[k] = Push(tasks[k], sent') /\ tasks[k] \in TaskTypes /\ tasks[k].installed /\ tasks[k].at = "run"
      BY <2>1, <2>3, TaskIs DEF Hears, Installed
    <3> DEFINE j == Push(tasks[k], sent')
    <3>2. /\ SameTask(j, tasks[k]) /\ SameHandle(j, tasks[k]) /\ j.at = tasks[k].at /\ j.held = tasks[k].held
          /\ \/ j.inbox = Append(tasks[k].inbox, sent') /\ j.lagged = tasks[k].lagged
             \/ j.lagged = TRUE
      BY <2>1, <3>1, PushedIs
    <3>3. j \in TaskTypes /\ j # NoTask
      BY <2>1, <3>1, TaskGets, TaskEdits
    <3>4. ToSet(Append(tasks[k].inbox, sent')) = ToSet(tasks[k].inbox) \cup {sent'}
      BY <2>1, <3>1, Appended DEF TaskTypes
    <3> HIDE DEF j
    <3>5. tasks'[k] = j
      BY <3>1 DEF j
    <3>6. j.installed
      BY <3>1, <3>2 DEF SameHandle
    <3> QED BY <3>1, <3>2, <3>3, <3>4, <3>5, <3>6 DEF Moved
  <2> QED BY <2>2, <2>3
<1>11. ASSUME Crash PROVE Goal
  <2>1. ~open'[b]
    BY <1>11, ClosedFor DEF Crash
  <2> QED BY <2>1 DEF Lost
<1>12. ASSUME UNCHANGED tasks PROVE Goal
  BY <1>12, SameMoves DEF Moved
<1>13. ASSUME NEW s \in subs,
       Ensure(s) \/ Refused(s) \/ Vanish(s)
      PROVE Goal
  BY <1>13, <1>12 DEF Ensure, Refused, Fault, Failed, Vanish
<1>14. ASSUME NEW c \in Clients,
       Select(c) \/ Deselect(c) \/ Answered(c) \/ TimesOut(c) \/ Retry(c) \/ EventComes(c)
       \/ Drop(c) \/ Resynced(c) \/ Reconnect(c)
      PROVE Goal
  BY <1>14, <1>12 DEF Select, Choose, Sync, Deselect, Answered, TimesOut, Fault, Deafened,
                      Failed, Retry, EventComes, Drop, Closed, Resynced, Reconnect
<1> SUFFICES Goal
  OBVIOUS
<1> HIDE DEF Goal
<1> QED BY <1>1, <1>2, <1>3, <1>4, <1>5, <1>6, <1>7, <1>8, <1>9, <1>10, <1>11, <1>12, <1>13,
           <1>14
     DEF Next, TaskStep, vars, relayVars, connVars, linkVars, subVars

-------------------------------------------------------------------------------
(* Who is promised its events.                                             *)

\* What makes a browser promised its events: a subscription that is on its way to
\* it, or one it believes in and that no request of its own has cut.
CutOff(b) == \E s \in Asked(b) : s.at = "removed"
Promising(kinds, believes, cut) == "subscribe" \in kinds \/ (believes /\ kinds = {} /\ ~cut)

\* Promised in these words, before a step and after it.
LEMMA PromisedIs ==
  ASSUME NEW b \in Clients
  PROVE  /\ Promised(b) <=> open[b] /\ b \notin deaf /\ Promising(Kinds(wire[b]), synced[b], CutOff(b))
         /\ Promised(b)' <=> open'[b] /\ b \notin deaf' /\ Promising(Kinds(wire'[b]), synced'[b], CutOff(b)')
BY Zenon DEF Promised, Promising, CutOff

\* A step that gives a browser nothing to believe in.
LEMMA PromisedAlready ==
  ASSUME NEW b \in Clients, Promised(b)', open'[b] => open[b], b \in deaf => b \in deaf',
         Kinds(wire'[b]) = Kinds(wire[b]), synced'[b] = synced[b], CutOff(b) => CutOff(b)'
  PROVE  Promised(b)
BY PromisedIs DEF Promising

\* A browser that is told it has unsubscribed, or whose task was cut off, is
\* promised nothing.
LEMMA NotPromised ==
  ASSUME NEW b \in Clients, "subscribe" \notin Kinds(wire'[b]), Kinds(wire'[b]) # {} \/ ~synced'[b] \/ CutOff(b)'
  PROVE  ~Promised(b)'
BY PromisedIs DEF Promising

\* The requests out stay out, but for one that has not cut anything.
LEMMA CutStays ==
  ASSUME NEW b \in Clients, \A s \in Asked(b) : s.at # "removed" \/ (s \in subs')
  PROVE  CutOff(b) => CutOff(b)'
<1>1. ASSUME NEW s \in Asked(b), s.at = "removed" PROVE CutOff(b)'
  <2>1. s \in subs' /\ s.client = b /\ s.live
    BY <1>1 DEF Asked
  <2>2. s \in Asked(b)'
    BY <2>1 DEF Asked
  <2> QED BY <1>1, <2>2 DEF CutOff
<1> QED BY <1>1 DEF CutOff

\* A relay that is pruned gives no browser its hearing back.
LEMMA DeafStays ==
  ASSUME TypeOK, NEW limit, NEW own, Prune(limit, own), NEW b \in Clients
  PROVE  b \in deaf => b \in deaf'
BY DEF Prune, Deafened

\* Only its own subscription makes a browser promised what it was not.
LEMMA PromisedBefore ==
  ASSUME TypeOK, Requested, Next, NEW b \in Clients, LinkOK(b), OneAnswer(b), ~Served(b)
  PROVE  (Promised(b)' => Promised(b))
<1> DEFINE Goal == (Promised(b)' => Promised(b))
<1>1. ASSUME NEW t \in Tasks, tasks[t] # NoTask, Receive(t) PROVE Goal
  <2>1. UNCHANGED <<open, synced, deaf, subs>>
    BY <1>1 DEF Receive, Undisturbed, subVars, linkVars
  <2>2. Kinds(wire'[b]) = Kinds(wire[b])
    BY <1>1, TaskWires
  <2>3. CutOff(b) => CutOff(b)'
    BY <2>1, CutStays DEF Asked
  <2> QED BY <2>1, <2>2, <2>3, PromisedAlready
<1>2. ASSUME NEW t \in Tasks, tasks[t] # NoTask, Flush(t) PROVE Goal
  <2>1. UNCHANGED <<open, synced, deaf, subs>>
    BY <1>2 DEF Flush, Undisturbed, subVars, linkVars
  <2>2. Kinds(wire'[b]) = Kinds(wire[b])
    BY <1>2, TaskWires
  <2>3. CutOff(b) => CutOff(b)'
    BY <2>1, CutStays DEF Asked
  <2> QED BY <2>1, <2>2, <2>3, PromisedAlready
<1>3. ASSUME NEW t \in Tasks, tasks[t] # NoTask, StopListening(t) PROVE Goal
  <2>1. UNCHANGED <<open, synced, deaf, subs>>
    BY <1>3 DEF StopListening, Undisturbed, subVars, linkVars
  <2>2. Kinds(wire'[b]) = Kinds(wire[b])
    BY <1>3, TaskWires
  <2>3. CutOff(b) => CutOff(b)'
    BY <2>1, CutStays DEF Asked
  <2> QED BY <2>1, <2>2, <2>3, PromisedAlready
<1>4. ASSUME NEW t \in Tasks, tasks[t] # NoTask, Leave(t) PROVE Goal
  <2>1. UNCHANGED <<open, wire, synced, subs>> /\ Prune(0, t)
    BY <1>4 DEF Leave, subVars, linkVars
  <2>2. b \in deaf => b \in deaf'
    BY <2>1, DeafStays
  <2>3. CutOff(b) => CutOff(b)'
    BY <2>1, CutStays DEF Asked
  <2> QED BY <2>1, <2>2, <2>3, PromisedAlready
<1>5. ASSUME NEW s \in subs, Ensure(s) PROVE Goal
  <2>1. UNCHANGED <<open, wire, synced, deaf>> /\ s.at = "sent" /\ subs \ {s} \subseteq subs'
    BY <1>5 DEF Ensure, linkVars, subVars
  <2>2. CutOff(b) => CutOff(b)'
    BY <2>1, CutStays DEF Asked
  <2> QED BY <2>1, <2>2, PromisedAlready
<1>6. ASSUME NEW s \in subs, Attach(s) PROVE Goal
  <2>1. ~(s.client = b /\ s.gen = gen[b])
    BY <1>6 DEF Served
  <2>2. s \notin Asked(b)
    BY <2>1 DEF Asked, Requested, RequestOK
  <2>3. UNCHANGED <<open, synced>> /\ subs \ {s} \subseteq subs' /\ (Answer(s) \/ UNCHANGED wire)
    BY <1>6 DEF Attach, linkVars, subVars
  <2>4. wire'[b] = wire[b]
    BY <2>1, <2>3, AnsweredOn DEF Alive
  <2>5. CutOff(b) => CutOff(b)'
    BY <2>2, <2>3, CutStays DEF Asked
  <2>6. b \in deaf => b \in deaf'
    BY <1>6, <2>1 DEF Attach, Deafened
  <2> QED BY <2>3, <2>4, <2>5, <2>6, PromisedAlready
<1>7. ASSUME NEW s \in subs, TakeHandle(s) PROVE Goal
  <2>1. ~(s.client = b /\ s.gen = gen[b])
    BY <1>7 DEF Served
  <2>2. s \notin Asked(b)
    BY <2>1 DEF Asked, Requested, RequestOK
  <2>3. UNCHANGED <<open, synced>> /\ subs \ {s} \subseteq subs' /\ (Answer(s) \/ UNCHANGED wire)
    BY <1>7 DEF TakeHandle, linkVars, subVars
  <2>4. wire'[b] = wire[b]
    BY <2>1, <2>3, AnsweredOn DEF Alive
  <2>5. CutOff(b) => CutOff(b)'
    BY <2>2, <2>3, CutStays DEF Asked
  <2>6. b \in deaf => b \in deaf'
    BY <1>7, <2>1 DEF TakeHandle, Deafened
  <2> QED BY <2>3, <2>4, <2>5, <2>6, PromisedAlready
<1>8. ASSUME NEW s \in subs, PruneAndAbort(s) PROVE Goal
  <2>1. UNCHANGED <<open, synced>> /\ subs' = subs \ {s} /\ Answer(s) /\ Prune(1, s.arg) /\ s.kind = "unsubscribe"
    BY <1>8 DEF PruneAndAbort, linkVars, subVars, Requested, RequestOK
  <2>2. b \in deaf => b \in deaf'
    BY <2>1, DeafStays
  <2>3. CASE s \in Asked(b) /\ open[b]
    <3>1. s.live /\ s.client = b /\ s.gen = gen[b]
      BY <2>3 DEF Asked, Requested, RequestOK
    <3>2. wire'[b] = Append(wire[b], [kind |-> "unsubscribe"]) /\ [kind |-> "unsubscribe"] \in Messages
      BY <2>1, <2>3, <3>1, AnsweredOn DEF Alive
    <3>3. Kinds(wire[b]) = {} /\ wire[b] \in Seq(Messages)
      BY <2>3, WaitsForNothing DEF TypeOK
    <3>4. Kinds(wire'[b]) = {"unsubscribe"}
      BY <3>2, <3>3, AnswerIsAdded
    <3> QED BY <3>4, NotPromised
  <2>4. CASE s \in Asked(b) /\ ~open[b]
    BY <2>1, <2>4, PromisedIs
  <2>5. CASE s \notin Asked(b)
    <3>1. ~(s.client = b /\ s.live)
      BY <2>5 DEF Asked
    <3>2. wire'[b] = wire[b]
      BY <2>1, <3>1, AnsweredOn
    <3>3. CutOff(b) => CutOff(b)'
      BY <2>1, <2>5, CutStays DEF Asked
    <3> QED BY <2>1, <2>2, <3>2, <3>3, PromisedAlready
  <2> QED BY <2>3, <2>4, <2>5
<1>9. ASSUME NEW s \in subs, Refused(s) PROVE Goal
  <2>1. /\ s.live /\ open[s.client] /\ subs' = subs \ {s} /\ UNCHANGED <<open, wire, deaf>> /\ s.client \in Clients
        /\ synced' = [synced EXCEPT ![s.client] = s.kind = "unsubscribe"] /\ s.at = "sent"
    BY <1>9, RequestIs DEF Refused, Failed, Alive, linkVars
  <2>2. CutOff(b) => CutOff(b)'
    BY <2>1, CutStays DEF Asked
  <2>3. CASE b = s.client
    <3>1. s \in Asked(b)
      BY <2>1, <2>3 DEF Asked
    <3>2. s.kind = "unsubscribe" => synced[b]
      BY <2>1, <2>3, <3>1 DEF OneAnswer, Kind
    <3>3. synced'[b] = (s.kind = "unsubscribe")
      BY <2>1, <2>3 DEF TypeOK
    <3>4. Kinds(wire[b]) = {} /\ Asked(b) = {s}
      BY <2>1, <2>3, <3>1, WaitsForNothing
    <3>5. ~CutOff(b)
      BY <2>1, <3>4 DEF CutOff
    <3>6. Promised(b)' => synced[b]
      BY <2>1, <3>2, <3>3, <3>4, PromisedIs DEF Promising
    <3> QED BY <2>1, <3>4, <3>5, <3>6, PromisedIs DEF Promising
  <2>4. CASE b # s.client
    <3>1. synced'[b] = synced[b]
      BY <2>1, <2>4 DEF TypeOK
    <3> QED BY <2>1, <2>2, <3>1, PromisedAlready
  <2> QED BY <2>3, <2>4
<1>10. ASSUME NEW s \in subs, Vanish(s) PROVE Goal
  <2>1. subs' = subs \ {s} /\ UNCHANGED <<open, wire, synced, deaf>> /\ s.at = "sent"
    BY <1>10 DEF Vanish, linkVars, subVars
  <2>2. CutOff(b) => CutOff(b)'
    BY <2>1, CutStays DEF Asked
  <2> QED BY <2>1, <2>2, PromisedAlready
<1>11. ASSUME NEW c \in Clients, Select(c) PROVE Goal
  <2>1. UNCHANGED <<open, wire, synced, deaf>> /\ subs \subseteq subs'
    BY <1>11 DEF Select, Choose, Sync, linkVars
  <2>2. CutOff(b) => CutOff(b)'
    BY <2>1, CutStays DEF Asked
  <2> QED BY <2>1, <2>2, PromisedAlready
<1>12. ASSUME NEW c \in Clients, Deselect(c) PROVE Goal
  <2>1. UNCHANGED <<open, wire, synced, deaf>> /\ subs \subseteq subs'
    BY <1>12 DEF Deselect, Choose, Sync, linkVars
  <2>2. CutOff(b) => CutOff(b)'
    BY <2>1, CutStays DEF Asked
  <2> QED BY <2>1, <2>2, PromisedAlready
<1>13. ASSUME NEW c \in Clients, Answered(c) PROVE Goal
  <2>1. wire[c] # <<>> /\ Head(wire[c]).kind \in {"subscribe", "unsubscribe"} /\ UNCHANGED <<open, deaf>>
        /\ wire' = [wire EXCEPT ![c] = Tail(@)] /\ subs \subseteq subs'
        /\ synced' = [synced EXCEPT ![c] = Head(wire[c]).kind = "subscribe"]
    BY <1>13 DEF Answered, Sync, linkVars
  <2>2. wire[c] \in Seq(Messages) /\ wire'[c] = Tail(wire[c]) /\ synced'[c] = (Head(wire[c]).kind = "subscribe")
    BY <2>1 DEF TypeOK
  <2>3. CASE b = c
    <3>1. open[b] /\ Single(wire[b])
      BY <2>1, <2>3, WaitsForNothing DEF LinkOK
    <3>2. Kinds(wire'[b]) = {} /\ Kinds(wire[b]) = {Head(wire[b]).kind}
      BY <2>1, <2>2, <2>3, <3>1, AnswerIsTaken
    <3>3. Promised(b)' => Head(wire[b]).kind = "subscribe" /\ b \notin deaf
      BY <2>1, <2>2, <2>3, <3>2, PromisedIs DEF Promising
    <3> QED BY <3>1, <3>2, <3>3, PromisedIs DEF Promising
  <2>4. CASE b # c
    <3>1. wire'[b] = wire[b] /\ synced'[b] = synced[b]
      BY <2>1, <2>4 DEF TypeOK
    <3>2. CutOff(b) => CutOff(b)'
      BY <2>1, CutStays DEF Asked
    <3> QED BY <2>1, <3>1, <3>2, PromisedAlready
  <2> QED BY <2>3, <2>4
<1>14. ASSUME NEW c \in Clients, TimesOut(c) PROVE Goal
  <2> DEFINE mine == {s \in subs : s.client = c /\ s.live}
             late == {i \in DOMAIN wire[c] : wire[c][i].kind \in {"subscribe", "unsubscribe"}}
             kind == CHOOSE k \in {s.kind : s \in mine} \cup {wire[c][i].kind : i \in late} : TRUE
  <2>1. /\ open[c] /\ UNCHANGED open
        /\ subs' = (subs \ mine) \cup {GivenUp(s) : s \in mine}
        /\ wire' = [wire EXCEPT ![c] = IF late = {} THEN @ ELSE RemoveAt(@, CHOOSE i \in late : TRUE)]
        /\ synced' = [synced EXCEPT ![c] = kind = "unsubscribe"]
        /\ syncing[c]
    BY <1>14 DEF TimesOut, Failed, linkVars, GivenUp
  <2>2. IF kind = "unsubscribe" /\ ~\E s \in mine : s.at = "sent" THEN Deafened({c}) ELSE UNCHANGED deaf
    BY <1>14 DEF TimesOut
  <2>3. late = AnswersIn(wire[c]) /\ {wire[c][i].kind : i \in late} = Kinds(wire[c]) /\ mine = Asked(c)
    BY DEF AnswersIn, Kinds, Asked
  <2>4. \A s \in mine : GivenUp(s).client = c
    BY RequestIs, GivenUpIs
  <2>5. kind \in {s.kind : s \in mine} \cup Kinds(wire[c]) \/ (mine = {} /\ Kinds(wire[c]) = {})
    BY <2>3
  <2>6. b \in deaf => b \in deaf'
    BY <2>2 DEF Deafened
  <2> HIDE DEF mine, late, kind
  <2>7. CASE b = c
    <3>1. synced'[b] = (kind = "unsubscribe") /\ (late = {} => wire'[b] = wire[b])
      BY <2>1, <2>7 DEF TypeOK
    <3>2. SUFFICES ASSUME Promised(b)' PROVE Promised(b)
      OBVIOUS
    <3>3. open[b] /\ b \notin deaf /\ b \notin deaf'
      BY <2>1, <2>6, <2>7, <3>2, PromisedIs
    <3>4. Kinds(wire'[b]) = {}
      <4>1. Single(wire[c])
        BY <2>1, <2>7, WaitsForNothing
      <4>2. CASE late = {}
        BY <2>3, <2>7, <3>1, <4>2 DEF Kinds
      <4>3. CASE late # {}
        <5>1. PICK i \in late : wire'[b] = RemoveAt(wire[c], i)
          BY <2>1, <2>7, <4>3 DEF TypeOK
        <5>2. wire[c] \in Seq(Messages)
          BY DEF TypeOK
        <5> QED BY <2>3, <4>1, <5>1, <5>2, AnswerIsDropped
      <4> QED BY <4>2, <4>3
    <3>5. kind = "unsubscribe"
      BY <3>1, <3>2, <3>4, PromisedIs DEF Promising
    <3>6. PICK s \in mine : s.at = "sent"
      BY <2>2, <2>7, <3>3, <3>5 DEF Deafened
    <3>7. Kinds(wire[b]) = {} /\ mine = {s}
      BY <2>1, <2>3, <2>7, <3>6, WaitsForNothing
    <3>8. s.kind = "unsubscribe"
      BY <2>5, <2>7, <3>5, <3>7
    <3>9. synced[b]
      BY <2>1, <2>3, <2>7, <3>6, <3>8 DEF OneAnswer, Kind
    <3>10. ~CutOff(b)
      BY <2>3, <2>7, <3>6, <3>7 DEF CutOff
    <3> QED BY <3>3, <3>7, <3>9, <3>10, PromisedIs DEF Promising
  <2>8. CASE b # c
    <3>1. wire'[b] = wire[b] /\ synced'[b] = synced[b]
      BY <2>1, <2>8 DEF TypeOK
    <3>2. \A s \in Asked(b) : s \in subs'
      BY <2>1, <2>3, <2>8 DEF Asked
    <3>3. CutOff(b) => CutOff(b)'
      BY <3>2, CutStays
    <3> QED BY <2>1, <2>6, <3>1, <3>3, PromisedAlready
  <2> QED BY <2>7, <2>8
<1>15. ASSUME NEW c \in Clients, Retry(c) PROVE Goal
  <2>1. UNCHANGED <<open, wire, synced, deaf>> /\ subs \subseteq subs'
    BY <1>15 DEF Retry, Sync, linkVars
  <2>2. CutOff(b) => CutOff(b)'
    BY <2>1, CutStays DEF Asked
  <2> QED BY <2>1, <2>2, PromisedAlready
<1>16. ASSUME NEW c \in Clients, EventComes(c) PROVE Goal
  <2>1. /\ wire[c] # <<>> /\ Head(wire[c]).kind = "event" /\ wire' = [wire EXCEPT ![c] = Tail(@)]
        /\ UNCHANGED <<open, synced, subs, deaf>>
    BY <1>16 DEF EventComes, linkVars, subVars
  <2>2. wire[c] \in Seq(Messages) /\ wire'[c] = Tail(wire[c]) /\ (b # c => wire'[b] = wire[b])
    BY <2>1 DEF TypeOK
  <2>3. Kinds(wire'[b]) = Kinds(wire[b])
    BY <2>1, <2>2, NewsIsTaken
  <2>4. CutOff(b) => CutOff(b)'
    BY <2>1, CutStays DEF Asked
  <2> QED BY <2>1, <2>3, <2>4, PromisedAlready
<1>17. ASSUME NEW c \in Clients, Drop(c) PROVE Goal
  <2>1. Closed({c}) /\ {c} \in SUBSET Clients /\ UNCHANGED <<subs, deaf>>
    BY <1>17 DEF Drop
  <2>2. b # c => open'[b] = open[b] /\ synced'[b] = synced[b] /\ wire'[b] = wire[b]
    BY <2>1 DEF TypeOK, Closed
  <2>3. b = c => ~open'[b]
    BY <2>1, ClosedFor
  <2>4. CutOff(b) => CutOff(b)'
    BY <2>1, CutStays DEF Asked
  <2>5. CASE b = c
    BY <2>3, <2>5, PromisedIs
  <2>6. CASE b # c
    BY <2>1, <2>2, <2>4, <2>6, PromisedAlready
  <2> QED BY <2>5, <2>6
<1>18. ASSUME NEW c \in Clients, Resynced(c) PROVE Goal
  <2>1. Closed({c}) /\ {c} \in SUBSET Clients /\ UNCHANGED <<subs, deaf>>
    BY <1>18 DEF Resynced
  <2>2. b # c => open'[b] = open[b] /\ synced'[b] = synced[b] /\ wire'[b] = wire[b]
    BY <2>1 DEF TypeOK, Closed
  <2>3. b = c => ~open'[b]
    BY <2>1, ClosedFor
  <2>4. CutOff(b) => CutOff(b)'
    BY <2>1, CutStays DEF Asked
  <2>5. CASE b = c
    BY <2>3, <2>5, PromisedIs
  <2>6. CASE b # c
    BY <2>1, <2>2, <2>4, <2>6, PromisedAlready
  <2> QED BY <2>5, <2>6
<1>19. ASSUME NEW c \in Clients, Reconnect(c) PROVE Goal
  <2> DEFINE others == {IF s.client = c THEN [s EXCEPT !.live = FALSE] ELSE s : s \in subs}
  <2>1. /\ ~open[c] /\ open' = [open EXCEPT ![c] = TRUE] /\ UNCHANGED <<wire, synced>> /\ deaf' = deaf \ {c}
        /\ others \subseteq subs'
    BY <1>19 DEF Reconnect, Sync
  <2>2. CASE b = c
    <3>1. wire'[b] = <<>> /\ ~synced'[b]
      BY <2>1, <2>2 DEF LinkOK
    <3>2. Kinds(<<>>) = {}
      BY DEF Kinds, AnswersIn
    <3> QED BY <3>1, <3>2, PromisedIs DEF Promising
  <2>3. CASE b # c
    <3>1. \A s \in Asked(b) : s \in others
      BY <2>3 DEF Asked
    <3>2. CutOff(b) => CutOff(b)'
      BY <2>1, <3>1, CutStays
    <3>3. open'[b] = open[b]
      BY <2>1, <2>3 DEF TypeOK
    <3> QED BY <2>1, <2>3, <3>2, <3>3, PromisedAlready
  <2> QED BY <2>2, <2>3
<1>20. ASSUME Crash PROVE Goal
  <2>1. ~open'[b]
    BY <1>20, ClosedFor DEF Crash
  <2> QED BY <2>1, PromisedIs
<1>21. ASSUME UNCHANGED <<open, deaf, wire, synced, subs>> PROVE Goal
  BY <1>21 DEF Promised, Asked
<1>22. ASSUME
       Emit
      PROVE Goal
  BY <1>22, <1>21 DEF Emit, linkVars, subVars
<1>23. ASSUME NEW t \in Tasks, tasks[t] # NoTask,
       AbortLands(t)
      PROVE Goal
  BY <1>23, <1>21 DEF AbortLands, Undisturbed, linkVars, subVars
<1>24. ASSUME NEW cg \in served,
       Drain(cg[1], cg[2])
      PROVE Goal
  BY <1>24, <1>21 DEF Drain, linkVars, subVars
<1> SUFFICES Goal
  OBVIOUS
<1> HIDE DEF Goal
<1> QED BY <1>1, <1>2, <1>3, <1>4, <1>5, <1>6, <1>7, <1>8, <1>9, <1>10, <1>11, <1>12, <1>13,
           <1>14, <1>15, <1>16, <1>17, <1>18, <1>19, <1>20, <1>21, <1>22, <1>23, <1>24
     DEF Next, TaskStep, vars, relayVars, connVars, linkVars, subVars

-------------------------------------------------------------------------------
(* Who is promised its events is heard, and misses none.                   *)

\* A browser whose handle is put or taken listens, or is promised nothing.
LEMMA ServedHears ==
  ASSUME TypeOK, Requested, Next, NEW b \in Clients, OneAnswer(b), Served(b), Promised(b)'
  PROVE  Heard(b)'
<1>1. PICK s \in subs : s.client = b /\ s.gen = gen[b] /\ (Attach(s) \/ TakeHandle(s))
  BY DEF Served
<1>2. open'[b] /\ b \notin deaf' /\ Promising(Kinds(wire'[b]), synced'[b], CutOff(b)')
  BY PromisedIs
<1>3. CASE Attach(s)
  <2>1. s.arg = relay
    BY <1>1, <1>2, <1>3 DEF Attach, Deafened
  <2> DEFINE own == CHOOSE t \in Free : TRUE
             new == [at |-> "run", client |-> s.client, gen |-> s.gen, relay |-> s.arg, inbox |-> <<>>, lagged |-> FALSE,
                     held |-> {}, installed |-> TRUE, aborted |-> FALSE]
  <2>2. own \in Tasks
    BY <1>3 DEF Attach, Free
  <2>3. tasks'[own] = new /\ UNCHANGED <<relay, gen>>
    BY <1>3, <2>2 DEF Attach, relayVars, linkVars
  <2>4. s.arg \in Relays
    BY <1>3 DEF Attach, Requested, RequestOK
  <2>5. new \in TaskTypes
    BY <1>1, <2>4, RequestIs DEF TaskTypes
  <2>6. new # NoTask
    BY <2>5, TaskEdits
  <2>7. new.at = "run" /\ new.client = b /\ new.gen = gen[b] /\ new.relay = relay /\ new.installed = TRUE
    BY <1>1, <2>1
  <2> HIDE DEF own, new
  <2>8. own \in Installed(b, gen[b])'
    BY <2>2, <2>3, <2>6, <2>7 DEF Installed
  <2>9. Hears(tasks'[own], relay')
    BY <2>3, <2>6, <2>7 DEF Hears
  <2> QED BY <2>8, <2>9 DEF Heard
<1>4. CASE TakeHandle(s)
  <2>1. s.live
    BY <1>1, <1>2, <1>4 DEF TakeHandle, Deafened
  <2>2. s \in Asked(b) /\ open[b] /\ s.kind = "unsubscribe"
    BY <1>1, <1>2, <1>4, <2>1 DEF TakeHandle, Asked, linkVars
  <2>3. Kinds(wire[b]) = {} /\ Asked(b) = {s} /\ wire[b] \in Seq(Messages)
    BY <2>2, WaitsForNothing DEF TypeOK
  <2>4. \/ UNCHANGED wire /\ \E a : subs' = (subs \ {s}) \cup {Further(s, "removed", a)}
        \/ subs' = subs \ {s} /\ Answer(s)
    BY <1>4 DEF TakeHandle, Further
  <2>5. CASE UNCHANGED wire /\ \E a : subs' = (subs \ {s}) \cup {Further(s, "removed", a)}
    <3>1. PICK a : subs' = (subs \ {s}) \cup {Further(s, "removed", a)}
      BY <2>5
    <3>2. Further(s, "removed", a) \in Asked(b)'
      BY <2>2, <3>1, AskedFurther
    <3>3. Further(s, "removed", a).at = "removed"
      BY RequestIs, FurtherIs
    <3>4. CutOff(b)'
      BY <3>2, <3>3 DEF CutOff
    <3>5. "subscribe" \notin Kinds(wire'[b])
      BY <2>3, <2>5
    <3> QED BY <3>4, <3>5, NotPromised
  <2>6. CASE subs' = subs \ {s} /\ Answer(s)
    <3>1. wire'[b] = Append(wire[b], [kind |-> "unsubscribe"]) /\ [kind |-> "unsubscribe"] \in Messages
      BY <1>1, <2>1, <2>2, <2>6, AnsweredOn DEF Alive
    <3>2. Kinds(wire'[b]) = {"unsubscribe"}
      BY <2>3, <3>1, AnswerIsAdded
    <3> QED BY <3>2, NotPromised
  <2> QED BY <2>4, <2>5, <2>6
<1> QED BY <1>1, <1>3, <1>4

\* An installed task that goes on is still that of its browser.
LEMMA MovedStays ==
  ASSUME NEW b \in Clients, NEW k \in Tasks, k \in Installed(b, gen[b]), gen'[b] = gen[b], Moved(k, b)
  PROVE  /\ k \in Installed(b, gen[b])'
         /\ Warns(k, b) => Warns(k, b)'
         /\ Listens(k, b) /\ relay' = relay => Listens(k, b)'
         /\ \A n : Carries(k, b, n) => Carries(k, b, n)' \/ Warns(k, b)' \/ Brings(wire'[b], n)
<1>1. k \in Installed(b, gen[b])'
  BY DEF Moved, Installed, SameTask
<1>2. Warns(k, b) => Warns(k, b)'
  BY <1>1 DEF Moved, Warns
<1>3. Listens(k, b) /\ relay' = relay => Listens(k, b)'
  BY <1>1 DEF Moved, Listens, Hears, SameTask
<1>4. \A n : Carries(k, b, n) => Carries(k, b, n)' \/ Warns(k, b)' \/ Brings(wire'[b], n)
  BY <1>1 DEF Moved, Carries, Warns
<1> QED BY <1>1, <1>2, <1>3, <1>4

\* A task that is leaving neither warns nor listens, and carries nothing.
LEMMA LeavingIs ==
  ASSUME NEW b \in Clients, NEW k \in Tasks, TaskOK(k), k \in Installed(b, gen[b]), tasks[k].at = "leaving"
  PROVE  ~Warns(k, b) /\ ~Listens(k, b) /\ \A n : ~Carries(k, b, n)
<1>1. tasks[k].inbox = <<>> /\ ~tasks[k].lagged /\ tasks[k].held = {}
  BY DEF TaskOK, Installed
<1>2. ToSet(<<>>) = {}
  BY DEF ToSet
<1> QED BY <1>1, <1>2 DEF Warns, Listens, Carries, Hears

\* The warning a browser has stays until it is no longer owed.
LEMMA WarningStays ==
  ASSUME TypeOK, Requested, Next, NEW b \in Clients, \A u \in Tasks : TaskOK(u), LinkOK(b), open[b], ~Lost(b), ToldToResync(b)
  PROVE  ToldToResync(b)'
<1>1. gen'[b] = gen[b] /\ open'[b]
  BY GenStays DEF Lost
<1>2. CASE Warned(wire[b])
  <2>1. Resync.kind = "resync"
    BY DEF Resync
  <2>2. Warned(wire'[b])
    BY <1>1, <1>2, <2>1, NewsStays DEF Warned
  <2> QED BY <2>2, ToldIs
<1>3. ASSUME NEW k \in Tasks, Warns(k, b) PROVE ToldToResync(b)'
  <2>1. k \in Installed(b, gen[b])
    BY <1>3 DEF Warns
  <2>2. Warned(wire'[b]) \/ tasks[k].at = "leaving" \/ Moved(k, b)
    BY <2>1, Passing
  <2>3. Warned(wire'[b]) \/ Warns(k, b)'
    BY <1>1, <1>3, <2>1, <2>2, LeavingIs, MovedStays
  <2> QED BY <2>3, ToldIs
<1> QED BY <1>2, <1>3, ToldIs

\* A browser that is promised its events is heard, after every step.
LEMMA HeardStepOK ==
  ASSUME TypeOK, Requested, Next, NEW b \in Clients, \A u \in Tasks : TaskOK(u), LinkOK(b), OneAnswer(b),
         Promised(b) => Heard(b), Promised(b)'
  PROVE  Heard(b)'
<1>1. CASE Served(b)
  BY <1>1, ServedHears
<1>2. CASE ~Served(b)
  <2>1. Promised(b) /\ Heard(b)
    BY <1>2, PromisedBefore
  <2>2. open[b] /\ ~Lost(b)
    BY <1>2, <2>1, PromisedIs DEF Lost, Undone
  <2>3. gen'[b] = gen[b]
    BY <2>2, GenStays
  <2>4. CASE ToldToResync(b)
    <3>1. ToldToResync(b)'
      BY <2>2, <2>4, WarningStays
    <3> QED BY <3>1 DEF Heard
  <2>5. ASSUME NEW k \in Tasks, Listens(k, b) PROVE Heard(b)'
    <3>1. k \in Installed(b, gen[b])
      BY <2>5 DEF Listens
    <3>2. Warned(wire'[b]) \/ tasks[k].at = "leaving" \/ Moved(k, b)
      BY <2>2, <3>1, Passing
    <3>3. relay' = relay
      BY <2>2, <2>5, RelayStays
    <3>4. Warned(wire'[b]) \/ Listens(k, b)'
      BY <2>3, <2>5, <3>1, <3>2, <3>3, LeavingIs, MovedStays
    <3> QED BY <3>4, HeardIs
  <2> QED BY <2>1, <2>4, <2>5, HeardIs, ToldIs
<1> QED BY <1>1, <1>2

\* A browser that is owed something keeps holding its subscription.
LEMMA HoldsStays ==
  ASSUME TypeOK, Requested, Next, NEW b \in Clients, OneAnswer(b), LinkOK(b), Holds(b), owed'[b] # {}
  PROVE  Holds(b)'
<1> DEFINE Goal == Holds(b)'
<1>1. ASSUME NEW t \in Tasks, tasks[t] # NoTask, Leave(t) PROVE Goal
  <2>1. Prune(0, t) /\ UNCHANGED <<open, wants, synced, syncing>>
    BY <1>1 DEF Leave, subVars, linkVars
  <2>2. b \in deaf => b \in deaf' /\ b \in deaf
    BY <2>1, DeafStays
  <2>3. UNCHANGED deaf \/ Deafened(Audience(relay, t))
    BY <2>1 DEF Prune
  <2>4. b \notin deaf'
    BY <2>3, DeafenedIs DEF Undone, Holds
  <2> QED BY <2>1, <2>4 DEF Holds
<1>2. ASSUME NEW s \in subs, Attach(s) PROVE Goal
  <2>1. UNCHANGED <<open, wants, synced, syncing>>
    BY <1>2 DEF Attach, subVars, linkVars
  <2>2. deaf' \subseteq deaf \/ Deafened({s.client})
    BY <1>2 DEF Attach
  <2>3. b \notin deaf'
    BY <2>2, DeafenedIs DEF Undone, Holds
  <2> QED BY <2>1, <2>3 DEF Holds
<1>3. ASSUME NEW s \in subs, TakeHandle(s) PROVE Goal
  <2>1. UNCHANGED <<open, wants, synced, syncing>>
    BY <1>3 DEF TakeHandle, subVars, linkVars
  <2>2. deaf' \subseteq deaf \/ Deafened({s.client})
    BY <1>3 DEF TakeHandle
  <2>3. b \notin deaf'
    BY <2>2, DeafenedIs DEF Undone, Holds
  <2> QED BY <2>1, <2>3 DEF Holds
<1>4. ASSUME NEW s \in subs, PruneAndAbort(s) PROVE Goal
  <2>1. Prune(1, s.arg) /\ UNCHANGED <<open, wants, synced, syncing>>
    BY <1>4 DEF PruneAndAbort, subVars, linkVars
  <2>2. b \in deaf => b \in deaf' /\ b \in deaf
    BY <2>1, DeafStays
  <2>3. UNCHANGED deaf \/ Deafened(Audience(relay, s.arg))
    BY <2>1 DEF Prune
  <2>4. b \notin deaf'
    BY <2>3, DeafenedIs DEF Undone, Holds
  <2> QED BY <2>1, <2>4 DEF Holds
<1>5. ASSUME NEW s \in subs, Refused(s) PROVE Goal
  <2>1. /\ s.live /\ open[s.client] /\ UNCHANGED <<open, wants, deaf>> /\ s.client \in Clients
        /\ synced' = [synced EXCEPT ![s.client] = s.kind = "unsubscribe"] /\ syncing' = [syncing EXCEPT ![s.client] = FALSE]
    BY <1>5, RequestIs DEF Refused, Failed, Alive, linkVars
  <2>2. b # s.client
    BY <2>1, WaitsForNothing DEF Holds, Asked
  <2>3. synced'[b] = synced[b] /\ syncing'[b] = syncing[b]
    BY <2>1, <2>2 DEF TypeOK
  <2> QED BY <2>1, <2>3 DEF Holds
<1>6. ASSUME NEW c \in Clients, Select(c) PROVE Goal
  <2>1. owed' = [owed EXCEPT ![c] = {}] /\ wants' = [wants EXCEPT ![c] = wants'[c]] /\ UNCHANGED <<open, synced, deaf>>
        /\ (syncing' = syncing \/ \E x : syncing' = [syncing EXCEPT ![c] = x])
    BY <1>6 DEF Select, Choose, Sync, linkVars, TypeOK
  <2>2. b # c
    BY <2>1 DEF TypeOK
  <2>3. wants'[b] = wants[b] /\ syncing'[b] = syncing[b]
    BY <2>1, <2>2 DEF TypeOK
  <2> QED BY <2>1, <2>3 DEF Holds
<1>7. ASSUME NEW c \in Clients, Deselect(c) PROVE Goal
  <2>1. owed' = [owed EXCEPT ![c] = {}] /\ wants' = [wants EXCEPT ![c] = wants'[c]] /\ UNCHANGED <<open, synced, deaf>>
        /\ (syncing' = syncing \/ \E x : syncing' = [syncing EXCEPT ![c] = x])
    BY <1>7 DEF Deselect, Choose, Sync, linkVars, TypeOK
  <2>2. b # c
    BY <2>1 DEF TypeOK
  <2>3. wants'[b] = wants[b] /\ syncing'[b] = syncing[b]
    BY <2>1, <2>2 DEF TypeOK
  <2> QED BY <2>1, <2>3 DEF Holds
<1>8. ASSUME NEW c \in Clients, Answered(c) PROVE Goal
  <2>1. wire[c] # <<>> /\ Head(wire[c]).kind \in {"subscribe", "unsubscribe"} /\ UNCHANGED <<open, wants, deaf>>
        /\ synced' = [synced EXCEPT ![c] = Head(wire[c]).kind = "subscribe"]
        /\ syncing' = [syncing EXCEPT ![c] = wants[c] # synced'[c]]
    BY <1>8 DEF Answered, linkVars, Sync
  <2>2. wire[c] \in Seq(Messages)
    BY DEF TypeOK
  <2>3. b # c
    <3>1. Kinds(wire[b]) = {} /\ Single(wire[b])
      BY WaitsForNothing DEF Holds
    <3>2. b = c => Kinds(wire[b]) = {Head(wire[b]).kind}
      BY <2>1, <2>2, <3>1, AnswerIsTaken
    <3> QED BY <3>1, <3>2
  <2>4. synced'[b] = synced[b] /\ syncing'[b] = syncing[b]
    BY <2>1, <2>3 DEF TypeOK
  <2> QED BY <2>1, <2>4 DEF Holds
<1>9. ASSUME NEW c \in Clients, TimesOut(c) PROVE Goal
  <2>1. /\ syncing[c] /\ UNCHANGED <<open, wants>> /\ (UNCHANGED deaf \/ Deafened({c}))
        /\ (\E x : synced' = [synced EXCEPT ![c] = x]) /\ syncing' = [syncing EXCEPT ![c] = FALSE]
    BY <1>9 DEF TimesOut, Failed, linkVars
  <2>2. b # c
    BY <2>1 DEF Holds
  <2>3. synced'[b] = synced[b] /\ syncing'[b] = syncing[b] /\ b \notin deaf'
    BY <2>1, <2>2, DeafenedIs DEF TypeOK, Holds
  <2> QED BY <2>1, <2>3 DEF Holds
<1>10. ASSUME NEW c \in Clients, Retry(c) PROVE Goal
  <2>1. UNCHANGED <<open, wants, synced, deaf>> /\ syncing' = [syncing EXCEPT ![c] = wants[c] # synced[c]]
    BY <1>10 DEF Retry, Sync, linkVars
  <2>2. b = c => ~(wants[c] # synced[c])
    BY DEF Holds, TypeOK
  <2>3. ~syncing'[b]
    BY <2>1, <2>2 DEF Holds, TypeOK
  <2> QED BY <2>1, <2>3 DEF Holds
<1>11. ASSUME NEW c \in Clients, Drop(c) PROVE Goal
  <2>1. Closed({c}) /\ UNCHANGED <<wants, syncing, deaf>> /\ {c} \in SUBSET Clients
    BY <1>11 DEF Drop
  <2>2. b \notin {c}
    BY <2>1, ClosedFor
  <2>3. open'[b] = open[b] /\ synced'[b] = synced[b]
    BY <2>1, <2>2 DEF TypeOK, Closed
  <2> QED BY <2>1, <2>3 DEF Holds
<1>12. ASSUME NEW c \in Clients, Resynced(c) PROVE Goal
  <2>1. Closed({c}) /\ UNCHANGED <<wants, syncing, deaf>> /\ {c} \in SUBSET Clients
    BY <1>12 DEF Resynced
  <2>2. b \notin {c}
    BY <2>1, ClosedFor
  <2>3. open'[b] = open[b] /\ synced'[b] = synced[b]
    BY <2>1, <2>2 DEF TypeOK, Closed
  <2> QED BY <2>1, <2>3 DEF Holds
<1>13. ASSUME NEW c \in Clients, Reconnect(c) PROVE Goal
  <2>1. /\ ~open[c] /\ open' = [open EXCEPT ![c] = TRUE] /\ UNCHANGED <<wants, synced>> /\ deaf' = deaf \ {c}
        /\ \E x : syncing' = [syncing EXCEPT ![c] = x]
    BY <1>13 DEF Reconnect, Sync
  <2>2. b # c
    BY <2>1 DEF Holds
  <2>3. syncing'[b] = syncing[b] /\ open'[b] = open[b]
    BY <2>1, <2>2 DEF TypeOK
  <2> QED BY <2>1, <2>3 DEF Holds
<1>14. ASSUME Crash PROVE Goal
  <2>1. Closed(Clients) /\ UNCHANGED <<wants, syncing, deaf>> /\ Clients \in SUBSET Clients
    BY <1>14 DEF Crash
  <2>2. b \notin Clients
    BY <2>1, ClosedFor
  <2>3. open'[b] = open[b] /\ synced'[b] = synced[b]
    BY <2>1, <2>2 DEF TypeOK, Closed
  <2> QED BY <2>1, <2>3 DEF Holds
<1>15. ASSUME UNCHANGED <<open, wants, synced, syncing, deaf>> PROVE Goal
  BY <1>15 DEF Holds
<1>16. ASSUME
       Emit
      PROVE Goal
  BY <1>16, <1>15 DEF Emit, linkVars, subVars
<1>17. ASSUME NEW t \in Tasks, tasks[t] # NoTask,
       Receive(t) \/ Flush(t) \/ StopListening(t) \/ AbortLands(t)
      PROVE Goal
  BY <1>17, <1>15 DEF Receive, Sends, Undisturbed, linkVars, subVars, Flush, StopListening,
                      AbortLands
<1>18. ASSUME NEW cg \in served,
       Drain(cg[1], cg[2])
      PROVE Goal
  BY <1>18, <1>15 DEF Drain, linkVars, subVars
<1>19. ASSUME NEW s \in subs,
       Ensure(s) \/ Vanish(s)
      PROVE Goal
  BY <1>19, <1>15 DEF Ensure, linkVars, subVars, Vanish
<1>20. ASSUME NEW c \in Clients,
       EventComes(c)
      PROVE Goal
  BY <1>20, <1>15 DEF EventComes, linkVars, subVars
<1> SUFFICES Goal
  OBVIOUS
<1> HIDE DEF Goal
<1> QED BY <1>1, <1>2, <1>3, <1>4, <1>5, <1>6, <1>7, <1>8, <1>9, <1>10, <1>11, <1>12, <1>13,
           <1>14, <1>15, <1>16, <1>17, <1>18, <1>19, <1>20
     DEF Next, TaskStep, vars, relayVars, connVars, linkVars, subVars

\* What a browser is owed it was owed before, or it was sent just now.
LEMMA OwedBefore ==
  ASSUME TypeOK, Requested, Next, NEW b \in Clients, NEW n, n \in owed'[b]
  PROVE  (n \in owed[b] \/ (Emit /\ Holds(b) /\ n = sent'))
<1> DEFINE Goal == (n \in owed[b] \/ (Emit /\ Holds(b) /\ n = sent'))
<1>1. ASSUME NEW t \in Tasks, tasks[t] # NoTask, Leave(t) PROVE Goal
  <2>1. Prune(0, t)
    BY <1>1 DEF Leave
  <2>2. UNCHANGED owed \/ Deafened(Audience(relay, t))
    BY <2>1 DEF Prune
  <2> QED BY <2>2, DeafenedIs DEF Undone
<1>2. ASSUME NEW s \in subs, Attach(s) PROVE Goal
  <2>1. UNCHANGED owed \/ Deafened({s.client}) \/ owed' = [owed EXCEPT ![s.client] = {}]
    BY <1>2 DEF Attach
  <2> QED BY <2>1, DeafenedIs DEF Undone, TypeOK
<1>3. ASSUME NEW s \in subs, TakeHandle(s) PROVE Goal
  <2>1. UNCHANGED owed \/ Deafened({s.client}) \/ owed' = [owed EXCEPT ![s.client] = {}]
    BY <1>3 DEF TakeHandle
  <2> QED BY <2>1, DeafenedIs DEF Undone, TypeOK
<1>4. ASSUME NEW s \in subs, PruneAndAbort(s) PROVE Goal
  <2>1. Prune(1, s.arg)
    BY <1>4 DEF PruneAndAbort
  <2>2. UNCHANGED owed \/ Deafened(Audience(relay, s.arg))
    BY <2>1 DEF Prune
  <2> QED BY <2>2, DeafenedIs DEF Undone
<1>5. ASSUME NEW c \in Clients, Select(c) PROVE Goal
  <2>1. owed' = [owed EXCEPT ![c] = {}]
    BY <1>5 DEF Select, Choose
  <2> QED BY <2>1 DEF TypeOK
<1>6. ASSUME NEW c \in Clients, Deselect(c) PROVE Goal
  <2>1. owed' = [owed EXCEPT ![c] = {}]
    BY <1>6 DEF Deselect, Choose
  <2> QED BY <2>1 DEF TypeOK
<1>7. ASSUME NEW c \in Clients, TimesOut(c) PROVE Goal
  <2>1. UNCHANGED owed \/ Deafened({c})
    BY <1>7 DEF TimesOut
  <2> QED BY <2>1, DeafenedIs DEF Undone
<1>8. ASSUME NEW c \in Clients, EventComes(c) PROVE Goal
  <2>1. owed' = [owed EXCEPT ![c] = @ \ Head(wire[c]).has]
    BY <1>8 DEF EventComes
  <2> QED BY <2>1 DEF TypeOK
<1>9. ASSUME NEW c \in Clients, Drop(c) PROVE Goal
  <2>1. Closed({c}) /\ {c} \in SUBSET Clients
    BY <1>9 DEF Drop
  <2>2. owed'[b] = (IF b \in {c} THEN {} ELSE owed[b])
    BY <2>1, ClosedFor
  <2> QED BY <2>2
<1>10. ASSUME NEW c \in Clients, Resynced(c) PROVE Goal
  <2>1. Closed({c}) /\ {c} \in SUBSET Clients
    BY <1>10 DEF Resynced
  <2>2. owed'[b] = (IF b \in {c} THEN {} ELSE owed[b])
    BY <2>1, ClosedFor
  <2> QED BY <2>2
<1>11. ASSUME Emit PROVE Goal
  <2>1. owed'[b] = IF Holds(b) THEN owed[b] \cup {sent'} ELSE owed[b]
    BY <1>11 DEF Emit
  <2> QED BY <1>11, <2>1
<1>12. ASSUME Crash PROVE Goal
  <2>1. Closed(Clients) /\ Clients \in SUBSET Clients
    BY <1>12 DEF Crash
  <2>2. owed'[b] = (IF b \in Clients THEN {} ELSE owed[b])
    BY <2>1, ClosedFor
  <2> QED BY <2>2
<1>13. ASSUME UNCHANGED owed PROVE Goal
  BY <1>13 DEF TypeOK
<1>14. ASSUME NEW t \in Tasks, tasks[t] # NoTask,
       Receive(t) \/ Flush(t) \/ StopListening(t) \/ AbortLands(t)
      PROVE Goal
  BY <1>14, <1>13 DEF Receive, Sends, Undisturbed, Flush, StopListening, AbortLands
<1>15. ASSUME NEW cg \in served,
       Drain(cg[1], cg[2])
      PROVE Goal
  BY <1>15, <1>13 DEF Drain
<1>16. ASSUME NEW s \in subs,
       Ensure(s) \/ Refused(s) \/ Vanish(s)
      PROVE Goal
  BY <1>16, <1>13 DEF Ensure, Refused, Fault, Failed, Vanish
<1>17. ASSUME NEW c \in Clients,
       Answered(c) \/ Retry(c) \/ Reconnect(c)
      PROVE Goal
  BY <1>17, <1>13 DEF Answered, Sync, Retry, Reconnect
<1> SUFFICES Goal
  OBVIOUS
<1> HIDE DEF Goal
<1> QED BY <1>1, <1>2, <1>3, <1>4, <1>5, <1>6, <1>7, <1>8, <1>9, <1>10, <1>11, <1>12, <1>13,
           <1>14, <1>15, <1>16, <1>17
     DEF Next, TaskStep, vars, relayVars, connVars, linkVars, subVars

\* When the handle is put or taken behind its back, a browser is owed nothing.
LEMMA ServedOwesNothing ==
  ASSUME TypeOK, Requested, Next, NEW b \in Clients, Served(b), Asked(b) = {}
  PROVE  owed'[b] = {}
<1>1. PICK s \in subs : s.client = b /\ s.gen = gen[b] /\ (Attach(s) \/ TakeHandle(s))
  BY DEF Served
<1>2. ~s.live
  BY <1>1 DEF Asked
<1>3. Deafened({b}) \/ owed' = [owed EXCEPT ![b] = {}]
  BY <1>1, <1>2 DEF Attach, TakeHandle
<1> QED BY <1>3, DeafenedIs DEF Undone, TypeOK

\* A browser that holds its subscription is promised its events.
LEMMA HoldsIsPromised ==
  ASSUME NEW b \in Clients, OneAnswer(b), Holds(b)
  PROVE  Promised(b) /\ Asked(b) = {}
<1>1. Asked(b) = {} /\ Kinds(wire[b]) = {}
  BY WaitsForNothing DEF Holds
<1> QED BY <1>1 DEF Promised, Holds

\* The event just sent is with the task that listens.
LEMMA SentIsCarried ==
  ASSUME TypeOK, Requested, Emit, NEW b \in Clients, NEW k \in Tasks, Listens(k, b)
  PROVE  Carries(k, b, sent)' \/ Warns(k, b)'
<1>1. tasks'[k] = Push(tasks[k], sent') /\ UNCHANGED gen /\ sent' \in Numbers
  BY RelayConstants DEF Emit, Listens, linkVars, TypeOK, Numbers
<1>2. tasks[k] \in TaskTypes /\ tasks[k].installed /\ tasks[k].client = b /\ tasks[k].gen = gen[b]
  BY TaskIs DEF Listens, Installed
<1> DEFINE j == Push(tasks[k], sent')
<1>3. /\ SameTask(j, tasks[k]) /\ SameHandle(j, tasks[k])
      /\ \/ j.inbox = Append(tasks[k].inbox, sent')
         \/ j.lagged = TRUE
  BY <1>1, <1>2, PushedIs
<1>4. j # NoTask
  BY <1>1, <1>2, TaskGets, TaskEdits
<1>5. sent' \in ToSet(Append(tasks[k].inbox, sent'))
  <2>1. tasks[k].inbox \in Seq(Numbers)
    BY <1>2 DEF TaskTypes
  <2>2. ToSet(Append(tasks[k].inbox, sent')) = ToSet(tasks[k].inbox) \cup {sent'}
    BY <1>1, <2>1, Appended
  <2> QED BY <2>2
<1> HIDE DEF j
<1>6. tasks'[k] = j
  BY <1>1 DEF j
<1>7. k \in Installed(b, gen[b])'
  BY <1>1, <1>2, <1>3, <1>4, <1>6 DEF Installed, SameTask, SameHandle
<1> QED BY <1>3, <1>5, <1>6, <1>7 DEF Carries, Warns

\* What one browser is owed is on its way to it.
Owing(b) == \A n \in owed[b] : Coming(b, n) \/ ToldToResync(b)

\* What a browser is owed is on its way, after every step, and it holds its
\* subscription.
LEMMA OwingStepOK ==
  ASSUME TypeOK, Requested, Next, NEW b \in Clients, \A u \in Tasks : TaskOK(u), LinkOK(b), OneAnswer(b),
         Promised(b) => Heard(b), owed[b] # {} => Holds(b), Owing(b)
  PROVE  /\ owed'[b] # {} => Holds(b)'
         /\ Owing(b)'
<1>1. ASSUME NEW n, n \in owed'[b] PROVE Holds(b) /\ Holds(b)' /\ open[b] /\ ~Lost(b) /\ Promised(b) /\ gen'[b] = gen[b]
  <2>1. Holds(b)
    BY <1>1, OwedBefore
  <2>2. Holds(b)'
    BY <1>1, <2>1, HoldsStays
  <2>3. Promised(b) /\ Asked(b) = {} /\ open[b]
    BY <2>1, HoldsIsPromised DEF Holds
  <2>4. ~Served(b)
    BY <1>1, <2>3, ServedOwesNothing
  <2>5. ~Lost(b)
    BY <1>1, <2>2, <2>4 DEF Lost, Undone, Holds
  <2> QED BY <2>1, <2>2, <2>3, <2>5, GenStays
<1>2. ASSUME NEW n, n \in owed'[b] PROVE Coming(b, n)' \/ ToldToResync(b)'
  <2>1. Holds(b) /\ open[b] /\ ~Lost(b) /\ Promised(b) /\ gen'[b] = gen[b]
    BY <1>1, <1>2
  <2>2. ToldToResync(b) => ToldToResync(b)'
    BY <2>1, WarningStays
  <2>3. CASE Emit /\ n = sent'
    <3>1. ToldToResync(b) \/ \E k \in Tasks : Listens(k, b)
      BY <2>1, HeardIs, ToldIs
    <3>2. ASSUME NEW k \in Tasks, Listens(k, b) PROVE Coming(b, n)' \/ ToldToResync(b)'
      <4>1. Carries(k, b, sent)' \/ Warns(k, b)'
        BY <2>3, <3>2, SentIsCarried
      <4>2. Carries(k, b, n)' \/ Warns(k, b)'
        BY <2>3, <4>1 DEF Carries
      <4>3. (Carries(k, b, n))' => Coming(b, n)'
        BY ComingIs
      <4>4. Warns(k, b)' => ToldToResync(b)'
        BY ToldIs
      <4> QED BY <4>2, <4>3, <4>4
    <3> QED BY <2>2, <3>1, <3>2
  <2>4. CASE n \in owed[b]
    <3>1. Coming(b, n) \/ ToldToResync(b)
      BY <2>4 DEF Owing
    <3>2. CASE Brings(wire[b], n)
      <4>1. PICK m \in ToSet(wire[b]) : m.kind = "event" /\ n \in m.has
        BY <3>2 DEF Brings
      <4>2. open'[b]
        BY <2>1 DEF Lost
      <4>3. m \in ToSet(wire'[b])
        BY <1>2, <4>1, <4>2, NewsStays
      <4>4. Brings(wire'[b], n)
        BY <4>1, <4>3 DEF Brings
      <4> QED BY <4>4, ComingIs
    <3>3. ASSUME NEW k \in Tasks, Carries(k, b, n) PROVE Coming(b, n)' \/ ToldToResync(b)'
      <4>1. k \in Installed(b, gen[b])
        BY <3>3 DEF Carries
      <4>2. Warned(wire'[b]) \/ tasks[k].at = "leaving" \/ Moved(k, b)
        BY <2>1, <4>1, Passing
      <4>3. Warned(wire'[b]) \/ Carries(k, b, n)' \/ Warns(k, b)' \/ Brings(wire'[b], n)
        BY <2>1, <3>3, <4>1, <4>2, LeavingIs, MovedStays
      <4>4. (Carries(k, b, n)' \/ Brings(wire'[b], n)) => Coming(b, n)'
        BY ComingIs
      <4>5. (Warns(k, b)' \/ Warned(wire'[b])) => ToldToResync(b)'
        BY ToldIs
      <4> QED BY <4>3, <4>4, <4>5
    <3> QED BY <2>2, <3>1, <3>2, <3>3, ComingIs
  <2> QED BY <1>2, <2>3, <2>4, OwedBefore
<1>3. owed'[b] # {} => Holds(b)'
  BY <1>1
<1>4. Owing(b)'
  BY <1>2 DEF Owing
<1> QED BY <1>3, <1>4

-------------------------------------------------------------------------------
(* The invariant.                                                          *)

IInv ==
  /\ TypeOK
  /\ Requested
  /\ \A t \in Tasks : TaskOK(t)
  /\ \A c \in Clients :
       /\ LinkOK(c)
       /\ OneAnswer(c)
       /\ Promised(c) => Heard(c)
       /\ owed[c] # {} => Holds(c)
       /\ Owing(c)

\* The invariant holds at first.
LEMMA InvStart ==
  ASSUME Init
  PROVE  IInv
<1>1. TypeOK /\ Requested
  BY TypingStart
<1>2. \A t \in Tasks : TaskOK(t)
  BY DEF Init, TaskOK
<1>3. ASSUME NEW c \in Clients
      PROVE  /\ wire[c] = <<>> /\ synced[c] = FALSE /\ syncing[c] = FALSE /\ owed[c] = {} /\ subs = {}
             /\ open[c] /\ <<c, gen[c]>> \in served
  BY DEF Init
<1>4. Kinds(<<>>) = {} /\ Single(<<>>)
  BY DEF Kinds, Single, AnswersIn
<1>5. ASSUME NEW c \in Clients
      PROVE  LinkOK(c) /\ OneAnswer(c) /\ ~Promised(c) /\ owed[c] = {} /\ Owing(c)
  <2>1. Asked(c) = {}
    BY <1>3 DEF Asked
  <2>2. OneAnswer(c)
    BY <1>3, <1>4, <2>1 DEF OneAnswer
  <2>3. ~Promised(c)
    BY <1>3, <1>4 DEF Promised
  <2>4. LinkOK(c)
    BY <1>3 DEF LinkOK
  <2> QED BY <1>3, <2>2, <2>3, <2>4 DEF Owing
<1> QED BY <1>1, <1>2, <1>5, Zenon DEF IInv

\* The invariant is kept.
LEMMA InvStep ==
  ASSUME IInv, [Next]_vars
  PROVE  IInv'
<1>1. CASE Next
  <2>1. TypeOK' /\ Requested'
    BY <1>1, TypingStep, RequestsStepOK, Zenon DEF IInv
  <2>2. ASSUME NEW t \in Tasks PROVE TaskOK(t)'
    BY <1>1, TaskStepOK, Zenon DEF IInv
  <2>3. ASSUME NEW c \in Clients
        PROVE  LinkOK(c)' /\ OneAnswer(c)' /\ (Promised(c)' => Heard(c)') /\ (owed'[c] # {} => Holds(c)') /\ Owing(c)'
    <3>1. /\ TypeOK /\ Requested /\ (\A u \in Tasks : TaskOK(u)) /\ LinkOK(c) /\ OneAnswer(c)
          /\ (Promised(c) => Heard(c)) /\ (owed[c] # {} => Holds(c)) /\ Owing(c)
      BY Zenon DEF IInv
    <3>2. open'[c] => <<c, gen'[c]>> \in served'
      BY <1>1, <3>1, LinkServed
    <3>3. ~open'[c] => ~synced'[c] /\ wire'[c] = <<>>
      BY <1>1, <3>1, LinkQuiet
    <3>4. OneAnswer(c)'
      BY <1>1, <3>1, AnswersStepOK
    <3>5. Promised(c)' => Heard(c)'
      BY <1>1, <3>1, HeardStepOK
    <3>6. (owed'[c] # {} => Holds(c)') /\ Owing(c)'
      BY <1>1, <3>1, OwingStepOK
    <3> QED BY <3>2, <3>3, <3>4, <3>5, <3>6, Zenon DEF LinkOK
  <2> QED BY <2>1, <2>2, <2>3, Zenon DEF IInv
<1>2. CASE UNCHANGED vars
  <2>1. UNCHANGED <<sent, relay, made, tasks, served, spent>> /\ UNCHANGED <<subs, wire, open, gen, wants, synced>>
        /\ UNCHANGED <<syncing, retry, views, owed, deaf, faults>>
    BY <1>2 DEF vars, relayVars, connVars, linkVars, subVars
  <2>2. TypeOK'
    BY TypingStep DEF IInv
  <2>3. Requested'
    BY <2>1 DEF IInv, Requested, RequestOK
  <2>4. \A t \in Tasks : TaskOK(t)'
    BY <2>1 DEF IInv, TaskOK
  <2>5. ASSUME NEW c \in Clients
        PROVE  /\ LinkOK(c)' <=> LinkOK(c)
               /\ OneAnswer(c)' <=> OneAnswer(c)
               /\ Promised(c)' <=> Promised(c)
               /\ Heard(c)' <=> Heard(c)
               /\ Holds(c)' <=> Holds(c)
               /\ Owing(c)' <=> Owing(c)
    <3>1. Asked(c)' = Asked(c)
      BY <2>1 DEF Asked
    <3>2. ToldToResync(c)' <=> ToldToResync(c)
      BY <2>1 DEF ToldToResync, Installed
    <3>3. \A n : Coming(c, n)' <=> Coming(c, n)
      BY <2>1 DEF Coming, Installed
    <3>4. Heard(c)' <=> Heard(c)
      BY <2>1, <3>2 DEF Heard, Installed
    <3>5. Owing(c)' <=> Owing(c)
      BY <2>1, <3>2, <3>3 DEF Owing
    <3>6. LinkOK(c)' <=> LinkOK(c)
      BY <2>1 DEF LinkOK
    <3>7. OneAnswer(c)' <=> OneAnswer(c)
      BY <2>1, <3>1 DEF OneAnswer, Kind
    <3>8. Promised(c)' <=> Promised(c)
      BY <2>1, <3>1 DEF Promised
    <3>9. Holds(c)' <=> Holds(c)
      BY <2>1 DEF Holds
    <3> QED BY <3>4, <3>5, <3>6, <3>7, <3>8, <3>9
  <2>6. UNCHANGED owed
    BY <2>1
  <2> QED BY <2>2, <2>3, <2>4, <2>5, <2>6, Zenon DEF IInv
<1> QED BY <1>1, <1>2

\* The invariant says what is claimed.
LEMMA InvImplies ==
  ASSUME IInv
  PROVE  TypeOK /\ SubscribersHear
<1>1. ASSUME NEW c \in Clients, Holds(c) PROVE Heard(c)
  BY <1>1, HoldsIsPromised DEF IInv
<1>2. SubscribedIsHeard
  BY <1>1 DEF SubscribedIsHeard, Heard
<1>3. NothingMissed
  BY DEF IInv, Owing, NothingMissed
<1> QED BY <1>2, <1>3 DEF IInv, SubscribersHear

\* The invariant holds always.
LEMMA InvAlways == Spec => []IInv
<1>1. Init => IInv
  BY InvStart
<1>2. IInv /\ [Next]_vars => IInv'
  BY InvStep
<1> QED BY <1>1, <1>2, PTL DEF Spec

\* Every variable has its type: the gateway's relay, tasks and requests, what is on
\* the wires, and the browsers' sockets and subscriptions.
THEOREM TypeCorrectness == Spec => []TypeOK
<1>1. IInv => TypeOK
  BY InvImplies
<1> QED BY <1>1, InvAlways, PTL

\* A browser whose subscription was acknowledged is heard: its task listens to the
\* relay that emit_session_notification sends to, or it is being told to resync;
\* and every event sent while it was subscribed is with its task or on its wire, or
\* it is told to resync. It is so for any number of browsers, tasks and events, any
\* capacity of the channel, and any interleaving of subscriptions, prunings, lost
\* sockets, timeouts and restarts, but for browsers that were deafened: those whose
\* subscription a late request undid, or whose relay was pruned around them.
THEOREM Hearing == Spec => []SubscribersHear
<1>1. IInv => SubscribersHear
  BY InvImplies
<1> QED BY <1>1, InvAlways, PTL
================================================================================
