------------------------- MODULE ServerRequestsProofs --------------------------
(***************************************************************************)
(* Theorems about the questions an app-server asks (ServerRequests.tla),   *)
(* for any number of users, processes, connections and turns, and any      *)
(* capacity of the channel and of the prompts.                             *)
(*                                                                         *)
(* PromptsInv is the invariant: what has been heard of was asked           *)
(* (MadeInv), what the process said is in order (ReadInv), a tombstone is  *)
(* of a question that is over (TombInv), a question that is open is on its *)
(* way to the prompts (AskInv), and a prompt, or what may become one, is   *)
(* of a question that is open, or its end is on its way to it (StaleInv).  *)
(***************************************************************************)
EXTENDS ServerRequests, SequenceTheorems, TLAPS

----------------------------------------------------------------------------
(* Sequences.                                                              *)

\* What a sequence holds when an element is appended.
LEMMA AppendSet ==
  ASSUME NEW S, NEW s \in Seq(S), NEW e \in S
  PROVE  /\ Append(s, e) \in Seq(S) /\ Len(Append(s, e)) = Len(s) + 1 /\ Append(s, e) # <<>>
         /\ ToSet(Append(s, e)) = ToSet(s) \cup {e}
<1>1. /\ Append(s, e) \in Seq(S) /\ Len(Append(s, e)) = Len(s) + 1
      /\ Append(s, e) # <<>>
      /\ \A k \in 1..Len(s) : Append(s, e)[k] = s[k]
      /\ Append(s, e)[Len(s) + 1] = e
  OBVIOUS
<1>2. ASSUME NEW x \in ToSet(Append(s, e)) PROVE x \in ToSet(s) \cup {e}
  <2>1. PICK k \in 1..(Len(s) + 1) : x = Append(s, e)[k]
    BY <1>1, <1>2 DEF ToSet
  <2>2. CASE k \in 1..Len(s)
    BY <1>1, <2>1, <2>2 DEF ToSet
  <2>3. CASE k = Len(s) + 1
    BY <1>1, <2>1, <2>3
  <2> QED BY <2>1, <2>2, <2>3
<1>3. ASSUME NEW x \in ToSet(s) PROVE x \in ToSet(Append(s, e))
  <2>1. PICK k \in 1..Len(s) : x = s[k]
    BY <1>3 DEF ToSet
  <2>2. k \in 1..Len(Append(s, e)) /\ x = Append(s, e)[k]
    BY <1>1, <2>1
  <2> QED BY <1>1, <2>2 DEF ToSet
<1>4. e \in ToSet(Append(s, e))
  <2>1. Len(s) + 1 \in 1..Len(Append(s, e))
    BY <1>1
  <2> QED BY <1>1, <2>1 DEF ToSet
<1> QED BY <1>1, <1>2, <1>3, <1>4

\* What it holds but for its head.
LEMMA TailSet ==
  ASSUME NEW S, NEW s \in Seq(S), s # <<>>
  PROVE  /\ Head(s) \in S /\ Tail(s) \in Seq(S) /\ Len(Tail(s)) = Len(s) - 1
         /\ ToSet(s) = {Head(s)} \cup ToSet(Tail(s))
<1> DEFINE t == Tail(s)
<1>1. /\ Head(s) \in S /\ t \in Seq(S) /\ Len(t) = Len(s) - 1 /\ Len(s) \in Nat \ {0}
      /\ \A k \in 1..(Len(s) - 1) : t[k] = s[k + 1]
      /\ Head(s) = s[1]
  OBVIOUS
<1> HIDE DEF t
<1>2. ASSUME NEW x \in ToSet(s) PROVE x \in {Head(s)} \cup ToSet(t)
  <2>1. PICK k \in 1..Len(s) : x = s[k]
    BY <1>2 DEF ToSet
  <2>2. CASE k = 1
    BY <1>1, <2>1, <2>2
  <2>3. ASSUME k # 1 PROVE x \in ToSet(t)
    <3>1. k - 1 \in 1..Len(t) /\ x = t[k - 1]
      BY <1>1, <2>1, <2>3
    <3> QED BY <1>1, <3>1 DEF ToSet
  <2> QED BY <2>2, <2>3
<1>3. ASSUME NEW x \in ToSet(t) PROVE x \in ToSet(s)
  <2>1. PICK k \in 1..Len(t) : x = t[k]
    BY <1>1, <1>3 DEF ToSet
  <2>2. k + 1 \in 1..Len(s) /\ x = s[k + 1]
    BY <1>1, <2>1
  <2> QED BY <2>2 DEF ToSet
<1>4. Head(s) \in ToSet(s)
  BY <1>1 DEF ToSet
<1> QED BY <1>1, <1>2, <1>3, <1>4 DEF t

LEMMA EmptySet == ToSet(<<>>) = {}
  BY DEF ToSet

LEMMA ToSetOf ==
  ASSUME NEW S, NEW s \in Seq(S)
  PROVE  ToSet(s) \subseteq S /\ (ToSet(s) = {} <=> s = <<>>)
<1>1. ToSet(s) \subseteq S
  BY DEF ToSet
<1>2. ASSUME s # <<>> PROVE ToSet(s) # {}
  <2>1. Head(s) \in ToSet(s)
    BY <1>2, TailSet
  <2> QED BY <2>1
<1> QED BY <1>1, <1>2, EmptySet

\* A sequence without the element at a place.
LEMMA RemoveAtSet ==
  ASSUME NEW S, NEW s \in Seq(S), NEW n \in 1..Len(s)
  PROVE  /\ RemoveAt(s, n) \in Seq(S) /\ Len(RemoveAt(s, n)) = Len(s) - 1
         /\ \A k \in 1..(Len(s) - 1) : RemoveAt(s, n)[k] = IF k < n THEN s[k] ELSE s[k + 1]
<1> DEFINE a == SubSeq(s, 1, n - 1)  b == SubSeq(s, n + 1, Len(s))
<1>1. a \in Seq(S) /\ Len(a) = n - 1 /\ \A k \in 1..(n - 1) : a[k] = s[k]
  OBVIOUS
<1>2. b \in Seq(S) /\ Len(b) = Len(s) - n /\ \A k \in 1..(Len(s) - n) : b[k] = s[n + k]
  OBVIOUS
<1> HIDE DEF a, b
<1>3. a \o b \in Seq(S) /\ Len(a \o b) = Len(s) - 1
  <2>1. a \o b \in Seq(S) /\ Len(a \o b) = Len(a) + Len(b)
    BY <1>1, <1>2, ConcatProperties
  <2>2. Len(s) \in Nat /\ n \in Nat
    OBVIOUS
  <2> QED BY <1>1, <1>2, <2>1, <2>2
<1>4. ASSUME NEW k \in 1..(Len(s) - 1) PROVE (a \o b)[k] = IF k < n THEN s[k] ELSE s[k + 1]
  <2>1. CASE k < n
    BY <1>1, <1>2, <2>1
  <2>2. CASE ~(k < n)
    <3>1. (a \o b)[k] = b[k - (n - 1)]
      BY <1>1, <1>2, <2>2
    <3>2. k - (n - 1) \in 1..(Len(s) - n) /\ n + (k - (n - 1)) = k + 1
      BY <2>2
    <3> QED BY <1>2, <2>2, <3>1, <3>2
  <2> QED BY <2>1, <2>2
<1>5. RemoveAt(s, n) = a \o b
  BY DEF RemoveAt, a, b
<1> QED BY <1>3, <1>4, <1>5

----------------------------------------------------------------------------
(* The prompts have different ids.                                         *)

Apart(s) == \A j, k \in 1..Len(s) : s[j][1] = s[k][1] => j = k

LEMMA WithoutSet ==
  ASSUME NEW s \in Seq(Asks), Apart(s), NEW i
  PROVE  /\ Without(s, i) \in Seq(Asks) /\ Len(Without(s, i)) <= Len(s) /\ Apart(Without(s, i))
         /\ ToSet(Without(s, i)) = {a \in ToSet(s) : a[1] # i}
<1>1. CASE \A k \in 1..Len(s) : s[k][1] # i
  <2>1. Without(s, i) = s
    BY <1>1 DEF Without
  <2> QED BY <1>1, <2>1 DEF ToSet
<1>2. ASSUME NEW m \in 1..Len(s), s[m][1] = i
      PROVE  /\ Without(s, i) \in Seq(Asks) /\ Len(Without(s, i)) <= Len(s) /\ Apart(Without(s, i))
             /\ ToSet(Without(s, i)) = {a \in ToSet(s) : a[1] # i}
  <2> DEFINE n == CHOOSE k \in 1..Len(s) : s[k][1] = i
             r == RemoveAt(s, n)
  <2>1. n \in 1..Len(s) /\ s[n][1] = i
    BY <1>2
  <2>2. Without(s, i) = r
    BY <1>2 DEF Without
  <2>3. /\ r \in Seq(Asks) /\ Len(r) = Len(s) - 1
        /\ \A k \in 1..(Len(s) - 1) : r[k] = IF k < n THEN s[k] ELSE s[k + 1]
    BY <2>1, RemoveAtSet
  <2> HIDE DEF n, r
  <2>4. Apart(r)
    <3> SUFFICES ASSUME NEW j \in 1..Len(r), NEW k \in 1..Len(r), r[j][1] = r[k][1] PROVE j = k
      BY DEF Apart
    <3> DEFINE jj == IF j < n THEN j ELSE j + 1  kk == IF k < n THEN k ELSE k + 1
    <3>1. jj \in 1..Len(s) /\ kk \in 1..Len(s) /\ r[j] = s[jj] /\ r[k] = s[kk]
      BY <2>1, <2>3
    <3>2. jj = kk
      BY <3>1 DEF Apart
    <3> QED BY <2>1, <2>3, <3>2
  <2>5. ASSUME NEW x \in ToSet(r) PROVE x \in {a \in ToSet(s) : a[1] # i}
    <3>1. PICK k \in 1..Len(r) : x = r[k]
      BY <2>3, <2>5 DEF ToSet
    <3> DEFINE kk == IF k < n THEN k ELSE k + 1
    <3>2. kk \in 1..Len(s) /\ kk # n /\ x = s[kk]
      BY <2>1, <2>3, <3>1
    <3>3. x[1] # i
      BY <2>1, <3>2 DEF Apart
    <3> QED BY <3>2, <3>3 DEF ToSet
  <2>6. ASSUME NEW x \in ToSet(s), x[1] # i PROVE x \in ToSet(r)
    <3>1. PICK k \in 1..Len(s) : x = s[k]
      BY <2>6 DEF ToSet
    <3>2. k # n
      BY <2>1, <2>6, <3>1
    <3> DEFINE kk == IF k < n THEN k ELSE k - 1
    <3>3. kk \in 1..Len(r) /\ x = r[kk]
      BY <2>1, <2>3, <3>1, <3>2
    <3> QED BY <2>3, <3>3 DEF ToSet
  <2> QED BY <2>2, <2>3, <2>4, <2>5, <2>6
<1> QED BY <1>1, <1>2

----------------------------------------------------------------------------
(* Types.                                                                  *)

LinkTypes ==
  /\ mode \in Modes
  /\ proc \in 0..MaxProcs /\ procs \in 0..MaxProcs
  /\ asked \in 0..MaxAsks /\ open \subseteq Ids
  /\ inst \in 0..MaxGens /\ gens \in 0..MaxGens
  /\ origin \in [Gens -> 0..MaxProcs]

LineTypes == lines \in [Gens -> Seq(Lines)] /\ notes \in Seq(Notes)

RelayTypes ==
  /\ known \in [Ids -> 0..MaxGens]
  /\ relay \in Seq(Asks) /\ Len(relay) <= RelayCap

\* The prompts have different ids.
ShownTypes == shown \in Seq(Asks) /\ Len(shown) <= PromptCap /\ Apart(shown)

AskTypes ==
  /\ tombs \subseteq Asks /\ batch \subseteq Asks
  /\ excused \subseteq Ids /\ stale \subseteq Asks /\ refused \subseteq Asks

\* A task that is not idle has a question in hand.
PlaceTypes ==
  /\ rt \in [at : {"recv", "judge", "insert", "reject"}, ask : Asks \cup {NoAsk}]
  /\ nt \in [at : {"recv", "drop", "wipe"}, note : Notes]
  /\ us \in [Users -> [at : {"idle", "answer", "tomb", "remove"}, ask : Asks \cup {NoAsk}]]
  /\ rt.ask = NoAsk <=> rt.at = "recv"
  /\ \A u \in Users : us[u].ask = NoAsk <=> us[u].at = "idle"

FlagTypes ==
  /\ auto \in BOOLEAN /\ working \in BOOLEAN /\ up \in BOOLEAN /\ lagged \in BOOLEAN
  /\ busy \in BOOLEAN /\ assigned \in BOOLEAN /\ bereft \in BOOLEAN
  /\ misfit \in BOOLEAN /\ deaf \in BOOLEAN

CountTypes ==
  /\ total \in 0..MaxTotal /\ turns \in 0..MaxTurns /\ faults \in 0..MaxFaults

\* A connection is one to the running process, and what is not given out is unused.
LinkInv ==
  /\ up => inst # 0 /\ proc # 0
  /\ proc # 0 /\ inst # 0 => proc = origin[inst]
  /\ inst <= gens
  /\ proc # 0 => proc = procs
  /\ \A g \in Gens : IF g <= gens THEN origin[g] \in 1..procs ELSE origin[g] = 0 /\ lines[g] = <<>>

\* Only a process that works has open questions, and it has asked them.
OpenInv ==
  /\ proc = 0 => open = {} /\ ~working
  /\ open \subseteq 1..asked
  /\ open # {} => working

\* Only `idle' and `exited' have no id; what is said comes from a process that was started.
LineFits ==
  /\ \A g \in Gens : \A l \in ToSet(lines[g]) : l.kind # "idle" => l.id \in Ids
  /\ \A n \in ToSet(notes) : n.of \in 1..procs /\ (n.kind = "resolved" => n.id \in Ids)
  /\ nt.at = "drop" => nt.note.id \in Ids

Types == LinkTypes /\ LineTypes /\ RelayTypes /\ ShownTypes /\ AskTypes /\ PlaceTypes /\ FlagTypes
         /\ CountTypes
Base  == Types /\ LineFits /\ LinkInv /\ OpenInv

\* The parts make up TypeOK.
LEMMA TypesOK == Types => TypeOK
  BY DEF Types, LinkTypes, LineTypes, RelayTypes, ShownTypes, AskTypes, PlaceTypes, FlagTypes,
         CountTypes, TypeOK

\* What the questions are.
LEMMA AskFacts ==
  /\ NoAsk \notin Asks
  /\ \A a \in Asks : a[1] \in Ids /\ a[2] \in Gens /\ a = <<a[1], a[2]>>
  /\ \A i \in Ids, g \in Gens : <<i, g>> \in Asks /\ <<i, g>>[1] = i /\ <<i, g>>[2] = g
  /\ \A i \in Ids : i \in Nat /\ i # 0
  /\ \A g \in Gens : g \in Nat /\ g # 0 /\ g <= MaxGens
  BY BoundsAssumption DEF Asks, NoAsk, Ids, Gens

\* A question in hand.
LEMMA InHandAsks ==
  ASSUME Types
  PROVE  /\ rt.at # "recv" => rt.ask \in Asks
         /\ \A u \in Users : us[u].at # "idle" => us[u].ask \in Asks
  BY DEF Types, PlaceTypes

\* What the process says.
LEMMA LineFacts ==
  /\ \A i \in Ids : Line("ask", i) \in Lines /\ Line("resolved", i) \in Lines
  /\ Line("idle", 0) \in Lines
  /\ \A k, i : Line(k, i).kind = k /\ Line(k, i).id = i
  BY DEF Line, Lines

\* An answer goes out on the connection there is.
LEMMA Written ==
  ASSUME Base, NEW a, CanWrite(a)
  PROVE  up /\ inst \in Gens /\ inst <= gens /\ proc # 0 /\ origin[inst] = proc
<1>1. up
  BY DEF CanWrite
<1> QED BY <1>1, BoundsAssumption DEF Base, LinkInv, Types, LinkTypes, Gens

LEMMA InitBase == Init => Base
<1> SUFFICES ASSUME Init PROVE Base
  OBVIOUS
<1>1. LinkTypes
  BY BoundsAssumption DEF Init, LinkTypes
<1>2. LineTypes /\ RelayTypes
  BY BoundsAssumption DEF Init, LineTypes, RelayTypes
<1>3. ShownTypes
  BY BoundsAssumption DEF Init, ShownTypes, Apart
<1>4. AskTypes /\ CountTypes
  BY BoundsAssumption DEF Init, AskTypes, CountTypes
<1>9. FlagTypes
  BY Zenon DEF Init, FlagTypes
<1>5. NoNote \in Notes
  BY BoundsAssumption DEF NoNote, Notes
<1>6. PlaceTypes
  BY <1>5 DEF Init, PlaceTypes
<1>7. LinkInv
  BY BoundsAssumption DEF Init, LinkInv, Gens
<1>8. OpenInv
  BY BoundsAssumption DEF Init, OpenInv
<1>10. LineFits
  BY EmptySet DEF Init, LineFits
<1> QED BY <1>1, <1>2, <1>3, <1>4, <1>6, <1>7, <1>8, <1>9, <1>10 DEF Base, Types

\* The types of the process and of its connections are kept.
LEMMA LinkTypesStep ==
  ASSUME Base, [Next]_vars
  PROVE  LinkTypes'
<1>1. ASSUME Connect PROVE LinkTypes'
  <2>1. gens + 1 \in Gens /\ gens + 1 \in 0..MaxGens
    BY <1>1, BoundsAssumption DEF Connect, Base, Types, LinkTypes, Gens
  <2>2. proc' \in 0..MaxProcs /\ procs' \in 0..MaxProcs /\ asked' \in 0..MaxAsks
    BY <1>1, BoundsAssumption DEF Connect, Base, Types, LinkTypes, procVars
  <2> QED BY <1>1, <2>1, <2>2 DEF Connect, Base, Types, LinkTypes
<1>2. ASSUME AsksUser PROVE LinkTypes'
  BY <1>2, BoundsAssumption DEF AsksUser, linkVars, Ids, Base, Types, LinkTypes
<1>3. ASSUME Exits PROVE LinkTypes'
  BY <1>3, BoundsAssumption DEF Exits, Base, Types, LinkTypes
<1>4. ASSUME NEW j \in Ids, Withdraws(j) PROVE LinkTypes'
  BY <1>4, BoundsAssumption DEF Withdraws, procVars, linkVars, Base, Types, LinkTypes
<1>5. ASSUME FinalizeLoss PROVE LinkTypes'
  BY <1>5, BoundsAssumption DEF FinalizeLoss, procVars, Base, Types, LinkTypes
<1>6. ASSUME FinalizeExit PROVE LinkTypes'
  BY <1>6, BoundsAssumption DEF FinalizeExit, procVars, Base, Types, LinkTypes
<1>7. ASSUME Judge PROVE LinkTypes'
  <2>1. open' \subseteq open
    BY <1>7 DEF Judge, Answer, Unsent, Reject
  <2> QED BY <1>7, <2>1 DEF Judge, Base, Types, LinkTypes, linkVars, procVars
<1>8. ASSUME RejectEvicted PROVE LinkTypes'
  BY <1>8, BoundsAssumption DEF RejectEvicted, Reject, procVars, linkVars, Answer, Unsent,
                                Base, Types, LinkTypes
<1>9. ASSUME NEW u \in Users, Respond(u) PROVE LinkTypes'
  BY <1>9, BoundsAssumption DEF Respond, Answer, Unsent, procVars, linkVars, Base, Types,
                                LinkTypes
<1>10. ASSUME UNCHANGED <<mode, proc, procs, asked, open, inst, gens, origin>> PROVE LinkTypes'
  BY <1>10 DEF Base, Types, LinkTypes
<1>11. ASSUME
       StartTurn \/ EndsTurn \/ LosesLink \/ Replay \/ Receive \/ Insert \/ Resolved \/
       IdleStatus \/ ClientExited \/ Drop \/ Wipe
      PROVE LinkTypes'
  BY <1>11, <1>10 DEF StartTurn, linkVars, EndsTurn, LosesLink, procVars, Replay, Receive,
                      Insert, Resolved, Handles, IdleStatus, ClientExited, Drop, Wipe
<1>12. ASSUME NEW g \in Gens,
       Read(g)
      PROVE LinkTypes'
  BY <1>12, <1>10 DEF Read, procVars, linkVars
<1>13. ASSUME NEW u \in Users,
       Choose(u) \/ Bury(u) \/ Discard(u) \/ Leaves(u)
      PROVE LinkTypes'
  BY <1>13, <1>10 DEF Choose, procVars, linkVars, Bury, Discard, Leaves
<1> QED BY <1>1, <1>2, <1>3, <1>4, <1>5, <1>6, <1>7, <1>8, <1>9, <1>10, <1>11, <1>12, <1>13
     DEF Next, vars, ProcessStep, ClientStep, RequestTask, NoteTask, User

\* A connection that is up has a generation.
LEMMA UpGen ==
  ASSUME Base, up
  PROVE  inst \in Gens /\ inst <= gens /\ proc # 0 /\ origin[inst] = proc
  BY BoundsAssumption DEF Base, LinkInv, Types, LinkTypes, Gens

\* The types of what is said are kept.
LEMMA LineTypesStep ==
  ASSUME Base, [Next]_vars
  PROVE  LineTypes'
<1>1. ASSUME AsksUser PROVE LineTypes'
  <2>1. Line("ask", asked + 1) \in Lines
    BY <1>1, LineFacts, BoundsAssumption DEF AsksUser, Base, Types, LinkTypes, Ids
  <2>2. lines' = lines \/ (up /\ lines' = [lines EXCEPT ![inst] = Append(@, Line("ask", asked + 1))])
    BY <1>1 DEF AsksUser, Says
  <2>3. up => Append(lines[inst], Line("ask", asked + 1)) \in Seq(Lines)
    BY <2>1, UpGen, AppendSet DEF Base, Types, LineTypes
  <2> QED BY <1>1, <2>2, <2>3 DEF AsksUser, Base, Types, LineTypes
<1>2. ASSUME EndsTurn PROVE LineTypes'
  <2>1. Line("idle", 0) \in Lines
    BY <1>2, LineFacts, BoundsAssumption DEF EndsTurn, Base, Types, LinkTypes, Ids
  <2>2. lines' = lines \/ (up /\ lines' = [lines EXCEPT ![inst] = Append(@, Line("idle", 0))])
    BY <1>2 DEF EndsTurn, Says
  <2>3. up => Append(lines[inst], Line("idle", 0)) \in Seq(Lines)
    BY <2>1, UpGen, AppendSet DEF Base, Types, LineTypes
  <2> QED BY <1>2, <2>2, <2>3 DEF EndsTurn, Base, Types, LineTypes
<1>3. ASSUME LosesLink PROVE LineTypes'
  <2>1. <<>> \in Seq(Lines)
    OBVIOUS
  <2> QED BY <1>3, <2>1 DEF LosesLink, Base, Types, LineTypes
<1>4. ASSUME NEW j \in Ids, Withdraws(j) PROVE LineTypes'
  <2>1. Line("resolved", j) \in Lines
    BY <1>4, LineFacts, BoundsAssumption DEF Withdraws, Base, Types, LinkTypes, Ids
  <2>2. lines' = lines \/ (up /\ lines' = [lines EXCEPT ![inst] = Append(@, Line("resolved", j))])
    BY <1>4 DEF Withdraws, Says
  <2>3. up => Append(lines[inst], Line("resolved", j)) \in Seq(Lines)
    BY <2>1, UpGen, AppendSet DEF Base, Types, LineTypes
  <2> QED BY <1>4, <2>2, <2>3 DEF Withdraws, Base, Types, LineTypes
<1>5. ASSUME FinalizeExit PROVE LineTypes'
  <2>1. inst \in Gens
    BY <1>5, BoundsAssumption DEF FinalizeExit, Ending, Base, Types, LinkTypes, Gens
  <2>2. [kind |-> "exited", id |-> 0, of |-> origin[inst]] \in Notes
    BY <2>1 DEF Base, Types, LinkTypes, Notes
  <2> QED BY <1>5, <2>2, AppendSet DEF FinalizeExit, Base, Types, LineTypes
<1>6. ASSUME NEW g \in Gens, Read(g) PROVE LineTypes'
  <2> DEFINE l == Head(lines[g])
  <2>1. l \in Lines /\ Tail(lines[g]) \in Seq(Lines)
    BY <1>6, TailSet DEF Read, Base, Types, LineTypes
  <2>2. origin[g] \in 0..MaxProcs
    BY DEF Base, Types, LinkTypes
  <2>3. notes' \in Seq(Notes)
    <3>1. ASSUME l.kind # "ask" PROVE Append(notes, [kind |-> l.kind, id |-> l.id, of |-> origin[g]]) \in Seq(Notes)
      <4>1. [kind |-> l.kind, id |-> l.id, of |-> origin[g]] \in Notes
        BY <2>1, <2>2, <3>1 DEF Lines, Notes
      <4> QED BY <4>1, AppendSet DEF Base, Types, LineTypes
    <3> QED BY <1>6, <3>1 DEF Read, Base, Types, LineTypes
  <2>4. lines' \in [Gens -> Seq(Lines)]
    BY <1>6, <2>1 DEF Read, Base, Types, LineTypes
  <2> QED BY <2>3, <2>4 DEF LineTypes
<1>7. ASSUME Judge PROVE LineTypes'
  <2>1. lines' = lines \/ \E a \in Asks : CanWrite(a) /\ lines' = [lines EXCEPT ![inst] = Append(@, Line("resolved", a[1]))]
    BY <1>7, InHandAsks DEF Judge, Answer, Unsent, Reject, Base
  <2>2. \A a \in Asks : Append(lines[inst], Line("resolved", a[1])) \in Seq(Lines) \/ ~CanWrite(a)
    BY Written, AskFacts, LineFacts, AppendSet DEF Base, Types, LineTypes
  <2> QED BY <1>7, <2>1, <2>2 DEF Judge, Base, Types, LineTypes
<1>8. ASSUME RejectEvicted PROVE LineTypes'
  <2>1. lines' = lines \/ \E a \in Asks : CanWrite(a) /\ lines' = [lines EXCEPT ![inst] = Append(@, Line("resolved", a[1]))]
    BY <1>8, InHandAsks DEF RejectEvicted, Answer, Unsent, Reject, Base
  <2>2. \A a \in Asks : Append(lines[inst], Line("resolved", a[1])) \in Seq(Lines) \/ ~CanWrite(a)
    BY Written, AskFacts, LineFacts, AppendSet DEF Base, Types, LineTypes
  <2> QED BY <1>8, <2>1, <2>2 DEF RejectEvicted, Base, Types, LineTypes
<1>9. ASSUME Resolved PROVE LineTypes'
  <2>1. lines' = lines /\ notes # <<>> /\ notes' = Tail(notes)
    BY <1>9 DEF Resolved, Handles
  <2> QED BY <2>1, TailSet DEF Base, Types, LineTypes
<1>10. ASSUME IdleStatus PROVE LineTypes'
  <2>1. lines' = lines /\ notes # <<>> /\ notes' = Tail(notes)
    BY <1>10 DEF IdleStatus, Handles
  <2> QED BY <2>1, TailSet DEF Base, Types, LineTypes
<1>11. ASSUME ClientExited PROVE LineTypes'
  <2>1. lines' = lines /\ notes # <<>> /\ notes' = Tail(notes)
    BY <1>11 DEF ClientExited, Handles
  <2> QED BY <2>1, TailSet DEF Base, Types, LineTypes
<1>12. ASSUME NEW u \in Users, Respond(u) PROVE LineTypes'
  <2>1. lines' = lines \/ \E a \in Asks : CanWrite(a) /\ lines' = [lines EXCEPT ![inst] = Append(@, Line("resolved", a[1]))]
    BY <1>12, InHandAsks DEF Respond, Answer, Unsent, Reject, Base
  <2>2. \A a \in Asks : Append(lines[inst], Line("resolved", a[1])) \in Seq(Lines) \/ ~CanWrite(a)
    BY Written, AskFacts, LineFacts, AppendSet DEF Base, Types, LineTypes
  <2> QED BY <1>12, <2>1, <2>2 DEF Respond, Base, Types, LineTypes
<1>13. ASSUME UNCHANGED <<lines, notes>> PROVE LineTypes'
  BY <1>13 DEF Base, Types, LineTypes
<1>14. ASSUME
       Connect \/ StartTurn \/ Exits \/ FinalizeLoss \/ Replay \/ Receive \/ Insert \/ Drop
       \/ Wipe
      PROVE LineTypes'
  BY <1>14, <1>13 DEF Connect, StartTurn, Exits, FinalizeLoss, Replay, Receive, Insert, Drop,
                      Wipe
<1>15. ASSUME NEW u \in Users,
       Choose(u) \/ Bury(u) \/ Discard(u) \/ Leaves(u)
      PROVE LineTypes'
  BY <1>15, <1>13 DEF Choose, Bury, Discard, Leaves
<1> QED BY <1>1, <1>2, <1>3, <1>4, <1>5, <1>6, <1>7, <1>8, <1>9, <1>10, <1>11, <1>12, <1>13,
           <1>14, <1>15
     DEF Next, vars, ProcessStep, ClientStep, RequestTask, NoteTask, User

\* The types of the client's record and of the channel are kept.
LEMMA RelayTypesStep ==
  ASSUME Base, [Next]_vars
  PROVE  RelayTypes'
<1>1. ASSUME FinalizeExit PROVE RelayTypes'
  BY <1>1, BoundsAssumption DEF FinalizeExit, Base, Types, RelayTypes
<1>2. ASSUME NEW g \in Gens, Read(g) PROVE RelayTypes'
  <2> DEFINE l == Head(lines[g])
  <2>1. l \in Lines /\ l \in ToSet(lines[g])
    BY <1>2, TailSet DEF Read, Base, Types, LineTypes
  <2>2. CASE l.kind = "ask"
    <3>1. l.id \in Ids /\ <<l.id, g>> \in Asks
      BY <2>1, <2>2, AskFacts DEF Base, LineFits
    <3>2. known' \in [Ids -> 0..MaxGens]
      BY <1>2, <2>2, <3>1 DEF Read, Base, Types, RelayTypes, Gens
    <3> DEFINE r == IF Len(relay) = RelayCap THEN Tail(relay) ELSE relay
    <3>3. r \in Seq(Asks) /\ Len(r) + 1 <= RelayCap
      <4>1. CASE Len(relay) = RelayCap
        <5>1. relay # <<>>
          BY <4>1, BoundsAssumption
        <5> QED BY <4>1, <5>1, TailSet, BoundsAssumption DEF Base, Types, RelayTypes
      <4>2. CASE Len(relay) # RelayCap
        BY <4>2, BoundsAssumption DEF Base, Types, RelayTypes
      <4> QED BY <4>1, <4>2
    <3>4. relay' = Append(r, <<l.id, g>>)
      BY <1>2, <2>2 DEF Read, Base, Types, RelayTypes
    <3> HIDE DEF r
    <3> QED BY <3>1, <3>2, <3>3, <3>4, AppendSet DEF RelayTypes
  <2>3. CASE l.kind # "ask"
    BY <1>2, <2>3 DEF Read, Base, Types, RelayTypes
  <2> QED BY <2>2, <2>3
<1>3. ASSUME Receive PROVE RelayTypes'
  <2>1. UNCHANGED known /\ (relay' = relay \/ (relay # <<>> /\ relay' = Tail(relay)))
    BY <1>3 DEF Receive
  <2>2. relay # <<>> => Tail(relay) \in Seq(Asks) /\ Len(Tail(relay)) = Len(relay) - 1
    BY TailSet DEF Base, Types, RelayTypes
  <2> QED BY <2>1, <2>2, BoundsAssumption DEF Base, Types, RelayTypes
<1>4. ASSUME Judge PROVE RelayTypes'
  <2>1. known' = known \/ \E a \in Asks : known' = [known EXCEPT ![a[1]] = IF @ = a[2] THEN 0 ELSE @]
    BY <1>4, InHandAsks DEF Judge, Answer, Unsent, Reject, Base
  <2>2. known' \in [Ids -> 0..MaxGens]
    BY <2>1, BoundsAssumption DEF Base, Types, RelayTypes
  <2> QED BY <1>4, <2>2 DEF Judge, Base, Types, RelayTypes
<1>5. ASSUME RejectEvicted PROVE RelayTypes'
  <2>1. known' = known \/ \E a \in Asks : known' = [known EXCEPT ![a[1]] = IF @ = a[2] THEN 0 ELSE @]
    BY <1>5, InHandAsks DEF RejectEvicted, Answer, Unsent, Reject, Base
  <2>2. known' \in [Ids -> 0..MaxGens]
    BY <2>1, BoundsAssumption DEF Base, Types, RelayTypes
  <2> QED BY <1>5, <2>2 DEF RejectEvicted, Base, Types, RelayTypes
<1>6. ASSUME NEW u \in Users, Respond(u) PROVE RelayTypes'
  <2>1. known' = known \/ \E a \in Asks : known' = [known EXCEPT ![a[1]] = IF @ = a[2] THEN 0 ELSE @]
    BY <1>6, InHandAsks DEF Respond, Answer, Unsent, Reject, Base
  <2>2. known' \in [Ids -> 0..MaxGens]
    BY <2>1, BoundsAssumption DEF Base, Types, RelayTypes
  <2> QED BY <1>6, <2>2 DEF Respond, Base, Types, RelayTypes
<1>7. ASSUME UNCHANGED <<known, relay>> PROVE RelayTypes'
  BY <1>7 DEF Base, Types, RelayTypes
<1>8. ASSUME
       Connect \/ StartTurn \/ AsksUser \/ EndsTurn \/ Exits \/ LosesLink \/ FinalizeLoss
       \/ Replay \/ Insert \/ Resolved \/ IdleStatus \/ ClientExited \/ Drop \/ Wipe
      PROVE RelayTypes'
  BY <1>8, <1>7 DEF Connect, StartTurn, AsksUser, EndsTurn, Exits, LosesLink, FinalizeLoss,
                    Replay, Insert, Resolved, Handles, IdleStatus, ClientExited, Drop, Wipe
<1>9. ASSUME NEW j \in Ids,
       Withdraws(j)
      PROVE RelayTypes'
  BY <1>9, <1>7 DEF Withdraws
<1>10. ASSUME NEW u \in Users,
       Choose(u) \/ Bury(u) \/ Discard(u) \/ Leaves(u)
      PROVE RelayTypes'
  BY <1>10, <1>7 DEF Choose, Bury, Discard, Leaves
<1> QED BY <1>1, <1>2, <1>3, <1>4, <1>5, <1>6, <1>7, <1>8, <1>9, <1>10
     DEF Next, vars, ProcessStep, ClientStep, RequestTask, NoteTask, User

\* The prompts keep their types and stay apart.
LEMMA ShownTypesStep ==
  ASSUME Base, [Next]_vars
  PROVE  ShownTypes'
<1>1. ASSUME Insert PROVE ShownTypes'
  <2> DEFINE a == rt.ask  grown == Append(shown, a)
  <2>1. a \in Asks
    BY <1>1, InHandAsks DEF Insert, Base
  <2>2. shown \in Seq(Asks) /\ Len(shown) <= PromptCap /\ Apart(shown)
    BY DEF Base, Types, ShownTypes
  <2>3. CASE Prompt(a[1]) # {}
    BY <1>1, <2>2, <2>3 DEF Insert, ShownTypes
  <2>4. ASSUME Prompt(a[1]) = {} PROVE ShownTypes'
    <3>1. /\ grown \in Seq(Asks) /\ Len(grown) = Len(shown) + 1 /\ grown[Len(shown) + 1] = a
          /\ \A k \in 1..Len(shown) : grown[k] = shown[k]
      BY <2>1, <2>2
    <3>2. \A k \in 1..Len(shown) : shown[k][1] # a[1]
      BY <2>4 DEF Prompt, ToSet
    <3> HIDE DEF grown, a
    <3>3. Apart(grown)
      BY <2>2, <3>1, <3>2 DEF Apart
    <3>4. /\ Tail(grown) \in Seq(Asks) /\ Len(Tail(grown)) = Len(shown)
          /\ \A k \in 1..Len(shown) : Tail(grown)[k] = grown[k + 1]
      BY <2>2, <3>1
    <3>5. Apart(Tail(grown))
      <4> SUFFICES ASSUME NEW j \in 1..Len(shown), NEW k \in 1..Len(shown), grown[j + 1][1] = grown[k + 1][1]
                   PROVE  j = k
        BY <3>4 DEF Apart
      <4>1. j + 1 \in 1..Len(grown) /\ k + 1 \in 1..Len(grown)
        BY <3>1
      <4>2. j + 1 = k + 1
        BY <3>3, <4>1 DEF Apart
      <4> QED BY <4>2
    <3>6. shown' = IF Len(grown) > PromptCap THEN Tail(grown) ELSE grown
      BY <1>1, <2>4 DEF Insert, grown, a
    <3> QED BY <2>2, <3>1, <3>3, <3>4, <3>5, <3>6, BoundsAssumption DEF ShownTypes
  <2> QED BY <2>3, <2>4
<1>2. ASSUME Drop PROVE ShownTypes'
  <2>1. shown' = Without(shown, nt.note.id)
    BY <1>2 DEF Drop
  <2> QED BY <2>1, WithoutSet, BoundsAssumption DEF Base, Types, ShownTypes
<1>3. ASSUME Wipe PROVE ShownTypes'
  <2>1. shown' = <<>>
    BY <1>3 DEF Wipe
  <2>2. <<>> \in Seq(Asks) /\ Len(<<>>) = 0 /\ Apart(<<>>)
    BY DEF Apart
  <2> QED BY <2>1, <2>2, BoundsAssumption DEF ShownTypes
<1>4. ASSUME NEW u \in Users, Discard(u) PROVE ShownTypes'
  <2>1. shown' = Without(shown, us[u].ask[1])
    BY <1>4 DEF Discard
  <2> QED BY <2>1, WithoutSet, BoundsAssumption DEF Base, Types, ShownTypes
<1>5. ASSUME UNCHANGED <<shown>> PROVE ShownTypes'
  BY <1>5 DEF Base, Types, ShownTypes
<1>6. ASSUME
       Connect \/ StartTurn \/ AsksUser \/ EndsTurn \/ Exits \/ LosesLink \/ FinalizeLoss
       \/ FinalizeExit \/ Replay \/ Receive \/ Judge \/ RejectEvicted \/ Resolved \/
       IdleStatus \/ ClientExited
      PROVE ShownTypes'
  BY <1>6, <1>5 DEF Connect, StartTurn, AsksUser, EndsTurn, Exits, LosesLink, FinalizeLoss,
                    FinalizeExit, Replay, Receive, Judge, RejectEvicted, Resolved, Handles,
                    IdleStatus, ClientExited
<1>7. ASSUME NEW j \in Ids,
       Withdraws(j)
      PROVE ShownTypes'
  BY <1>7, <1>5 DEF Withdraws
<1>8. ASSUME NEW g \in Gens,
       Read(g)
      PROVE ShownTypes'
  BY <1>8, <1>5 DEF Read
<1>9. ASSUME NEW u \in Users,
       Choose(u) \/ Respond(u) \/ Bury(u) \/ Leaves(u)
      PROVE ShownTypes'
  BY <1>9, <1>5 DEF Choose, Respond, Bury, Leaves
<1> QED BY <1>1, <1>2, <1>3, <1>4, <1>5, <1>6, <1>7, <1>8, <1>9
     DEF Next, vars, ProcessStep, ClientStep, RequestTask, NoteTask, User

\* Questions that are shown or on their way are questions.
LEMMA OnItsWayAsks ==
  ASSUME Types
  PROVE  /\ OnItsWay \subseteq Asks
         /\ ToSet(shown) \subseteq Asks /\ ToSet(relay) \subseteq Asks
         /\ \A i \in Ids : Source(i) \subseteq Asks
         /\ \A i : Prompt(i) \subseteq ToSet(shown)
         /\ \A a : Astray(a) \subseteq Asks /\ Again(a) \subseteq Asks
         /\ \A S \in SUBSET Asks : Torn(S) \subseteq Ids
<1>1. ToSet(shown) \subseteq Asks /\ ToSet(relay) \subseteq Asks
  BY ToSetOf DEF Types, ShownTypes, RelayTypes
<1>2. \A j \in Ids : known[j] # 0 => <<j, known[j]>> \in Asks
  BY BoundsAssumption DEF Types, RelayTypes, Asks, Gens
<1>3. \A i \in Ids : Source(i) \subseteq Asks
  BY <1>2 DEF Source
<1>4. {<<i, known[i]>> : i \in {j \in Ids : known[j] # 0}} \subseteq Asks
  BY <1>2
<1>5. OnItsWay \subseteq Asks
  BY <1>1, <1>4 DEF OnItsWay, Types, PlaceTypes, AskTypes
<1>6. \A a : Astray(a) \subseteq Asks /\ Again(a) \subseteq Asks
  BY <1>1, <1>5 DEF Astray, Again, Types, AskTypes
<1>7. \A S \in SUBSET Asks : Torn(S) \subseteq Ids
  BY AskFacts DEF Torn
<1> QED BY <1>1, <1>3, <1>5, <1>6, <1>7 DEF Prompt

\* The histories, the tombstones and the replay are of questions.
LEMMA AskTypesStep ==
  ASSUME Base, [Next]_vars
  PROVE  AskTypes'
<1>1. ASSUME Connect PROVE AskTypes'
  <2>1. stale' \subseteq Asks
    BY <1>1, OnItsWayAsks, InHandAsks, AskFacts DEF Connect, Base, Types, AskTypes
  <2> QED BY <1>1, <2>1 DEF Connect, Base, Types, AskTypes
<1>2. ASSUME AsksUser PROVE AskTypes'
  <2>1. asked + 1 \in Ids
    BY <1>2, BoundsAssumption DEF AsksUser, Base, Types, LinkTypes, Ids
  <2>2. excused' \subseteq excused \cup {asked + 1}
    BY <1>2, LineFacts DEF AsksUser, Says
  <2> QED BY <1>2, <2>1, <2>2 DEF AsksUser, Base, Types, AskTypes
<1>3. ASSUME EndsTurn PROVE AskTypes'
  <2>1. excused' \subseteq Ids
    BY <1>3, OnItsWayAsks, InHandAsks, AskFacts DEF EndsTurn, Says, Line, Base, Types, AskTypes
  <2> QED BY <1>3, <2>1 DEF EndsTurn, Base, Types, AskTypes
<1>4. ASSUME Exits PROVE AskTypes'
  BY <1>4 DEF Exits, Base, Types, AskTypes
<1>5. ASSUME LosesLink PROVE AskTypes'
  <2>1. inst \in Gens
    BY <1>5, UpGen DEF LosesLink
  <2>2. {l.id : l \in {m \in ToSet(lines[inst]) : m.kind = "ask"}} \subseteq Ids
    BY <2>1 DEF Base, LineFits
  <2> QED BY <1>5, <2>2 DEF LosesLink, Base, Types, AskTypes
<1>6. ASSUME NEW j \in Ids, Withdraws(j) PROVE AskTypes'
  <2>1. excused' \subseteq Ids
    BY <1>6, OnItsWayAsks, InHandAsks, AskFacts DEF Withdraws, Says, Line, Base, Types, AskTypes
  <2> QED BY <1>6, <2>1 DEF Withdraws, Base, Types, AskTypes
<1>7. ASSUME NEW g \in Gens, Read(g) PROVE AskTypes'
  <2>1. excused' \subseteq excused \cup open
    BY <1>7 DEF Read
  <2> QED BY <1>7, <2>1 DEF Read, Base, Types, LinkTypes, AskTypes
<1>8. ASSUME Replay PROVE AskTypes'
  <2>1. batch' \subseteq OnItsWay
    BY <1>8 DEF Replay, OnItsWay
  <2> QED BY <1>8, <2>1, OnItsWayAsks DEF Replay, Base, Types, AskTypes
<1>9. ASSUME Receive PROVE AskTypes'
  <2>1. batch' \subseteq batch /\ UNCHANGED <<tombs, excused, stale, refused>>
    BY <1>9 DEF Receive
  <2> QED BY <2>1 DEF Base, Types, AskTypes
<1>10. ASSUME Judge PROVE AskTypes'
  <2> DEFINE b == rt.ask
  <2>1. b \in Asks
    BY <1>10, InHandAsks DEF Judge, Base
  <2>2. b[1] \in Ids /\ Astray(b) \subseteq Asks /\ Again(b) \subseteq Asks
    BY <2>1, AskFacts, OnItsWayAsks DEF Base
  <2> HIDE DEF b
  <2>3. stale' \subseteq stale \cup Astray(b) \cup Again(b) /\ excused' \subseteq excused \cup {b[1]}
    BY <1>10 DEF Judge, Reject, b
  <2>4. tombs' \subseteq tombs \cup {b} /\ refused' \subseteq refused \cup {b} /\ batch' = batch
    BY <1>10 DEF Judge, b
  <2> QED BY <2>1, <2>2, <2>3, <2>4 DEF Base, Types, AskTypes
<1>11. ASSUME Insert PROVE AskTypes'
  <2> DEFINE b == rt.ask
  <2>1. b \in Asks
    BY <1>11, InHandAsks DEF Insert, Base
  <2>2. b[1] \in Ids
    BY <2>1, AskFacts
  <2> HIDE DEF b
  <2>3. stale' \subseteq stale \cup {b} /\ excused' \subseteq excused \cup {b[1]}
    BY <1>11 DEF Insert, b
  <2> QED BY <1>11, <2>1, <2>2, <2>3 DEF Insert, Base, Types, AskTypes
<1>12. ASSUME RejectEvicted PROVE AskTypes'
  <2> DEFINE b == rt.ask
  <2>1. b \in Asks
    BY <1>12, InHandAsks DEF RejectEvicted, Base
  <2>2. b[1] \in Ids /\ Astray(b) \subseteq Asks /\ Again(b) \subseteq Asks
    BY <2>1, AskFacts, OnItsWayAsks DEF Base
  <2> HIDE DEF b
  <2>3. stale' \subseteq stale \cup Astray(b) \cup Again(b) /\ excused' \subseteq excused \cup {b[1]}
    BY <1>12 DEF RejectEvicted, Reject, b
  <2>4. tombs' \subseteq tombs \cup {b} /\ refused' \subseteq refused \cup {b} /\ batch' = batch
    BY <1>12 DEF RejectEvicted, b
  <2> QED BY <2>1, <2>2, <2>3, <2>4 DEF Base, Types, AskTypes
<1>13. ASSUME Resolved PROVE AskTypes'
  <2> DEFINE n == Head(notes)
  <2>1. n \in ToSet(notes) /\ n.kind = "resolved"
    BY <1>13, TailSet DEF Resolved, Handles, Base, Types, LineTypes
  <2>2. n.id \in Ids
    BY <2>1 DEF Base, LineFits
  <2>3. Source(n.id) \subseteq Asks
    BY <2>2, OnItsWayAsks DEF Base
  <2> HIDE DEF n
  <2>4. tombs' = tombs \cup Source(n.id) /\ stale' \subseteq stale \cup OnItsWay /\ excused' \subseteq excused \cup {n.id}
    BY <1>13 DEF Resolved, n
  <2> QED BY <1>13, <2>2, <2>3, <2>4, OnItsWayAsks DEF Resolved, Handles, Base, Types, AskTypes
<1>14. ASSUME Drop PROVE AskTypes'
  <2>1. \E S \in SUBSET Asks : excused' = excused \cup Torn(S)
    BY <1>14, OnItsWayAsks DEF Drop, Prompt, Base
  <2> QED BY <1>14, <2>1, OnItsWayAsks DEF Drop, Base, Types, AskTypes
<1>15. ASSUME Wipe PROVE AskTypes'
  <2>1. \E S \in SUBSET Asks : excused' = excused \cup Torn(S)
    BY <1>15, OnItsWayAsks DEF Wipe, Prompt, Base
  <2> QED BY <1>15, <2>1, OnItsWayAsks DEF Wipe, Base, Types, AskTypes
<1>16. ASSUME NEW u \in Users, Respond(u) PROVE AskTypes'
  <2>1. stale' \subseteq stale \cup Astray(us[u].ask)
    BY <1>16 DEF Respond
  <2> QED BY <1>16, <2>1, OnItsWayAsks DEF Respond, Base, Types, AskTypes
<1>17. ASSUME NEW u \in Users, Bury(u) PROVE AskTypes'
  <2>1. us[u].ask \in Asks
    BY <1>17, InHandAsks DEF Bury, Base
  <2> QED BY <1>17, <2>1 DEF Bury, Base, Types, AskTypes
<1>18. ASSUME NEW u \in Users, Discard(u) PROVE AskTypes'
  <2>1. \E S \in SUBSET Asks : excused' = excused \cup Torn(S)
    BY <1>18, OnItsWayAsks DEF Discard, Prompt, Base
  <2> QED BY <1>18, <2>1, OnItsWayAsks DEF Discard, Base, Types, AskTypes
<1>19. ASSUME UNCHANGED <<tombs, batch, excused, stale, refused>> PROVE AskTypes'
  BY <1>19 DEF Base, Types, AskTypes
<1>20. ASSUME
       StartTurn \/ FinalizeLoss \/ FinalizeExit \/ IdleStatus \/ ClientExited
      PROVE AskTypes'
  BY <1>20, <1>19 DEF StartTurn, FinalizeLoss, FinalizeExit, IdleStatus, Handles,
                      ClientExited
<1>21. ASSUME NEW u \in Users,
       Choose(u)
      PROVE AskTypes'
  BY <1>21, <1>19 DEF Choose
<1>22. ASSUME NEW u \in Users, Leaves(u) PROVE AskTypes'
  BY <1>22, OnItsWayAsks DEF Leaves, Base, Types, AskTypes
<1> QED BY <1>1, <1>2, <1>3, <1>4, <1>5, <1>6, <1>7, <1>8, <1>9, <1>10, <1>11, <1>12, <1>13,
           <1>14, <1>15, <1>16, <1>17, <1>18, <1>19, <1>20, <1>21, <1>22
     DEF Next, vars, ProcessStep, ClientStep, RequestTask, NoteTask, User

\* Every task is where it can be, with the question it has in hand.
LEMMA PlaceTypesStep ==
  ASSUME Base, [Next]_vars
  PROVE  PlaceTypes'
<1>1. ASSUME Receive PROVE PlaceTypes'
  <2>1. \E a \in Asks : Take(a)
    <3>1. ASSUME relay # <<>> PROVE Head(relay) \in Asks
      BY <3>1, TailSet DEF Base, Types, RelayTypes
    <3> QED BY <1>1, <3>1 DEF Receive, Base, Types, AskTypes
  <2>2. UNCHANGED <<nt, us>>
    BY <1>1 DEF Receive
  <2> QED BY <2>1, <2>2, AskFacts DEF Take, RtGoes, Base, Types, PlaceTypes
<1>2. ASSUME Judge PROVE PlaceTypes'
  <2>1. rt.ask \in Asks
    BY <1>2, InHandAsks DEF Judge, Base
  <2>2. UNCHANGED <<nt, us>> /\ (RtGoes("recv", NoAsk) \/ RtGoes("insert", rt.ask))
    BY <1>2 DEF Judge
  <2> QED BY <2>1, <2>2, AskFacts DEF RtGoes, Base, Types, PlaceTypes
<1>3. ASSUME Insert PROVE PlaceTypes'
  <2> DEFINE a == rt.ask  grown == Append(shown, a)
  <2>1. a \in Asks
    BY <1>3, InHandAsks DEF Insert, Base
  <2>2. shown \in Seq(Asks)
    BY DEF Base, Types, ShownTypes
  <2>3. Head(grown) \in Asks
    BY <2>1, <2>2
  <2> HIDE DEF grown
  <2>4. RtGoes("recv", NoAsk) \/ RtGoes("reject", Head(grown))
    BY <1>3 DEF Insert, grown, a
  <2> QED BY <1>3, <2>3, <2>4, AskFacts DEF Insert, RtGoes, Base, Types, PlaceTypes
<1>4. ASSUME RejectEvicted PROVE PlaceTypes'
  BY <1>4, AskFacts DEF RejectEvicted, RtGoes, Base, Types, PlaceTypes
<1>5. ASSUME Resolved PROVE PlaceTypes'
  <2>1. Head(notes) \in Notes
    BY <1>5, TailSet DEF Resolved, Handles, Base, Types, LineTypes
  <2>2. UNCHANGED <<rt, us>> /\ (nt' = nt \/ NtGoes("drop", Head(notes)))
    BY <1>5 DEF Resolved, Handles
  <2> QED BY <2>1, <2>2 DEF NtGoes, Base, Types, PlaceTypes
<1>6. ASSUME IdleStatus PROVE PlaceTypes'
  <2>1. Head(notes) \in Notes
    BY <1>6, TailSet DEF IdleStatus, Handles, Base, Types, LineTypes
  <2>2. UNCHANGED <<rt, us>> /\ (nt' = nt \/ NtGoes("wipe", Head(notes)))
    BY <1>6 DEF IdleStatus, Handles
  <2> QED BY <2>1, <2>2 DEF NtGoes, Base, Types, PlaceTypes
<1>7. ASSUME ClientExited PROVE PlaceTypes'
  <2>1. Head(notes) \in Notes
    BY <1>7, TailSet DEF ClientExited, Handles, Base, Types, LineTypes
  <2>2. UNCHANGED <<rt, us>> /\ (nt' = nt \/ NtGoes("wipe", Head(notes)))
    BY <1>7 DEF ClientExited, Handles
  <2> QED BY <2>1, <2>2 DEF NtGoes, Base, Types, PlaceTypes
<1>8. ASSUME Drop PROVE PlaceTypes'
  <2>1. NoNote \in Notes
    BY BoundsAssumption DEF NoNote, Notes
  <2> QED BY <1>8, <2>1 DEF Drop, NtGoes, Base, Types, PlaceTypes
<1>9. ASSUME Wipe PROVE PlaceTypes'
  <2>1. NoNote \in Notes
    BY BoundsAssumption DEF NoNote, Notes
  <2> QED BY <1>9, <2>1 DEF Wipe, NtGoes, Base, Types, PlaceTypes
<1>10. ASSUME NEW u \in Users, Choose(u) PROVE PlaceTypes'
  <2>1. \E a \in Asks : UsGoes(u, "answer", a)
    BY <1>10, OnItsWayAsks DEF Choose, Base
  <2> QED BY <1>10, <2>1, AskFacts DEF Choose, UsGoes, Base, Types, PlaceTypes
<1>11. ASSUME NEW u \in Users, Respond(u) PROVE PlaceTypes'
  <2>1. us[u].ask \in Asks
    BY <1>11, InHandAsks DEF Respond, Base
  <2>2. UNCHANGED <<rt, nt>> /\ (UsGoes(u, "tomb", us[u].ask) \/ UsGoes(u, "idle", NoAsk))
    BY <1>11 DEF Respond
  <2> QED BY <2>1, <2>2, AskFacts DEF UsGoes, Base, Types, PlaceTypes
<1>12. ASSUME NEW u \in Users, Bury(u) PROVE PlaceTypes'
  <2>1. us[u].ask \in Asks
    BY <1>12, InHandAsks DEF Bury, Base
  <2> QED BY <1>12, <2>1, AskFacts DEF Bury, UsGoes, Base, Types, PlaceTypes
<1>13. ASSUME NEW u \in Users, Discard(u) PROVE PlaceTypes'
  BY <1>13, AskFacts DEF Discard, UsGoes, Base, Types, PlaceTypes
<1>14. ASSUME UNCHANGED <<rt, nt, us>> PROVE PlaceTypes'
  BY <1>14 DEF Base, Types, PlaceTypes
<1>15. ASSUME
       Connect \/ StartTurn \/ AsksUser \/ EndsTurn \/ Exits \/ LosesLink \/ FinalizeLoss
       \/ FinalizeExit \/ Replay
      PROVE PlaceTypes'
  BY <1>15, <1>14 DEF Connect, StartTurn, AsksUser, EndsTurn, Exits, LosesLink, FinalizeLoss,
                      FinalizeExit, Replay
<1>16. ASSUME NEW j \in Ids,
       Withdraws(j)
      PROVE PlaceTypes'
  BY <1>16, <1>14 DEF Withdraws
<1>17. ASSUME NEW g \in Gens,
       Read(g)
      PROVE PlaceTypes'
  BY <1>17, <1>14 DEF Read
<1>18. ASSUME NEW u \in Users, Leaves(u) PROVE PlaceTypes'
  BY <1>18, AskFacts DEF Leaves, UsGoes, Base, Types, PlaceTypes
<1> QED BY <1>1, <1>2, <1>3, <1>4, <1>5, <1>6, <1>7, <1>8, <1>9, <1>10, <1>11, <1>12, <1>13,
           <1>14, <1>15, <1>16, <1>17, <1>18
     DEF Next, vars, ProcessStep, ClientStep, RequestTask, NoteTask, User

\* Flags stay flags.
LEMMA FlagTypesStep ==
  ASSUME Base, [Next]_vars
  PROVE  FlagTypes'
<1>1. ASSUME Connect PROVE FlagTypes'
  BY <1>1, Zenon DEF Connect, procVars, gateVars, Base, Types, FlagTypes
<1>2. ASSUME StartTurn PROVE FlagTypes'
  BY <1>2, Zenon DEF StartTurn, linkVars, Base, Types, FlagTypes
<1>3. ASSUME AsksUser PROVE FlagTypes'
  BY <1>3, Zenon DEF AsksUser, Says, linkVars, gateVars, Base, Types, FlagTypes
<1>4. ASSUME EndsTurn PROVE FlagTypes'
  BY <1>4, Zenon DEF EndsTurn, Says, linkVars, gateVars, Base, Types, FlagTypes
<1>5. ASSUME Exits PROVE FlagTypes'
  BY <1>5, Zenon DEF Exits, gateVars, Base, Types, FlagTypes
<1>6. ASSUME LosesLink PROVE FlagTypes'
  BY <1>6, Zenon DEF LosesLink, procVars, gateVars, Base, Types, FlagTypes
<1>7. ASSUME NEW j \in Ids, Withdraws(j) PROVE FlagTypes'
  BY <1>7, Zenon DEF Withdraws, Says, procVars, linkVars, gateVars, Base, Types, FlagTypes
<1>8. ASSUME NEW g \in Gens, Read(g) PROVE FlagTypes'
  BY <1>8, Zenon DEF Read, procVars, linkVars, gateVars, Base, Types, FlagTypes
<1>9. ASSUME Replay PROVE FlagTypes'
  BY <1>9, Zenon DEF Replay, procVars, linkVars, gateVars, Base, Types, FlagTypes
<1>10. ASSUME Judge PROVE FlagTypes'
  BY <1>10, Zenon DEF Judge, Answer, Unsent, Reject, procVars, linkVars, gateVars, Base,
                      Types, FlagTypes
<1>11. ASSUME RejectEvicted PROVE FlagTypes'
  BY <1>11, Zenon DEF RejectEvicted, Reject, procVars, linkVars, gateVars, Answer, Unsent,
                      Base, Types, FlagTypes
<1>12. ASSUME IdleStatus PROVE FlagTypes'
  <2>1. busy' = busy \/ busy' = FALSE
    BY <1>12 DEF IdleStatus
  <2> QED BY <1>12, <2>1, Zenon DEF IdleStatus, Handles, linkVars, procVars, Base, Types, FlagTypes
<1>13. ASSUME ClientExited PROVE FlagTypes'
  BY <1>13, Zenon DEF ClientExited, Handles, procVars, linkVars, Base, Types, FlagTypes
<1>14. ASSUME NEW u \in Users, Respond(u) PROVE FlagTypes'
  BY <1>14, Zenon DEF Respond, Answer, Unsent, procVars, linkVars, gateVars, Base, Types,
                      FlagTypes
<1>15. ASSUME UNCHANGED <<auto, working, up, lagged, busy, assigned, bereft, misfit, deaf>> PROVE FlagTypes'
  BY <1>15 DEF Base, Types, FlagTypes
<1>16. ASSUME
       FinalizeLoss \/ FinalizeExit \/ Receive \/ Insert \/ Resolved \/ Drop \/ Wipe
      PROVE FlagTypes'
  BY <1>16, <1>15 DEF FinalizeLoss, procVars, gateVars, FinalizeExit, Receive, linkVars,
                      Insert, Resolved, Handles, Drop, Wipe
<1>17. ASSUME NEW u \in Users,
       Choose(u) \/ Bury(u) \/ Discard(u) \/ Leaves(u)
      PROVE FlagTypes'
  BY <1>17, <1>15 DEF Choose, procVars, linkVars, gateVars, Bury, Discard, Leaves
<1> QED BY <1>1, <1>2, <1>3, <1>4, <1>5, <1>6, <1>7, <1>8, <1>9, <1>10, <1>11, <1>12, <1>13,
           <1>14, <1>15, <1>16, <1>17
     DEF Next, vars, ProcessStep, ClientStep, RequestTask, NoteTask, User

\* The counters stay within their bounds.
LEMMA CountTypesStep ==
  ASSUME Base, [Next]_vars
  PROVE  CountTypes'
<1>1. ASSUME StartTurn PROVE CountTypes'
  BY <1>1, BoundsAssumption DEF StartTurn, Base, Types, CountTypes
<1>2. ASSUME AsksUser PROVE CountTypes'
  BY <1>2, BoundsAssumption DEF AsksUser, Base, Types, CountTypes
<1>3. ASSUME Exits PROVE CountTypes'
  BY <1>3, BoundsAssumption DEF Exits, Fault, Base, Types, CountTypes
<1>4. ASSUME LosesLink PROVE CountTypes'
  BY <1>4, BoundsAssumption DEF LosesLink, Fault, Base, Types, CountTypes
<1>5. ASSUME UNCHANGED <<total, turns, faults>> PROVE CountTypes'
  BY <1>5 DEF Base, Types, CountTypes
<1>6. ASSUME
       Connect \/ EndsTurn \/ FinalizeLoss \/ FinalizeExit \/ Replay \/ Receive \/ Judge \/
       Insert \/ RejectEvicted \/ Resolved \/ IdleStatus \/ ClientExited \/ Drop \/ Wipe
      PROVE CountTypes'
  BY <1>6, <1>5 DEF Connect, bounds, EndsTurn, FinalizeLoss, FinalizeExit, Replay, Receive,
                    Judge, Insert, RejectEvicted, Resolved, Handles, IdleStatus,
                    ClientExited, Drop, Wipe
<1>7. ASSUME NEW j \in Ids,
       Withdraws(j)
      PROVE CountTypes'
  BY <1>7, <1>5 DEF Withdraws, bounds
<1>8. ASSUME NEW g \in Gens,
       Read(g)
      PROVE CountTypes'
  BY <1>8, <1>5 DEF Read, bounds
<1>9. ASSUME NEW u \in Users,
       Choose(u) \/ Respond(u) \/ Bury(u) \/ Discard(u)
      PROVE CountTypes'
  BY <1>9, <1>5 DEF Choose, bounds, Respond, Bury, Discard
<1>10. ASSUME NEW u \in Users, Leaves(u) PROVE CountTypes'
  BY <1>10, BoundsAssumption DEF Leaves, Fault, Base, Types, CountTypes
<1> QED BY <1>1, <1>2, <1>3, <1>4, <1>5, <1>6, <1>7, <1>8, <1>9, <1>10
     DEF Next, vars, ProcessStep, ClientStep, RequestTask, NoteTask, User

----------------------------------------------------------------------------
(* What steps do to the lines, the processes and the questions.            *)

\* A line said on the connection there is.
Said(l) == up /\ lines' = [lines EXCEPT ![inst] = Append(@, l)]

\* What is said is among the lines of the connection.
LEMMA SaidSet ==
  ASSUME Base, NEW l \in Lines, Said(l)
  PROVE  /\ inst \in Gens
         /\ \A g \in Gens : ToSet(lines'[g]) = ToSet(lines[g]) \cup IF g = inst THEN {l} ELSE {}
<1>1. inst \in Gens
  BY UpGen DEF Said
<1>2. ASSUME NEW g \in Gens PROVE ToSet(lines'[g]) = ToSet(lines[g]) \cup IF g = inst THEN {l} ELSE {}
  <2>1. lines[g] \in Seq(Lines)
    BY DEF Base, Types, LineTypes
  <2>2. lines'[g] = IF g = inst THEN Append(lines[g], l) ELSE lines[g]
    BY <1>1 DEF Said, Base, Types, LineTypes
  <2> QED BY <2>1, <2>2, AppendSet
<1> QED BY <1>1, <1>2

SaysStep ==
  \/ LosesLink
  \/ \E g \in Gens : Read(g)
  \/ AsksUser /\ asked + 1 \in Ids /\ Said(Line("ask", asked + 1))
  \/ Said(Line("idle", 0))
  \/ \E i \in open : open' = open \ {i} /\ Said(Line("resolved", i))

\* What a step does to the lines.
LEMMA LinesStep ==
  ASSUME Base, [Next]_vars
  PROVE  UNCHANGED lines \/ SaysStep
<1>1. ASSUME AsksUser PROVE UNCHANGED lines \/ SaysStep
  <2>1. asked + 1 \in Ids
    BY <1>1, BoundsAssumption DEF AsksUser, Base, Types, LinkTypes, Ids
  <2> QED BY <1>1, <2>1 DEF AsksUser, Says, Said, SaysStep
<1>2. ASSUME EndsTurn PROVE UNCHANGED lines \/ SaysStep
  BY <1>2 DEF EndsTurn, Says, Said, SaysStep
<1>3. ASSUME LosesLink PROVE UNCHANGED lines \/ SaysStep
  BY <1>3 DEF SaysStep
<1>4. ASSUME NEW j \in Ids, Withdraws(j) PROVE UNCHANGED lines \/ SaysStep
  BY <1>4 DEF Withdraws, Says, Said, SaysStep
<1>5. ASSUME NEW g \in Gens, Read(g) PROVE UNCHANGED lines \/ SaysStep
  BY <1>5 DEF SaysStep
<1>6. ASSUME Judge PROVE UNCHANGED lines \/ SaysStep
  <2>1. UNCHANGED lines \/ (CanWrite(rt.ask) /\ Answer(rt.ask))
    BY <1>6 DEF Judge, Reject, Unsent
  <2> QED BY <2>1 DEF Answer, CanWrite, Said, SaysStep
<1>7. ASSUME RejectEvicted PROVE UNCHANGED lines \/ SaysStep
  <2>1. UNCHANGED lines \/ (CanWrite(rt.ask) /\ Answer(rt.ask))
    BY <1>7 DEF RejectEvicted, Reject, Unsent
  <2> QED BY <2>1 DEF Answer, CanWrite, Said, SaysStep
<1>8. ASSUME NEW u \in Users, Respond(u) PROVE UNCHANGED lines \/ SaysStep
  <2>1. UNCHANGED lines \/ (CanWrite(us[u].ask) /\ Answer(us[u].ask))
    BY <1>8 DEF Respond, Reject, Unsent
  <2> QED BY <2>1 DEF Answer, CanWrite, Said, SaysStep
<1>9. ASSUME UNCHANGED <<lines>> PROVE UNCHANGED lines \/ SaysStep
  BY <1>9
<1>10. ASSUME
       Connect \/ StartTurn \/ Exits \/ FinalizeLoss \/ FinalizeExit \/ Replay \/ Receive
       \/ Insert \/ Resolved \/ IdleStatus \/ ClientExited \/ Drop \/ Wipe
      PROVE UNCHANGED lines \/ SaysStep
  BY <1>10, <1>9 DEF Connect, StartTurn, Exits, FinalizeLoss, FinalizeExit, Replay, Receive,
                     Insert, Resolved, Handles, IdleStatus, ClientExited, Drop, Wipe
<1>11. ASSUME NEW u \in Users,
       Choose(u) \/ Bury(u) \/ Discard(u) \/ Leaves(u)
      PROVE UNCHANGED lines \/ SaysStep
  BY <1>11, <1>9 DEF Choose, Bury, Discard, Leaves
<1> QED BY <1>1, <1>2, <1>3, <1>4, <1>5, <1>6, <1>7, <1>8, <1>9, <1>10, <1>11
     DEF Next, vars, ProcessStep, ClientStep, RequestTask, NoteTask, User

OriginKept ==
  /\ gens \in Nat /\ gens' \in Nat /\ gens <= gens'
  /\ \A g \in Gens : g <= gens => origin'[g] = origin[g]
  /\ \/ UNCHANGED <<proc, procs, asked>>
     \/ proc = 0 /\ proc' = procs + 1 /\ procs' = procs + 1
     \/ proc # 0 /\ proc' = 0 /\ UNCHANGED <<procs, asked>>
     \/ UNCHANGED <<proc, procs>> /\ asked' = asked + 1

\* The process a connection talks to stays the same; processes and their questions
\* are counted on.
LEMMA OriginStep ==
  ASSUME Base, [Next]_vars
  PROVE  OriginKept
<1>1. ASSUME Connect PROVE OriginKept
  BY <1>1, BoundsAssumption DEF Connect, procVars, Base, Types, LinkTypes, OriginKept, Gens
<1>2. ASSUME AsksUser PROVE OriginKept
  BY <1>2, BoundsAssumption DEF AsksUser, linkVars, Base, Types, LinkTypes, OriginKept, Gens
<1>3. ASSUME Exits PROVE OriginKept
  BY <1>3, BoundsAssumption DEF Exits, Base, Types, LinkTypes, OriginKept, Gens
<1>4. ASSUME UNCHANGED <<proc, procs, asked, gens, origin>> PROVE OriginKept
  BY <1>4 DEF Base, Types, LinkTypes, OriginKept, Gens
<1>5. ASSUME
       StartTurn \/ EndsTurn \/ LosesLink \/ FinalizeLoss \/ FinalizeExit \/ Replay \/
       Receive \/ Judge \/ Insert \/ RejectEvicted \/ Resolved \/ IdleStatus \/
       ClientExited \/ Drop \/ Wipe
      PROVE OriginKept
  BY <1>5, <1>4 DEF StartTurn, linkVars, EndsTurn, LosesLink, procVars, FinalizeLoss,
                    FinalizeExit, Replay, Receive, Judge, Insert, RejectEvicted, Resolved,
                    Handles, IdleStatus, ClientExited, Drop, Wipe
<1>6. ASSUME NEW j \in Ids,
       Withdraws(j)
      PROVE OriginKept
  BY <1>6, <1>4 DEF Withdraws, procVars, linkVars
<1>7. ASSUME NEW g \in Gens,
       Read(g)
      PROVE OriginKept
  BY <1>7, <1>4 DEF Read, procVars, linkVars
<1>8. ASSUME NEW u \in Users,
       Choose(u) \/ Respond(u) \/ Bury(u) \/ Discard(u) \/ Leaves(u)
      PROVE OriginKept
  BY <1>8, <1>4 DEF Choose, procVars, linkVars, Respond, Bury, Discard, Leaves
<1> QED BY <1>1, <1>2, <1>3, <1>4, <1>5, <1>6, <1>7, <1>8
     DEF Next, vars, ProcessStep, ClientStep, RequestTask, NoteTask, User

\* A generation of the running process was one before the step, unless it is new.
Mine(g) == g <= gens /\ origin[g] = proc

LEMMA MineKept ==
  ASSUME Base, OriginKept, NEW g \in Gens, g <= gens
  PROVE  /\ Mine(g)' => Mine(g) /\ proc' = proc /\ proc # 0 /\ UNCHANGED procs
         /\ Mine(g) /\ proc' = proc => Mine(g)'
         /\ Mine(g) => proc # 0
         /\ proc' # 0 /\ proc' # proc => ~Mine(g)'
<1>1. origin[g] \in 1..procs /\ g \in Nat /\ procs \in Nat /\ proc \in Nat
  BY BoundsAssumption DEF Base, LinkInv, Types, LinkTypes, Gens
<1>2. origin'[g] = origin[g] /\ g <= gens'
  BY <1>1 DEF OriginKept
<1> QED BY <1>1, <1>2 DEF OriginKept, Mine

LEMMA LinesOfKept ==
  ASSUME Base, [Next]_vars, NEW g \in Gens, NEW l \in ToSet(lines'[g])
  PROVE  \/ l \in ToSet(lines[g])
         \/ g = inst /\ up /\ AsksUser /\ l = Line("ask", asked + 1) /\ asked + 1 \in Ids
         \/ g = inst /\ up /\ l = Line("idle", 0)
         \/ \E i \in open : g = inst /\ up /\ open' = open \ {i} /\ l = Line("resolved", i)
<1>1. CASE UNCHANGED lines
  BY <1>1
<1>2. CASE LosesLink
  <2>1. lines'[g] = lines[g] \/ lines'[g] = <<>>
    BY <1>2 DEF LosesLink, Base, Types, LineTypes
  <2> QED BY <2>1, EmptySet
<1>3. ASSUME NEW h \in Gens, Read(h) PROVE l \in ToSet(lines[g])
  <2>1. lines[h] # <<>> /\ lines'[g] = IF g = h THEN Tail(lines[g]) ELSE lines[g]
    BY <1>3 DEF Read, Base, Types, LineTypes
  <2> QED BY <2>1, TailSet DEF Base, Types, LineTypes
<1>4. CASE AsksUser /\ asked + 1 \in Ids /\ Said(Line("ask", asked + 1))
  <2>1. ToSet(lines'[g]) = ToSet(lines[g]) \cup IF g = inst THEN {Line("ask", asked + 1)} ELSE {}
    BY <1>4, SaidSet, LineFacts
  <2> QED BY <1>4, <2>1 DEF Said
<1>5. CASE Said(Line("idle", 0))
  <2>1. ToSet(lines'[g]) = ToSet(lines[g]) \cup IF g = inst THEN {Line("idle", 0)} ELSE {}
    BY <1>5, SaidSet, LineFacts
  <2> QED BY <1>5, <2>1 DEF Said
<1>6. ASSUME NEW i \in open, open' = open \ {i}, Said(Line("resolved", i))
      PROVE  l \in ToSet(lines[g]) \/ (g = inst /\ up /\ open' = open \ {i} /\ l = Line("resolved", i))
  <2>1. i \in Ids
    BY DEF Base, Types, LinkTypes
  <2>2. ToSet(lines'[g]) = ToSet(lines[g]) \cup IF g = inst THEN {Line("resolved", i)} ELSE {}
    BY <1>6, <2>1, SaidSet, LineFacts
  <2> QED BY <1>6, <2>2 DEF Said
<1> QED BY <1>1, <1>2, <1>3, <1>4, <1>5, <1>6, LinesStep DEF SaysStep

NoteFits == \A n \in ToSet(notes) : n.of \in 1..procs /\ (n.kind = "resolved" => n.id \in Ids)

LEMMA NoteFitsStep ==
  ASSUME Base, NoteFits, [Next]_vars
  PROVE  NoteFits'
<1>1. ASSUME Connect PROVE NoteFits'
  <2>1. procs <= procs' /\ UNCHANGED notes
    BY <1>1, BoundsAssumption DEF Connect, procVars, Base, Types, LinkTypes
  <2>2. procs \in Nat /\ procs' \in Nat
    BY <1>1, BoundsAssumption DEF Connect, procVars, Base, Types, LinkTypes
  <2> QED BY <2>1, <2>2 DEF Base, LineFits, NoteFits
<1>2. ASSUME FinalizeExit PROVE NoteFits'
  <2>1. inst \in Gens /\ inst <= gens
    BY <1>2, BoundsAssumption DEF FinalizeExit, Ending, Base, LinkInv, Types, LinkTypes, Gens
  <2>2. origin[inst] \in 1..procs /\ UNCHANGED procs
    BY <1>2, <2>1 DEF FinalizeExit, procVars, Base, LinkInv
  <2> DEFINE n == [kind |-> "exited", id |-> 0, of |-> origin[inst]]
  <2>3. n \in Notes /\ n.of = origin[inst] /\ n.kind = "exited"
    BY <2>1 DEF Base, Types, LinkTypes, Notes
  <2>4. notes' = Append(notes, n)
    BY <1>2 DEF FinalizeExit
  <2> HIDE DEF n
  <2>5. ToSet(notes') = ToSet(notes) \cup {n}
    BY <2>3, <2>4, AppendSet DEF Base, Types, LineTypes
  <2> QED BY <2>2, <2>3, <2>5 DEF Base, LineFits, NoteFits
<1>3. ASSUME NEW g \in Gens, Read(g) PROVE NoteFits'
  <2> DEFINE l == Head(lines[g])
  <2>1. l \in Lines /\ l \in ToSet(lines[g]) /\ lines[g] # <<>>
    BY <1>3, TailSet DEF Read, Base, Types, LineTypes
  <2>2. origin[g] \in 1..procs
    BY <2>1 DEF Base, LinkInv
  <2>3. UNCHANGED procs
    BY <1>3 DEF Read, procVars
  <2>4. notes' = notes \/ (notes' = Append(notes, [kind |-> l.kind, id |-> l.id, of |-> origin[g]]) /\ l.kind # "ask")
    BY <1>3 DEF Read
  <2>5. [kind |-> l.kind, id |-> l.id, of |-> origin[g]] \in Notes \/ l.kind = "ask"
    BY <2>1 DEF Lines, Notes, Base, Types, LinkTypes
  <2>6. l.kind = "resolved" => l.id \in Ids
    BY <2>1 DEF Base, LineFits
  <2> HIDE DEF l
  <2>7. notes \in Seq(Notes)
    BY DEF Base, Types, LineTypes
  <2>8. ASSUME notes' = Append(notes, [kind |-> l.kind, id |-> l.id, of |-> origin[g]]), l.kind # "ask"
        PROVE  ToSet(notes') = ToSet(notes) \cup {[kind |-> l.kind, id |-> l.id, of |-> origin[g]]}
    BY <2>5, <2>7, <2>8, AppendSet
  <2> QED BY <2>2, <2>3, <2>4, <2>6, <2>8 DEF Base, LineFits, NoteFits
<1>4. ASSUME Resolved PROVE NoteFits'
  <2>1. ToSet(notes') \subseteq ToSet(notes) /\ UNCHANGED procs
    BY <1>4, TailSet DEF Resolved, Handles, procVars, Base, Types, LineTypes
  <2> QED BY <2>1 DEF Base, LineFits, NoteFits
<1>5. ASSUME IdleStatus PROVE NoteFits'
  <2>1. ToSet(notes') \subseteq ToSet(notes) /\ UNCHANGED procs
    BY <1>5, TailSet DEF IdleStatus, Handles, procVars, Base, Types, LineTypes
  <2> QED BY <2>1 DEF Base, LineFits, NoteFits
<1>6. ASSUME ClientExited PROVE NoteFits'
  <2>1. ToSet(notes') \subseteq ToSet(notes) /\ UNCHANGED procs
    BY <1>6, TailSet DEF ClientExited, Handles, procVars, Base, Types, LineTypes
  <2> QED BY <2>1 DEF Base, LineFits, NoteFits
<1>7. ASSUME UNCHANGED <<notes, procs>> PROVE NoteFits'
  BY <1>7 DEF NoteFits
<1>8. ASSUME
       StartTurn \/ AsksUser \/ EndsTurn \/ Exits \/ LosesLink \/ FinalizeLoss \/ Replay \/
       Receive \/ Judge \/ Insert \/ RejectEvicted \/ Drop \/ Wipe
      PROVE NoteFits'
  BY <1>8, <1>7 DEF StartTurn, AsksUser, EndsTurn, Exits, LosesLink, procVars, FinalizeLoss,
                    Replay, Receive, Judge, Insert, RejectEvicted, Drop, Wipe
<1>9. ASSUME NEW j \in Ids,
       Withdraws(j)
      PROVE NoteFits'
  BY <1>9, <1>7 DEF Withdraws, procVars
<1>10. ASSUME NEW u \in Users,
       Choose(u) \/ Respond(u) \/ Bury(u) \/ Discard(u) \/ Leaves(u)
      PROVE NoteFits'
  BY <1>10, <1>7 DEF Choose, procVars, Respond, Bury, Discard, Leaves
<1> QED BY <1>1, <1>2, <1>3, <1>4, <1>5, <1>6, <1>7, <1>8, <1>9, <1>10
     DEF Next, vars, ProcessStep, ClientStep, RequestTask, NoteTask, User

LEMMA NtFitsStep ==
  ASSUME Base, [Next]_vars
  PROVE  nt'.at = "drop" => nt'.note.id \in Ids
<1>1. ASSUME Resolved PROVE nt'.at = "drop" => nt'.note.id \in Ids
  <2>1. Head(notes) \in ToSet(notes) /\ Head(notes).kind = "resolved" /\ Head(notes) \in Notes
    BY <1>1, TailSet DEF Resolved, Handles, Base, Types, LineTypes
  <2>2. Head(notes).id \in Ids
    BY <2>1 DEF Base, LineFits
  <2>3. nt'.note = Head(notes)
    BY <1>1 DEF Resolved, NtGoes
  <2> QED BY <2>2, <2>3
<1>2. ASSUME IdleStatus PROVE nt'.at = "drop" => nt'.note.id \in Ids
  <2>1. nt' = nt \/ nt'.at = "wipe"
    BY <1>2 DEF IdleStatus, NtGoes
  <2> QED BY <2>1 DEF Base, LineFits
<1>3. ASSUME ClientExited PROVE nt'.at = "drop" => nt'.note.id \in Ids
  BY <1>3 DEF ClientExited, NtGoes, Base, LineFits
<1>4. ASSUME Drop PROVE nt'.at = "drop" => nt'.note.id \in Ids
  BY <1>4 DEF Drop, NtGoes, Base, LineFits
<1>5. ASSUME Wipe PROVE nt'.at = "drop" => nt'.note.id \in Ids
  BY <1>5 DEF Wipe, NtGoes, Base, LineFits
<1>6. ASSUME UNCHANGED <<nt>> PROVE nt'.at = "drop" => nt'.note.id \in Ids
  BY <1>6 DEF NtGoes, Base, LineFits
<1>7. ASSUME
       Connect \/ StartTurn \/ AsksUser \/ EndsTurn \/ Exits \/ LosesLink \/ FinalizeLoss
       \/ FinalizeExit \/ Replay \/ Receive \/ Judge \/ Insert \/ RejectEvicted
      PROVE nt'.at = "drop" => nt'.note.id \in Ids
  BY <1>7, <1>6 DEF Connect, StartTurn, AsksUser, EndsTurn, Exits, LosesLink, FinalizeLoss,
                    FinalizeExit, Replay, Receive, Judge, Insert, RejectEvicted
<1>8. ASSUME NEW j \in Ids,
       Withdraws(j)
      PROVE nt'.at = "drop" => nt'.note.id \in Ids
  BY <1>8, <1>6 DEF Withdraws
<1>9. ASSUME NEW g \in Gens,
       Read(g)
      PROVE nt'.at = "drop" => nt'.note.id \in Ids
  BY <1>9, <1>6 DEF Read
<1>10. ASSUME NEW u \in Users,
       Choose(u) \/ Respond(u) \/ Bury(u) \/ Discard(u) \/ Leaves(u)
      PROVE nt'.at = "drop" => nt'.note.id \in Ids
  BY <1>10, <1>6 DEF Choose, Respond, Bury, Discard, Leaves
<1> QED BY <1>1, <1>2, <1>3, <1>4, <1>5, <1>6, <1>7, <1>8, <1>9, <1>10
     DEF Next, vars, ProcessStep, ClientStep, RequestTask, NoteTask, User

\* LineFits is inductive.
LEMMA LineFitsStep ==
  ASSUME Base, [Next]_vars
  PROVE  LineFits'
<1>1. ASSUME NEW g \in Gens, NEW l \in ToSet(lines'[g]), l.kind # "idle" PROVE l.id \in Ids
  BY <1>1, LinesOfKept, LineFacts DEF Base, LineFits, Types, LinkTypes
<1>2. NoteFits
  BY DEF Base, LineFits, NoteFits
<1> QED BY <1>1, <1>2, NoteFitsStep, NtFitsStep DEF LineFits, NoteFits

\* A connection is one to the running process.
LEMMA LinkInvStep ==
  ASSUME Base, [Next]_vars
  PROVE  LinkInv'
<1>1. ASSUME Connect PROVE LinkInv'
  <2>1. /\ gens + 1 \in Gens /\ gens \in Nat /\ procs \in Nat /\ inst \in Nat /\ gens' = gens + 1 /\ inst' = gens + 1
        /\ UNCHANGED lines /\ origin' = [origin EXCEPT ![gens + 1] = proc'] /\ \A g \in Gens : g \in Nat
    BY <1>1, BoundsAssumption DEF Connect, Base, Types, LinkTypes, Gens
  <2>2. /\ proc' # 0 /\ proc' = procs' /\ procs <= procs' /\ procs' \in Nat
    BY <1>1, BoundsAssumption DEF Connect, Base, LinkInv, Types, LinkTypes, procVars
  <2>3. origin' \in [Gens -> Nat] /\ origin'[gens + 1] = proc' /\ \A g \in Gens : g # gens + 1 => origin'[g] = origin[g]
    BY <2>1, <2>2 DEF Base, Types, LinkTypes
  <2>4. \A g \in Gens : IF g <= gens' THEN origin'[g] \in 1..procs' ELSE origin'[g] = 0 /\ lines'[g] = <<>>
    BY <2>1, <2>2, <2>3 DEF Base, LinkInv
  <2> QED BY <2>1, <2>2, <2>3, <2>4 DEF LinkInv
<1>2. ASSUME AsksUser PROVE LinkInv'
  <2>1. \A g \in Gens : g <= gens \/ lines'[g] = lines[g]
    <3>1. lines' = lines \/ (up /\ \E l : lines' = [lines EXCEPT ![inst] = Append(@, l)])
      BY <1>2 DEF AsksUser, Says
    <3>2. up => inst <= gens /\ inst \in Gens
      BY UpGen
    <3>3. lines \in [Gens -> Seq(Lines)]
      BY DEF Base, Types, LineTypes
    <3> QED BY <3>1, <3>2, <3>3
  <2> QED BY <1>2, <2>1 DEF AsksUser, linkVars, Base, LinkInv
<1>3. ASSUME EndsTurn PROVE LinkInv'
  <2>1. \A g \in Gens : g <= gens \/ lines'[g] = lines[g]
    <3>1. lines' = lines \/ (up /\ \E l : lines' = [lines EXCEPT ![inst] = Append(@, l)])
      BY <1>3 DEF EndsTurn, Says
    <3>2. up => inst <= gens /\ inst \in Gens
      BY UpGen
    <3>3. lines \in [Gens -> Seq(Lines)]
      BY DEF Base, Types, LineTypes
    <3> QED BY <3>1, <3>2, <3>3
  <2> QED BY <1>3, <2>1 DEF EndsTurn, linkVars, Base, LinkInv
<1>4. ASSUME Exits PROVE LinkInv'
  <2>1. proc' = 0 /\ ~up' /\ UNCHANGED <<procs, inst, gens, origin, lines>>
    BY <1>4 DEF Exits
  <2> QED BY <2>1 DEF Base, LinkInv
<1>5. ASSUME LosesLink PROVE LinkInv'
  <2>1. \A h \in Gens : lines'[h] = lines[h] \/ lines'[h] = <<>>
    BY <1>5 DEF LosesLink, Base, Types, LineTypes
  <2>2. UNCHANGED <<proc, procs, inst, gens, origin>> /\ ~up'
    BY <1>5 DEF LosesLink, procVars
  <2> QED BY <2>1, <2>2 DEF Base, LinkInv
<1>6. ASSUME NEW j \in Ids, Withdraws(j) PROVE LinkInv'
  <2>1. \A g \in Gens : g <= gens \/ lines'[g] = lines[g]
    <3>1. lines' = lines \/ (up /\ \E l : lines' = [lines EXCEPT ![inst] = Append(@, l)])
      BY <1>6 DEF Withdraws, Says
    <3>2. up => inst <= gens /\ inst \in Gens
      BY UpGen
    <3>3. lines \in [Gens -> Seq(Lines)]
      BY DEF Base, Types, LineTypes
    <3> QED BY <3>1, <3>2, <3>3
  <2> QED BY <1>6, <2>1 DEF Withdraws, linkVars, procVars, Base, LinkInv
<1>7. ASSUME FinalizeLoss PROVE LinkInv'
  <2>1. ~up /\ inst' = 0 /\ UNCHANGED <<proc, procs, up, gens, origin, lines>>
    BY <1>7 DEF FinalizeLoss, procVars, Ending
  <2>2. gens \in Nat
    BY DEF Base, Types, LinkTypes
  <2> QED BY <2>1, <2>2 DEF Base, LinkInv
<1>8. ASSUME FinalizeExit PROVE LinkInv'
  <2>1. ~up /\ inst' = 0 /\ UNCHANGED <<proc, procs, up, gens, origin, lines>>
    BY <1>8 DEF FinalizeExit, procVars, Ending
  <2>2. gens \in Nat
    BY DEF Base, Types, LinkTypes
  <2> QED BY <2>1, <2>2 DEF Base, LinkInv
<1>9. ASSUME NEW g \in Gens, Read(g) PROVE LinkInv'
  <2>1. lines[g] # <<>> /\ \A h \in Gens : h = g \/ lines'[h] = lines[h]
    BY <1>9 DEF Read, Base, Types, LineTypes
  <2>2. UNCHANGED <<proc, procs, inst, up, gens, origin>>
    BY <1>9 DEF Read, linkVars, procVars
  <2> QED BY <2>1, <2>2 DEF Base, LinkInv
<1>10. ASSUME Judge PROVE LinkInv'
  <2>1. \A g \in Gens : g <= gens \/ lines'[g] = lines[g]
    <3>1. lines' = lines \/ (up /\ \E l : lines' = [lines EXCEPT ![inst] = Append(@, l)])
      BY <1>10 DEF Judge, Answer, Unsent, Reject, CanWrite
    <3>2. up => inst <= gens /\ inst \in Gens
      BY UpGen
    <3>3. lines \in [Gens -> Seq(Lines)]
      BY DEF Base, Types, LineTypes
    <3> QED BY <3>1, <3>2, <3>3
  <2> QED BY <1>10, <2>1 DEF Judge, linkVars, procVars, Base, LinkInv
<1>11. ASSUME RejectEvicted PROVE LinkInv'
  <2>1. \A g \in Gens : g <= gens \/ lines'[g] = lines[g]
    <3>1. lines' = lines \/ (up /\ \E l : lines' = [lines EXCEPT ![inst] = Append(@, l)])
      BY <1>11 DEF RejectEvicted, Answer, Unsent, Reject, CanWrite
    <3>2. up => inst <= gens /\ inst \in Gens
      BY UpGen
    <3>3. lines \in [Gens -> Seq(Lines)]
      BY DEF Base, Types, LineTypes
    <3> QED BY <3>1, <3>2, <3>3
  <2> QED BY <1>11, <2>1 DEF RejectEvicted, linkVars, procVars, Base, LinkInv
<1>12. ASSUME NEW u \in Users, Respond(u) PROVE LinkInv'
  <2>1. \A g \in Gens : g <= gens \/ lines'[g] = lines[g]
    <3>1. lines' = lines \/ (up /\ \E l : lines' = [lines EXCEPT ![inst] = Append(@, l)])
      BY <1>12 DEF Respond, Answer, Unsent, Reject, CanWrite
    <3>2. up => inst <= gens /\ inst \in Gens
      BY UpGen
    <3>3. lines \in [Gens -> Seq(Lines)]
      BY DEF Base, Types, LineTypes
    <3> QED BY <3>1, <3>2, <3>3
  <2> QED BY <1>12, <2>1 DEF Respond, linkVars, procVars, Base, LinkInv
<1>13. ASSUME UNCHANGED <<proc, procs, inst, up, gens, origin, lines>> PROVE LinkInv'
  BY <1>13 DEF Base, LinkInv
<1>14. ASSUME
       StartTurn \/ Replay \/ Receive \/ Insert \/ Resolved \/ IdleStatus \/ ClientExited
       \/ Drop \/ Wipe
      PROVE LinkInv'
  BY <1>14, <1>13 DEF StartTurn, linkVars, Replay, procVars, Receive, Insert, Resolved,
                      Handles, IdleStatus, ClientExited, Drop, Wipe
<1>15. ASSUME NEW u \in Users,
       Choose(u) \/ Bury(u) \/ Discard(u) \/ Leaves(u)
      PROVE LinkInv'
  BY <1>15, <1>13 DEF Choose, procVars, linkVars, Bury, Discard, Leaves
<1> QED BY <1>1, <1>2, <1>3, <1>4, <1>5, <1>6, <1>7, <1>8, <1>9, <1>10, <1>11, <1>12, <1>13,
           <1>14, <1>15
     DEF Next, vars, ProcessStep, ClientStep, RequestTask, NoteTask, User

\* Only a process that works has open questions.
LEMMA OpenInvStep ==
  ASSUME Base, [Next]_vars
  PROVE  OpenInv'
<1>1. ASSUME Connect PROVE OpenInv'
  <2>1. open' = open /\ (proc # 0 => UNCHANGED <<asked, working>> /\ proc' = proc) /\ (proc = 0 => proc' = procs + 1 /\ ~working')
    BY <1>1 DEF Connect, procVars
  <2>2. procs \in Nat
    BY DEF Base, Types, LinkTypes
  <2> QED BY <2>1, <2>2 DEF Base, OpenInv
<1>2. ASSUME StartTurn PROVE OpenInv'
  BY <1>2 DEF StartTurn, Base, OpenInv
<1>3. ASSUME AsksUser PROVE OpenInv'
  <2>1. proc # 0 /\ working /\ asked' = asked + 1 /\ open' = open \cup {asked + 1} /\ UNCHANGED <<proc, working>> /\ asked \in Nat
    BY <1>3 DEF AsksUser, Base, Types, LinkTypes
  <2> QED BY <2>1 DEF Base, OpenInv
<1>4. ASSUME EndsTurn PROVE OpenInv'
  BY <1>4 DEF EndsTurn, Base, OpenInv
<1>5. ASSUME Exits PROVE OpenInv'
  BY <1>5 DEF Exits, Base, OpenInv
<1>6. ASSUME NEW j \in Ids, Withdraws(j) PROVE OpenInv'
  BY <1>6 DEF Withdraws, procVars, Base, OpenInv
<1>7. ASSUME Judge PROVE OpenInv'
  <2>1. open' \subseteq open /\ UNCHANGED <<proc, asked, working>>
    BY <1>7 DEF Judge, Answer, Unsent, Reject, procVars
  <2> QED BY <2>1 DEF Base, OpenInv
<1>8. ASSUME RejectEvicted PROVE OpenInv'
  <2>1. open' \subseteq open /\ UNCHANGED <<proc, asked, working>>
    BY <1>8 DEF RejectEvicted, Answer, Unsent, Reject, procVars
  <2> QED BY <2>1 DEF Base, OpenInv
<1>9. ASSUME NEW u \in Users, Respond(u) PROVE OpenInv'
  <2>1. open' \subseteq open /\ UNCHANGED <<proc, asked, working>>
    BY <1>9 DEF Respond, Answer, Unsent, Reject, procVars
  <2> QED BY <2>1 DEF Base, OpenInv
<1>10. ASSUME UNCHANGED <<proc, asked, open, working>> PROVE OpenInv'
  BY <1>10 DEF Base, OpenInv
<1>11. ASSUME
       LosesLink \/ FinalizeLoss \/ FinalizeExit \/ Replay \/ Receive \/ Insert \/ Resolved
       \/ IdleStatus \/ ClientExited \/ Drop \/ Wipe
      PROVE OpenInv'
  BY <1>11, <1>10 DEF LosesLink, procVars, FinalizeLoss, FinalizeExit, Replay, Receive,
                      Insert, Resolved, Handles, IdleStatus, ClientExited, Drop, Wipe
<1>12. ASSUME NEW g \in Gens,
       Read(g)
      PROVE OpenInv'
  BY <1>12, <1>10 DEF Read, procVars
<1>13. ASSUME NEW u \in Users,
       Choose(u) \/ Bury(u) \/ Discard(u) \/ Leaves(u)
      PROVE OpenInv'
  BY <1>13, <1>10 DEF Choose, procVars, Bury, Discard, Leaves
<1> QED BY <1>1, <1>2, <1>3, <1>4, <1>5, <1>6, <1>7, <1>8, <1>9, <1>10, <1>11, <1>12, <1>13
     DEF Next, vars, ProcessStep, ClientStep, RequestTask, NoteTask, User

\* The base is inductive.
LEMMA BaseStep ==
  ASSUME Base, [Next]_vars
  PROVE  Base'
BY LinkTypesStep, LineTypesStep, RelayTypesStep, ShownTypesStep, AskTypesStep, PlaceTypesStep, FlagTypesStep,
   CountTypesStep, LineFitsStep, LinkInvStep, OpenInvStep DEF Base, Types

\* The base holds always.
LEMMA BaseInvariant == Spec => []Base
<1>1. Init => Base
  BY InitBase
<1>2. Base /\ [Next]_vars => Base'
  BY BaseStep
<1> QED BY <1>1, <1>2, PTL DEF Spec

\* The values every variable takes.
THEOREM TypeCorrectness == Spec => []TypeOK
<1>1. Base => TypeOK
  BY TypesOK DEF Base
<1> QED BY <1>1, BaseInvariant, PTL

----------------------------------------------------------------------------
(* Answers.                                                                *)

\* Only an answer that is written can go to another question.
LEMMA MisfitStep ==
  ASSUME [Next]_vars
  PROVE  mode' = mode /\ (misfit' = misfit \/ \E a : CanWrite(a) /\ Answer(a))
<1>1. ASSUME Judge PROVE mode' = mode /\ (misfit' = misfit \/ \E a : CanWrite(a) /\ Answer(a))
  BY <1>1 DEF Judge, Reject, Unsent, linkVars
<1>2. ASSUME RejectEvicted PROVE mode' = mode /\ (misfit' = misfit \/ \E a : CanWrite(a) /\ Answer(a))
  BY <1>2 DEF RejectEvicted, Reject, Unsent, linkVars
<1>3. ASSUME NEW u \in Users, Respond(u) PROVE mode' = mode /\ (misfit' = misfit \/ \E a : CanWrite(a) /\ Answer(a))
  BY <1>3 DEF Respond, Unsent, linkVars
<1>4. ASSUME UNCHANGED <<mode, misfit>> PROVE mode' = mode /\ (misfit' = misfit \/ \E a : CanWrite(a) /\ Answer(a))
  BY <1>4
<1>5. ASSUME
       Connect \/ StartTurn \/ AsksUser \/ EndsTurn \/ Exits \/ LosesLink \/ FinalizeLoss
       \/ FinalizeExit \/ Replay \/ Receive \/ Insert \/ Resolved \/ IdleStatus \/
       ClientExited \/ Drop \/ Wipe
      PROVE mode' = mode /\ (misfit' = misfit \/ \E a : CanWrite(a) /\ Answer(a))
  BY <1>5, <1>4 DEF Connect, StartTurn, linkVars, AsksUser, EndsTurn, Exits, LosesLink,
                    FinalizeLoss, FinalizeExit, Replay, Receive, Insert, Resolved, Handles,
                    IdleStatus, ClientExited, Drop, Wipe
<1>6. ASSUME NEW j \in Ids,
       Withdraws(j)
      PROVE mode' = mode /\ (misfit' = misfit \/ \E a : CanWrite(a) /\ Answer(a))
  BY <1>6, <1>4 DEF Withdraws, linkVars
<1>7. ASSUME NEW g \in Gens,
       Read(g)
      PROVE mode' = mode /\ (misfit' = misfit \/ \E a : CanWrite(a) /\ Answer(a))
  BY <1>7, <1>4 DEF Read, linkVars
<1>8. ASSUME NEW u \in Users,
       Choose(u) \/ Bury(u) \/ Discard(u) \/ Leaves(u)
      PROVE mode' = mode /\ (misfit' = misfit \/ \E a : CanWrite(a) /\ Answer(a))
  BY <1>8, <1>4 DEF Choose, linkVars, Bury, Discard, Leaves
<1> QED BY <1>1, <1>2, <1>3, <1>4, <1>5, <1>6, <1>7, <1>8
     DEF Next, vars, ProcessStep, ClientStep, RequestTask, NoteTask, User

\* AnswerFits is inductive over the base.
LEMMA AnswerStep ==
  ASSUME Base, AnswerFits, [Next]_vars
  PROVE  AnswerFits'
<1>1. ASSUME NEW a, mode = "stdio", CanWrite(a), Answer(a), ~misfit PROVE ~misfit'
  <2>1. up /\ inst = a[2]
    BY <1>1 DEF CanWrite
  <2>2. origin[a[2]] = proc
    BY <2>1, UpGen
  <2> QED BY <1>1, <2>2 DEF Answer, Asking
<1> QED BY <1>1, MisfitStep DEF AnswerFits

\* Over stdio, an answer reaches the question it was given to, also after the process
\* was restarted and uses its ids again (writer_for_server_request).
THEOREM AnswersFit == Spec => []AnswerFits
<1>1. Init => AnswerFits
  BY DEF Init, AnswerFits
<1>2. Base /\ AnswerFits /\ [Next]_vars => AnswerFits'
  BY AnswerStep
<1> QED BY <1>1, <1>2, BaseInvariant, PTL DEF Spec

----------------------------------------------------------------------------
(* A question is refused only for want of a turn.                          *)

WorkInv == working => assigned \/ bereft
RefusalInv == WorkInv /\ refused = {}

\* A turn that runs has its assignment, or lost it to a late exit.
LEMMA WorkInvStep ==
  ASSUME Base, WorkInv, [Next]_vars
  PROVE  WorkInv'
<1>1. ASSUME Connect PROVE WorkInv'
  BY <1>1, Zenon DEF Connect, procVars, gateVars, Base, OpenInv, WorkInv
<1>2. ASSUME StartTurn PROVE WorkInv'
  BY <1>2, Zenon DEF StartTurn, WorkInv
<1>3. ASSUME EndsTurn PROVE WorkInv'
  BY <1>3, Zenon DEF EndsTurn, gateVars, WorkInv
<1>4. ASSUME Exits PROVE WorkInv'
  BY <1>4, Zenon DEF Exits, gateVars, WorkInv
<1>5. ASSUME IdleStatus PROVE WorkInv'
  <2>1. UNCHANGED <<working, assigned, bereft>>
    BY <1>5 DEF IdleStatus, Handles, procVars
  <2> QED BY <2>1 DEF WorkInv
<1>6. ASSUME ClientExited PROVE WorkInv'
  BY <1>6, Zenon DEF ClientExited, Handles, procVars, WorkInv
<1>7. ASSUME UNCHANGED <<working, assigned, bereft>> PROVE WorkInv'
  BY <1>7 DEF WorkInv
<1>8. ASSUME
       AsksUser \/ LosesLink \/ FinalizeLoss \/ FinalizeExit \/ Replay \/ Receive \/ Judge
       \/ Insert \/ RejectEvicted \/ Resolved \/ Drop \/ Wipe
      PROVE WorkInv'
  BY <1>8, <1>7 DEF AsksUser, gateVars, LosesLink, procVars, FinalizeLoss, FinalizeExit,
                    Replay, Receive, Judge, Insert, RejectEvicted, Resolved, Handles, Drop,
                    Wipe
<1>9. ASSUME NEW j \in Ids,
       Withdraws(j)
      PROVE WorkInv'
  BY <1>9, <1>7 DEF Withdraws, procVars, gateVars
<1>10. ASSUME NEW g \in Gens,
       Read(g)
      PROVE WorkInv'
  BY <1>10, <1>7 DEF Read, procVars, gateVars
<1>11. ASSUME NEW u \in Users,
       Choose(u) \/ Respond(u) \/ Bury(u) \/ Discard(u) \/ Leaves(u)
      PROVE WorkInv'
  BY <1>11, <1>7 DEF Choose, procVars, gateVars, Respond, Bury, Discard, Leaves
<1> QED BY <1>1, <1>2, <1>3, <1>4, <1>5, <1>6, <1>7, <1>8, <1>9, <1>10, <1>11
     DEF Next, vars, ProcessStep, ClientStep, RequestTask, NoteTask, User

LEMMA RefusedChange ==
  ASSUME [Next]_vars
  PROVE  UNCHANGED refused \/ Judge
<1>1. ASSUME Judge PROVE UNCHANGED refused \/ Judge
  BY <1>1
<1>2. ASSUME UNCHANGED <<refused>> PROVE UNCHANGED refused \/ Judge
  BY <1>2
<1>3. ASSUME
       Connect \/ StartTurn \/ AsksUser \/ EndsTurn \/ Exits \/ LosesLink \/ FinalizeLoss
       \/ FinalizeExit \/ Replay \/ Receive \/ Insert \/ RejectEvicted \/ Resolved \/
       IdleStatus \/ ClientExited \/ Drop \/ Wipe
      PROVE UNCHANGED refused \/ Judge
  BY <1>3, <1>2 DEF Connect, StartTurn, AsksUser, EndsTurn, Exits, LosesLink, FinalizeLoss,
                    FinalizeExit, Replay, Receive, Insert, RejectEvicted, Resolved, Handles,
                    IdleStatus, ClientExited, Drop, Wipe
<1>4. ASSUME NEW j \in Ids,
       Withdraws(j)
      PROVE UNCHANGED refused \/ Judge
  BY <1>4, <1>2 DEF Withdraws
<1>5. ASSUME NEW g \in Gens,
       Read(g)
      PROVE UNCHANGED refused \/ Judge
  BY <1>5, <1>2 DEF Read
<1>6. ASSUME NEW u \in Users,
       Choose(u) \/ Respond(u) \/ Bury(u) \/ Discard(u) \/ Leaves(u)
      PROVE UNCHANGED refused \/ Judge
  BY <1>6, <1>2 DEF Choose, Respond, Bury, Discard, Leaves
<1> QED BY <1>1, <1>2, <1>3, <1>4, <1>5, <1>6
     DEF Next, vars, ProcessStep, ClientStep, RequestTask, NoteTask, User

\* Nothing is refused without cause.
LEMMA RefusedStep ==
  ASSUME Base, WorkInv, refused = {}, [Next]_vars
  PROVE  refused' = {}
<1>1. CASE UNCHANGED refused
  BY <1>1
<1>2. ASSUME Judge PROVE refused' = {}
  <2>1. ~Accepts => ~Asking(rt.ask) \/ bereft
    BY DEF Accepts, Asking, Base, OpenInv, WorkInv
  <2> QED BY <1>2, <2>1 DEF Judge
<1> QED BY <1>1, <1>2, RefusedChange

----------------------------------------------------------------------------
(* A process that was never left without a connection has one, and only    *)
(* one it ever had.                                                        *)

DeafInv ==
  /\ ~deaf => (proc # 0 => up)
  /\ ~deaf => \A g, h \in Gens : g <= gens /\ h <= gens /\ origin[g] = origin[h] => g = h
  /\ mode = "stdio" => ~deaf

\* DeafInv is inductive.
LEMMA DeafInvStep ==
  ASSUME Base, DeafInv, [Next]_vars
  PROVE  DeafInv'
<1>1. ASSUME Connect PROVE DeafInv'
  <2>1. /\ ~up /\ up' /\ gens \in Nat /\ procs \in Nat /\ gens' = gens + 1 /\ UNCHANGED <<deaf, mode>> /\ \A g \in Gens : g \in Nat
        /\ origin' = [origin EXCEPT ![gens + 1] = proc'] /\ (proc = 0 => proc' = procs + 1)
    BY <1>1, UpGen, BoundsAssumption DEF Connect, Base, Types, LinkTypes, Gens
  <2>2. CASE deaf
    BY <2>1, <2>2 DEF DeafInv
  <2>3. ASSUME ~deaf, NEW g \in Gens, NEW h \in Gens, g <= gens + 1, h <= gens + 1, origin'[g] = origin'[h]
        PROVE  g = h
    <3>1. proc' = procs + 1
      BY <2>1, <2>3 DEF DeafInv
    <3>2. \A k \in Gens : k <= gens => origin'[k] = origin[k] /\ origin[k] \in 1..procs
      BY <2>1 DEF Base, LinkInv, Types, LinkTypes
    <3>3. \A k \in Gens : k <= gens + 1 /\ ~(k <= gens) => k = gens + 1 /\ origin'[k] = procs + 1
      BY <2>1, <3>1 DEF Base, Types, LinkTypes
    <3> QED BY <2>1, <2>3, <3>2, <3>3 DEF DeafInv
  <2> QED BY <2>1, <2>2, <2>3 DEF DeafInv
<1>2. ASSUME AsksUser PROVE DeafInv'
  <2>1. proc # 0 /\ UNCHANGED <<mode, proc, up, gens, origin>> /\ ((up /\ deaf' = deaf) \/ (~up /\ deaf'))
    BY <1>2 DEF AsksUser, Says, linkVars, procVars, Base, OpenInv
  <2> QED BY <2>1 DEF DeafInv
<1>3. ASSUME EndsTurn PROVE DeafInv'
  <2>1. proc # 0 /\ UNCHANGED <<mode, proc, up, gens, origin>> /\ ((up /\ deaf' = deaf) \/ (~up /\ deaf'))
    BY <1>3 DEF EndsTurn, Says, linkVars, procVars, Base, OpenInv
  <2> QED BY <2>1 DEF DeafInv
<1>4. ASSUME Exits PROVE DeafInv'
  <2>1. proc' = 0 /\ UNCHANGED <<mode, deaf, gens, origin>>
    BY <1>4 DEF Exits
  <2> QED BY <2>1 DEF DeafInv
<1>5. ASSUME LosesLink PROVE DeafInv'
  <2>1. mode' = "handoff" /\ deaf'
    BY <1>5 DEF LosesLink
  <2> QED BY <2>1 DEF DeafInv
<1>6. ASSUME NEW j \in Ids, Withdraws(j) PROVE DeafInv'
  <2>1. proc # 0 /\ UNCHANGED <<mode, proc, up, gens, origin>> /\ ((up /\ deaf' = deaf) \/ (~up /\ deaf'))
    BY <1>6 DEF Withdraws, Says, linkVars, procVars, Base, OpenInv
  <2> QED BY <2>1 DEF DeafInv
<1>7. ASSUME UNCHANGED <<mode, proc, up, gens, origin, deaf>> PROVE DeafInv'
  BY <1>7 DEF DeafInv
<1>8. ASSUME
       StartTurn \/ FinalizeLoss \/ FinalizeExit \/ Replay \/ Receive \/ Judge \/ Insert \/
       RejectEvicted \/ Resolved \/ IdleStatus \/ ClientExited \/ Drop \/ Wipe
      PROVE DeafInv'
  BY <1>8, <1>7 DEF StartTurn, linkVars, FinalizeLoss, procVars, FinalizeExit, Replay,
                    Receive, Judge, Insert, RejectEvicted, Resolved, Handles, IdleStatus,
                    ClientExited, Drop, Wipe
<1>9. ASSUME NEW g \in Gens,
       Read(g)
      PROVE DeafInv'
  BY <1>9, <1>7 DEF Read, procVars, linkVars
<1>10. ASSUME NEW u \in Users,
       Choose(u) \/ Respond(u) \/ Bury(u) \/ Discard(u) \/ Leaves(u)
      PROVE DeafInv'
  BY <1>10, <1>7 DEF Choose, procVars, linkVars, Respond, Bury, Discard, Leaves
<1> QED BY <1>1, <1>2, <1>3, <1>4, <1>5, <1>6, <1>7, <1>8, <1>9, <1>10
     DEF Next, vars, ProcessStep, ClientStep, RequestTask, NoteTask, User

\* The connection of the running process.
LEMMA OneConnection ==
  ASSUME Base, DeafInv, ~deaf, NEW g \in Gens, Mine(g)
  PROVE  g = inst /\ up /\ proc # 0
<1>1. proc # 0 /\ g <= gens /\ origin[g] = proc
  BY DEF Mine, Base, LinkInv
<1>2. up
  BY <1>1 DEF DeafInv
<1>3. inst \in Gens /\ inst <= gens /\ origin[inst] = proc
  BY <1>2, UpGen
<1> QED BY <1>1, <1>2, <1>3 DEF DeafInv

----------------------------------------------------------------------------
(* Where questions come from.                                              *)

Known    == {<<i, known[i]>> : i \in {j \in Ids : known[j] # 0}}
InHand   == {rt.ask} \ {NoAsk}
Chosen   == {us[u].ask : u \in Users} \ {NoAsk}
AskLines == {a \in Asks : Line("ask", a[1]) \in ToSet(lines[a[2]])}

\* The questions anybody has heard of.
Heard == AskLines \cup ToSet(relay) \cup batch \cup ToSet(shown) \cup tombs \cup InHand \cup Known \cup Chosen

\* The channel is filled by the reader.
LEMMA RelayFrom ==
  ASSUME Base, [Next]_vars
  PROVE  ToSet(relay') \subseteq ToSet(relay) \cup AskLines
<1>1. ASSUME NEW g \in Gens, Read(g) PROVE ToSet(relay') \subseteq ToSet(relay) \cup AskLines
  <2> DEFINE r == IF Len(relay) = RelayCap THEN Tail(relay) ELSE relay
             l == Head(lines[g])
  <2>1. l \in Lines /\ l \in ToSet(lines[g]) /\ lines[g] # <<>>
    BY <1>1, TailSet DEF Read, Base, Types, LineTypes
  <2>2. CASE l.kind = "ask"
    <3>1. l.id \in Ids
      BY <2>1, <2>2 DEF Base, LineFits
    <3>2. l = Line("ask", l.id)
      BY <2>1, <2>2 DEF Lines, Line
    <3>3. <<l.id, g>> \in AskLines
      BY <2>1, <3>1, <3>2, AskFacts DEF AskLines
    <3>4. r \in Seq(Asks) /\ ToSet(r) \subseteq ToSet(relay)
      <4>1. Len(relay) = RelayCap => relay # <<>>
        BY BoundsAssumption
      <4> QED BY <4>1, TailSet DEF Base, Types, RelayTypes
    <3>5. relay' = Append(r, <<l.id, g>>)
      BY <1>1, <2>2 DEF Read
    <3> HIDE DEF r
    <3>6. ToSet(relay') = ToSet(r) \cup {<<l.id, g>>}
      BY <3>1, <3>4, <3>5, AskFacts, AppendSet
    <3> QED BY <3>3, <3>4, <3>6
  <2>3. CASE l.kind # "ask"
    BY <1>1, <2>3 DEF Read
  <2> QED BY <2>2, <2>3
<1>2. ASSUME Receive PROVE ToSet(relay') \subseteq ToSet(relay) \cup AskLines
  <2>1. relay' = relay \/ (relay # <<>> /\ relay' = Tail(relay))
    BY <1>2 DEF Receive
  <2> QED BY <2>1, TailSet DEF Base, Types, RelayTypes
<1>3. ASSUME UNCHANGED <<relay>> PROVE ToSet(relay') \subseteq ToSet(relay) \cup AskLines
  BY <1>3
<1>4. ASSUME
       Connect \/ StartTurn \/ AsksUser \/ EndsTurn \/ Exits \/ LosesLink \/ FinalizeLoss
       \/ FinalizeExit \/ Replay \/ Judge \/ Insert \/ RejectEvicted \/ Resolved \/
       IdleStatus \/ ClientExited \/ Drop \/ Wipe
      PROVE ToSet(relay') \subseteq ToSet(relay) \cup AskLines
  BY <1>4, <1>3 DEF Connect, StartTurn, AsksUser, EndsTurn, Exits, LosesLink, FinalizeLoss,
                    FinalizeExit, Replay, Judge, Insert, RejectEvicted, Resolved, Handles,
                    IdleStatus, ClientExited, Drop, Wipe
<1>5. ASSUME NEW j \in Ids,
       Withdraws(j)
      PROVE ToSet(relay') \subseteq ToSet(relay) \cup AskLines
  BY <1>5, <1>3 DEF Withdraws
<1>6. ASSUME NEW u \in Users,
       Choose(u) \/ Respond(u) \/ Bury(u) \/ Discard(u) \/ Leaves(u)
      PROVE ToSet(relay') \subseteq ToSet(relay) \cup AskLines
  BY <1>6, <1>3 DEF Choose, Respond, Bury, Discard, Leaves
<1> QED BY <1>1, <1>2, <1>3, <1>4, <1>5, <1>6
     DEF Next, vars, ProcessStep, ClientStep, RequestTask, NoteTask, User

\* A replay is of the client's record.
LEMMA BatchFrom ==
  ASSUME Base, [Next]_vars
  PROVE  batch' \subseteq batch \cup Known
<1>1. ASSUME Replay PROVE batch' \subseteq batch \cup Known
  BY <1>1 DEF Replay, Known
<1>2. ASSUME Receive PROVE batch' \subseteq batch \cup Known
  BY <1>2 DEF Receive, Known
<1>3. ASSUME UNCHANGED <<batch>> PROVE batch' \subseteq batch \cup Known
  BY <1>3 DEF Known
<1>4. ASSUME
       Connect \/ StartTurn \/ AsksUser \/ EndsTurn \/ Exits \/ LosesLink \/ FinalizeLoss
       \/ FinalizeExit \/ Judge \/ Insert \/ RejectEvicted \/ Resolved \/ IdleStatus \/
       ClientExited \/ Drop \/ Wipe
      PROVE batch' \subseteq batch \cup Known
  BY <1>4, <1>3 DEF Connect, StartTurn, AsksUser, EndsTurn, Exits, LosesLink, FinalizeLoss,
                    FinalizeExit, Judge, Insert, RejectEvicted, Resolved, Handles,
                    IdleStatus, ClientExited, Drop, Wipe
<1>5. ASSUME NEW j \in Ids,
       Withdraws(j)
      PROVE batch' \subseteq batch \cup Known
  BY <1>5, <1>3 DEF Withdraws
<1>6. ASSUME NEW g \in Gens,
       Read(g)
      PROVE batch' \subseteq batch \cup Known
  BY <1>6, <1>3 DEF Read
<1>7. ASSUME NEW u \in Users,
       Choose(u) \/ Respond(u) \/ Bury(u) \/ Discard(u) \/ Leaves(u)
      PROVE batch' \subseteq batch \cup Known
  BY <1>7, <1>3 DEF Choose, Respond, Bury, Discard, Leaves
<1> QED BY <1>1, <1>2, <1>3, <1>4, <1>5, <1>6, <1>7
     DEF Next, vars, ProcessStep, ClientStep, RequestTask, NoteTask, User

\* A prompt is what the request task had in hand.
LEMMA ShownFrom ==
  ASSUME Base, [Next]_vars
  PROVE  ToSet(shown') \subseteq ToSet(shown) \cup InHand
<1>1. ASSUME Insert PROVE ToSet(shown') \subseteq ToSet(shown) \cup InHand
  <2> DEFINE a == rt.ask  grown == Append(shown, a)
  <2>1. a \in Asks /\ a \in InHand
    BY <1>1, InHandAsks, AskFacts DEF Insert, Base, InHand
  <2>2. grown \in Seq(Asks) /\ ToSet(grown) = ToSet(shown) \cup {a} /\ grown # <<>>
    BY <2>1, AppendSet DEF Base, Types, ShownTypes
  <2>3. ToSet(Tail(grown)) \subseteq ToSet(grown)
    BY <2>2, TailSet
  <2> HIDE DEF grown, a
  <2>4. shown' = shown \/ shown' = grown \/ shown' = Tail(grown)
    BY <1>1 DEF Insert, grown, a
  <2> QED BY <2>1, <2>2, <2>3, <2>4
<1>2. ASSUME Drop PROVE ToSet(shown') \subseteq ToSet(shown) \cup InHand
  <2>1. shown' = Without(shown, nt.note.id)
    BY <1>2 DEF Drop
  <2> QED BY <2>1, WithoutSet DEF Base, Types, ShownTypes
<1>3. ASSUME Wipe PROVE ToSet(shown') \subseteq ToSet(shown) \cup InHand
  BY <1>3, EmptySet DEF Wipe
<1>4. ASSUME NEW u \in Users, Discard(u) PROVE ToSet(shown') \subseteq ToSet(shown) \cup InHand
  <2>1. shown' = Without(shown, us[u].ask[1])
    BY <1>4 DEF Discard
  <2> QED BY <2>1, WithoutSet DEF Base, Types, ShownTypes
<1>5. ASSUME UNCHANGED <<shown>> PROVE ToSet(shown') \subseteq ToSet(shown) \cup InHand
  BY <1>5
<1>6. ASSUME
       Connect \/ StartTurn \/ AsksUser \/ EndsTurn \/ Exits \/ LosesLink \/ FinalizeLoss
       \/ FinalizeExit \/ Replay \/ Receive \/ Judge \/ RejectEvicted \/ Resolved \/
       IdleStatus \/ ClientExited
      PROVE ToSet(shown') \subseteq ToSet(shown) \cup InHand
  BY <1>6, <1>5 DEF Connect, StartTurn, AsksUser, EndsTurn, Exits, LosesLink, FinalizeLoss,
                    FinalizeExit, Replay, Receive, Judge, RejectEvicted, Resolved, Handles,
                    IdleStatus, ClientExited
<1>7. ASSUME NEW j \in Ids,
       Withdraws(j)
      PROVE ToSet(shown') \subseteq ToSet(shown) \cup InHand
  BY <1>7, <1>5 DEF Withdraws
<1>8. ASSUME NEW g \in Gens,
       Read(g)
      PROVE ToSet(shown') \subseteq ToSet(shown) \cup InHand
  BY <1>8, <1>5 DEF Read
<1>9. ASSUME NEW u \in Users,
       Choose(u) \/ Respond(u) \/ Bury(u) \/ Leaves(u)
      PROVE ToSet(shown') \subseteq ToSet(shown) \cup InHand
  BY <1>9, <1>5 DEF Choose, Respond, Bury, Leaves
<1> QED BY <1>1, <1>2, <1>3, <1>4, <1>5, <1>6, <1>7, <1>8, <1>9
     DEF Next, vars, ProcessStep, ClientStep, RequestTask, NoteTask, User

\* What gets a tombstone.
LEMMA TombsFrom ==
  ASSUME Base, [Next]_vars
  PROVE  tombs' \subseteq tombs \cup InHand \cup Known \cup Chosen
<1>1. ASSUME Judge PROVE tombs' \subseteq tombs \cup InHand \cup Known \cup Chosen
  BY <1>1, InHandAsks, AskFacts DEF Judge, Base, InHand
<1>2. ASSUME Resolved PROVE tombs' \subseteq tombs \cup InHand \cup Known \cup Chosen
  <2> DEFINE n == Head(notes)
  <2>1. n \in ToSet(notes) /\ n.kind = "resolved"
    BY <1>2, TailSet DEF Resolved, Handles, Base, Types, LineTypes
  <2>2. n.id \in Ids
    BY <2>1 DEF Base, LineFits
  <2>3. Source(n.id) \subseteq Known
    BY <2>2 DEF Source, Known
  <2> QED BY <1>2, <2>3 DEF Resolved
<1>3. ASSUME NEW u \in Users, Bury(u) PROVE tombs' \subseteq tombs \cup InHand \cup Known \cup Chosen
  BY <1>3, InHandAsks, AskFacts DEF Bury, Base, Chosen
<1>4. ASSUME UNCHANGED <<tombs>> PROVE tombs' \subseteq tombs \cup InHand \cup Known \cup Chosen
  BY <1>4
<1>5. ASSUME
       Connect \/ StartTurn \/ AsksUser \/ EndsTurn \/ Exits \/ LosesLink \/ FinalizeLoss
       \/ FinalizeExit \/ Replay \/ Receive \/ Insert \/ RejectEvicted \/ IdleStatus \/
       ClientExited \/ Drop \/ Wipe
      PROVE tombs' \subseteq tombs \cup InHand \cup Known \cup Chosen
  BY <1>5, <1>4 DEF Connect, StartTurn, AsksUser, EndsTurn, Exits, LosesLink, FinalizeLoss,
                    FinalizeExit, Replay, Receive, Insert, RejectEvicted, IdleStatus,
                    ClientExited, Drop, Wipe
<1>6. ASSUME NEW j \in Ids,
       Withdraws(j)
      PROVE tombs' \subseteq tombs \cup InHand \cup Known \cup Chosen
  BY <1>6, <1>4 DEF Withdraws
<1>7. ASSUME NEW g \in Gens,
       Read(g)
      PROVE tombs' \subseteq tombs \cup InHand \cup Known \cup Chosen
  BY <1>7, <1>4 DEF Read
<1>8. ASSUME NEW u \in Users,
       Choose(u) \/ Respond(u) \/ Discard(u) \/ Leaves(u)
      PROVE tombs' \subseteq tombs \cup InHand \cup Known \cup Chosen
  BY <1>8, <1>4 DEF Choose, Respond, Discard, Leaves
<1> QED BY <1>1, <1>2, <1>3, <1>4, <1>5, <1>6, <1>7, <1>8
     DEF Next, vars, ProcessStep, ClientStep, RequestTask, NoteTask, User

\* What the request task takes.
LEMMA InHandFrom ==
  ASSUME Base, [Next]_vars
  PROVE  InHand' \subseteq InHand \cup ToSet(relay) \cup batch \cup ToSet(shown)
<1>1. ASSUME Receive PROVE InHand' \subseteq InHand \cup ToSet(relay) \cup batch \cup ToSet(shown)
  <2>1. relay # <<>> => Head(relay) \in ToSet(relay)
    BY TailSet DEF Base, Types, RelayTypes
  <2>2. rt' = rt \/ rt'.ask \in batch \cup ToSet(relay)
    BY <1>1, <2>1 DEF Receive, Take, RtGoes
  <2> QED BY <2>2 DEF InHand
<1>2. ASSUME Judge PROVE InHand' \subseteq InHand \cup ToSet(relay) \cup batch \cup ToSet(shown)
  BY <1>2 DEF Judge, RtGoes, InHand
<1>3. ASSUME Insert PROVE InHand' \subseteq InHand \cup ToSet(relay) \cup batch \cup ToSet(shown)
  <2> DEFINE a == rt.ask  grown == Append(shown, a)
  <2>1. a \in Asks /\ a \in InHand
    BY <1>3, InHandAsks, AskFacts DEF Insert, Base, InHand
  <2>2. grown \in Seq(Asks) /\ ToSet(grown) = ToSet(shown) \cup {a} /\ grown # <<>>
    BY <2>1, AppendSet DEF Base, Types, ShownTypes
  <2>3. Head(grown) \in ToSet(grown)
    BY <2>2, TailSet
  <2> HIDE DEF grown, a
  <2>4. rt'.ask = NoAsk \/ rt'.ask = Head(grown)
    BY <1>3 DEF Insert, RtGoes, grown, a
  <2> QED BY <2>1, <2>2, <2>3, <2>4 DEF InHand
<1>4. ASSUME RejectEvicted PROVE InHand' \subseteq InHand \cup ToSet(relay) \cup batch \cup ToSet(shown)
  BY <1>4 DEF RejectEvicted, RtGoes, InHand
<1>5. ASSUME UNCHANGED <<rt>> PROVE InHand' \subseteq InHand \cup ToSet(relay) \cup batch \cup ToSet(shown)
  BY <1>5 DEF InHand
<1>6. ASSUME
       Connect \/ StartTurn \/ AsksUser \/ EndsTurn \/ Exits \/ LosesLink \/ FinalizeLoss
       \/ FinalizeExit \/ Replay \/ Resolved \/ IdleStatus \/ ClientExited \/ Drop \/ Wipe
      PROVE InHand' \subseteq InHand \cup ToSet(relay) \cup batch \cup ToSet(shown)
  BY <1>6, <1>5 DEF Connect, StartTurn, AsksUser, EndsTurn, Exits, LosesLink, FinalizeLoss,
                    FinalizeExit, Replay, Resolved, Handles, IdleStatus, ClientExited, Drop,
                    Wipe
<1>7. ASSUME NEW j \in Ids,
       Withdraws(j)
      PROVE InHand' \subseteq InHand \cup ToSet(relay) \cup batch \cup ToSet(shown)
  BY <1>7, <1>5 DEF Withdraws
<1>8. ASSUME NEW g \in Gens,
       Read(g)
      PROVE InHand' \subseteq InHand \cup ToSet(relay) \cup batch \cup ToSet(shown)
  BY <1>8, <1>5 DEF Read
<1>9. ASSUME NEW u \in Users,
       Choose(u) \/ Respond(u) \/ Bury(u) \/ Discard(u) \/ Leaves(u)
      PROVE InHand' \subseteq InHand \cup ToSet(relay) \cup batch \cup ToSet(shown)
  BY <1>9, <1>5 DEF Choose, Respond, Bury, Discard, Leaves
<1> QED BY <1>1, <1>2, <1>3, <1>4, <1>5, <1>6, <1>7, <1>8, <1>9
     DEF Next, vars, ProcessStep, ClientStep, RequestTask, NoteTask, User

\* The client's record is filled by the reader.
LEMMA KnownFrom ==
  ASSUME Base, [Next]_vars
  PROVE  Known' \subseteq Known \cup AskLines
<1>1. ASSUME FinalizeExit PROVE Known' \subseteq Known \cup AskLines
  <2>1. \A i \in Ids : known'[i] = 0
    BY <1>1 DEF FinalizeExit
  <2> QED BY <2>1 DEF Known
<1>2. ASSUME NEW g \in Gens, Read(g) PROVE Known' \subseteq Known \cup AskLines
  <2> DEFINE l == Head(lines[g])
  <2>1. l \in Lines /\ l \in ToSet(lines[g]) /\ lines[g] # <<>>
    BY <1>2, TailSet DEF Read, Base, Types, LineTypes
  <2>2. CASE l.kind = "ask"
    <3>1. l.id \in Ids
      BY <2>1, <2>2 DEF Base, LineFits
    <3>2. l = Line("ask", l.id)
      BY <2>1, <2>2 DEF Lines, Line
    <3>3. <<l.id, g>> \in AskLines
      BY <2>1, <3>1, <3>2, AskFacts DEF AskLines
    <3>4. \A i \in Ids : known'[i] = known[i] \/ (i = l.id /\ known'[i] = g)
      BY <1>2, <2>2, <3>1 DEF Read, Base, Types, RelayTypes
    <3> QED BY <3>3, <3>4 DEF Known
  <2>3. CASE l.kind # "ask"
    BY <1>2, <2>3 DEF Read, Known
  <2> QED BY <2>2, <2>3
<1>3. ASSUME Judge PROVE Known' \subseteq Known \cup AskLines
  <2>1. known' = known \/ \E a \in Asks : known' = [known EXCEPT ![a[1]] = IF @ = a[2] THEN 0 ELSE @]
    BY <1>3, InHandAsks DEF Judge, Answer, Unsent, Reject, Base
  <2>2. \A i \in Ids : known'[i] = known[i] \/ known'[i] = 0
    BY <2>1 DEF Base, Types, RelayTypes
  <2> QED BY <2>2 DEF Known
<1>4. ASSUME RejectEvicted PROVE Known' \subseteq Known \cup AskLines
  <2>1. known' = known \/ \E a \in Asks : known' = [known EXCEPT ![a[1]] = IF @ = a[2] THEN 0 ELSE @]
    BY <1>4, InHandAsks DEF RejectEvicted, Answer, Unsent, Reject, Base
  <2>2. \A i \in Ids : known'[i] = known[i] \/ known'[i] = 0
    BY <2>1 DEF Base, Types, RelayTypes
  <2> QED BY <2>2 DEF Known
<1>5. ASSUME NEW u \in Users, Respond(u) PROVE Known' \subseteq Known \cup AskLines
  <2>1. known' = known \/ \E a \in Asks : known' = [known EXCEPT ![a[1]] = IF @ = a[2] THEN 0 ELSE @]
    BY <1>5, InHandAsks DEF Respond, Answer, Unsent, Reject, Base
  <2>2. \A i \in Ids : known'[i] = known[i] \/ known'[i] = 0
    BY <2>1 DEF Base, Types, RelayTypes
  <2> QED BY <2>2 DEF Known
<1>6. ASSUME UNCHANGED <<known>> PROVE Known' \subseteq Known \cup AskLines
  BY <1>6 DEF Known
<1>7. ASSUME
       Connect \/ StartTurn \/ AsksUser \/ EndsTurn \/ Exits \/ LosesLink \/ FinalizeLoss
       \/ Replay \/ Receive \/ Insert \/ Resolved \/ IdleStatus \/ ClientExited \/ Drop \/
       Wipe
      PROVE Known' \subseteq Known \cup AskLines
  BY <1>7, <1>6 DEF Connect, StartTurn, AsksUser, EndsTurn, Exits, LosesLink, FinalizeLoss,
                    Replay, Receive, Insert, Resolved, Handles, IdleStatus, ClientExited,
                    Drop, Wipe
<1>8. ASSUME NEW j \in Ids,
       Withdraws(j)
      PROVE Known' \subseteq Known \cup AskLines
  BY <1>8, <1>6 DEF Withdraws
<1>9. ASSUME NEW u \in Users,
       Choose(u) \/ Bury(u) \/ Discard(u) \/ Leaves(u)
      PROVE Known' \subseteq Known \cup AskLines
  BY <1>9, <1>6 DEF Choose, Bury, Discard, Leaves
<1> QED BY <1>1, <1>2, <1>3, <1>4, <1>5, <1>6, <1>7, <1>8, <1>9
     DEF Next, vars, ProcessStep, ClientStep, RequestTask, NoteTask, User

\* Users choose among the prompts.
LEMMA ChosenFrom ==
  ASSUME Base, [Next]_vars
  PROVE  Chosen' \subseteq Chosen \cup ToSet(shown)
<1>1. ASSUME NEW u \in Users, Choose(u) PROVE Chosen' \subseteq Chosen \cup ToSet(shown)
  <2>1. \A v \in Users : us'[v] = us[v] \/ us'[v].ask \in ToSet(shown) \cup Chosen \cup {NoAsk}
    BY <1>1, InHandAsks DEF Choose, UsGoes, Chosen, Base, Types, PlaceTypes
  <2> QED BY <2>1 DEF Chosen
<1>2. ASSUME NEW u \in Users, Respond(u) PROVE Chosen' \subseteq Chosen \cup ToSet(shown)
  <2>1. \A v \in Users : us'[v] = us[v] \/ us'[v].ask \in ToSet(shown) \cup Chosen \cup {NoAsk}
    BY <1>2, InHandAsks DEF Respond, UsGoes, Chosen, Base, Types, PlaceTypes
  <2> QED BY <2>1 DEF Chosen
<1>3. ASSUME NEW u \in Users, Bury(u) PROVE Chosen' \subseteq Chosen \cup ToSet(shown)
  <2>1. \A v \in Users : us'[v] = us[v] \/ us'[v].ask \in ToSet(shown) \cup Chosen \cup {NoAsk}
    BY <1>3, InHandAsks DEF Bury, UsGoes, Chosen, Base, Types, PlaceTypes
  <2> QED BY <2>1 DEF Chosen
<1>4. ASSUME NEW u \in Users, Discard(u) PROVE Chosen' \subseteq Chosen \cup ToSet(shown)
  <2>1. \A v \in Users : us'[v] = us[v] \/ us'[v].ask \in ToSet(shown) \cup Chosen \cup {NoAsk}
    BY <1>4, InHandAsks DEF Discard, UsGoes, Chosen, Base, Types, PlaceTypes
  <2> QED BY <2>1 DEF Chosen
<1>5. ASSUME UNCHANGED <<us>> PROVE Chosen' \subseteq Chosen \cup ToSet(shown)
  BY <1>5 DEF Chosen
<1>6. ASSUME
       Connect \/ StartTurn \/ AsksUser \/ EndsTurn \/ Exits \/ LosesLink \/ FinalizeLoss
       \/ FinalizeExit \/ Replay \/ Receive \/ Judge \/ Insert \/ RejectEvicted \/ Resolved
       \/ IdleStatus \/ ClientExited \/ Drop \/ Wipe
      PROVE Chosen' \subseteq Chosen \cup ToSet(shown)
  BY <1>6, <1>5 DEF Connect, StartTurn, AsksUser, EndsTurn, Exits, LosesLink, FinalizeLoss,
                    FinalizeExit, Replay, Receive, Judge, Insert, RejectEvicted, Resolved,
                    Handles, IdleStatus, ClientExited, Drop, Wipe
<1>7. ASSUME NEW j \in Ids,
       Withdraws(j)
      PROVE Chosen' \subseteq Chosen \cup ToSet(shown)
  BY <1>7, <1>5 DEF Withdraws
<1>8. ASSUME NEW g \in Gens,
       Read(g)
      PROVE Chosen' \subseteq Chosen \cup ToSet(shown)
  BY <1>8, <1>5 DEF Read
<1>9. ASSUME NEW u \in Users, Leaves(u) PROVE Chosen' \subseteq Chosen \cup ToSet(shown)
  <2>1. \A w \in Users : us'[w].ask # NoAsk => us'[w] = us[w]
    BY <1>9 DEF Leaves, UsGoes, Base, Types, PlaceTypes
  <2> QED BY <2>1 DEF Chosen
<1> QED BY <1>1, <1>2, <1>3, <1>4, <1>5, <1>6, <1>7, <1>8, <1>9
     DEF Next, vars, ProcessStep, ClientStep, RequestTask, NoteTask, User

LEMMA AskLinesFrom ==
  ASSUME Base, [Next]_vars
  PROVE  \A a \in AskLines' : a \in AskLines \/ (AsksUser /\ up /\ a = <<asked + 1, inst>>)
<1> SUFFICES ASSUME NEW a \in Asks, Line("ask", a[1]) \in ToSet(lines'[a[2]])
             PROVE  a \in AskLines \/ (AsksUser /\ up /\ a = <<asked + 1, inst>>)
  BY DEF AskLines, Line
<1>1. a[1] \in Ids /\ a[2] \in Gens /\ a = <<a[1], a[2]>>
  BY AskFacts
<1>2. \/ Line("ask", a[1]) \in ToSet(lines[a[2]])
      \/ a[2] = inst /\ up /\ AsksUser /\ Line("ask", a[1]) = Line("ask", asked + 1)
      \/ Line("ask", a[1]) = Line("idle", 0)
      \/ \E i : Line("ask", a[1]) = Line("resolved", i)
  BY <1>1, LinesOfKept
<1>3. \A i : Line("ask", a[1]).kind = "ask" /\ Line("ask", a[1]).id = a[1]
             /\ Line("resolved", i).kind = "resolved" /\ Line("idle", i).kind = "idle" /\ Line("ask", i).id = i
  BY DEF Line
<1> QED BY <1>1, <1>2, <1>3 DEF AskLines

\* A question is heard of because somebody had heard of it, or it was just asked.
LEMMA HeardStep ==
  ASSUME Base, [Next]_vars
  PROVE  \A a \in Heard' : a \in Heard \/ (AsksUser /\ up /\ a = <<asked + 1, inst>>)
BY RelayFrom, BatchFrom, ShownFrom, TombsFrom, InHandFrom, KnownFrom, ChosenFrom, AskLinesFrom DEF Heard

\* What is heard of is a question.
LEMMA HeardAsks == ASSUME Base PROVE Heard \subseteq Asks
<1>1. Known \subseteq Asks
  BY BoundsAssumption DEF Known, Base, Types, RelayTypes, Asks, Gens
<1>2. InHand \subseteq Asks /\ Chosen \subseteq Asks
  BY DEF InHand, Chosen, Base, Types, PlaceTypes
<1> QED BY <1>1, <1>2, OnItsWayAsks DEF Heard, AskLines, Base, Types, AskTypes

\* The running process goes on.
LEMMA SameProcess ==
  ASSUME Base, [Next]_vars, NEW g \in Gens, g <= gens, Mine(g)'
  PROVE  /\ Mine(g) /\ proc' = proc /\ proc # 0 /\ asked \in Nat /\ asked' \in Nat /\ asked <= asked'
         /\ UNCHANGED asked \/ asked' = asked + 1
<1>1. OriginKept
  BY OriginStep
<1>2. Mine(g) /\ proc' = proc /\ proc # 0 /\ UNCHANGED procs
  BY <1>1, MineKept
<1>3. asked \in Nat /\ procs \in Nat
  BY DEF Base, Types, LinkTypes
<1> QED BY <1>1, <1>2, <1>3 DEF OriginKept

\* A question that was heard of is of a connection there was, and the running
\* process has asked its own.
Made(a) == a[2] <= gens /\ (Mine(a[2]) => a[1] <= asked)
MadeInv == \A a \in Heard : Made(a)

\* MadeInv is inductive.
LEMMA MadeStep ==
  ASSUME Base, MadeInv, [Next]_vars
  PROVE  MadeInv'
<1> SUFFICES ASSUME NEW a \in Heard' PROVE Made(a)'
  BY DEF MadeInv
<1>0. gens \in Nat /\ gens' \in Nat /\ gens <= gens'
  BY OriginStep DEF OriginKept
<1>1. CASE a \in Heard
  <2>1. a \in Asks /\ a[1] \in Nat /\ a[2] \in Gens /\ a[2] \in Nat /\ a[2] <= gens /\ (Mine(a[2]) => a[1] <= asked)
    BY <1>1, HeardAsks, AskFacts DEF MadeInv, Made
  <2>2. Mine(a[2])' => Mine(a[2]) /\ asked \in Nat /\ asked' \in Nat /\ asked <= asked'
    BY <2>1, SameProcess
  <2> QED BY <1>0, <2>1, <2>2 DEF Made
<1>2. CASE AsksUser /\ up /\ a = <<asked + 1, inst>>
  <2>1. inst <= gens /\ inst \in Nat
    BY <1>2, UpGen, AskFacts
  <2>2. asked' = asked + 1 /\ asked \in Nat
    BY <1>2 DEF AsksUser, Base, Types, LinkTypes
  <2> QED BY <1>0, <1>2, <2>1, <2>2 DEF Made
<1> QED BY <1>1, <1>2, HeardStep

\* Questions are opened one at a time.
LEMMA OpenGrows ==
  ASSUME Base, [Next]_vars
  PROVE  open' \subseteq open \/ (AsksUser /\ asked' = asked + 1 /\ open' = open \cup {asked + 1})
<1>1. ASSUME AsksUser PROVE open' \subseteq open \/ (AsksUser /\ asked' = asked + 1 /\ open' = open \cup {asked + 1})
  BY <1>1 DEF AsksUser
<1>2. ASSUME Exits PROVE open' \subseteq open \/ (AsksUser /\ asked' = asked + 1 /\ open' = open \cup {asked + 1})
  BY <1>2 DEF Exits
<1>3. ASSUME NEW j \in Ids, Withdraws(j) PROVE open' \subseteq open \/ (AsksUser /\ asked' = asked + 1 /\ open' = open \cup {asked + 1})
  BY <1>3 DEF Withdraws
<1>4. ASSUME Judge PROVE open' \subseteq open \/ (AsksUser /\ asked' = asked + 1 /\ open' = open \cup {asked + 1})
  BY <1>4 DEF Judge, Answer, Unsent, Reject
<1>5. ASSUME RejectEvicted PROVE open' \subseteq open \/ (AsksUser /\ asked' = asked + 1 /\ open' = open \cup {asked + 1})
  BY <1>5 DEF RejectEvicted, Answer, Unsent, Reject
<1>6. ASSUME NEW u \in Users, Respond(u) PROVE open' \subseteq open \/ (AsksUser /\ asked' = asked + 1 /\ open' = open \cup {asked + 1})
  BY <1>6 DEF Respond, Answer, Unsent, Reject
<1>7. ASSUME UNCHANGED <<open>> PROVE open' \subseteq open \/ (AsksUser /\ asked' = asked + 1 /\ open' = open \cup {asked + 1})
  BY <1>7
<1>8. ASSUME
       Connect \/ StartTurn \/ EndsTurn \/ LosesLink \/ FinalizeLoss \/ FinalizeExit \/
       Replay \/ Receive \/ Insert \/ Resolved \/ IdleStatus \/ ClientExited \/ Drop \/
       Wipe
      PROVE open' \subseteq open \/ (AsksUser /\ asked' = asked + 1 /\ open' = open \cup {asked + 1})
  BY <1>8, <1>7 DEF Connect, StartTurn, EndsTurn, LosesLink, FinalizeLoss, FinalizeExit,
                    Replay, Receive, Insert, Resolved, Handles, IdleStatus, ClientExited,
                    Drop, Wipe
<1>9. ASSUME NEW g \in Gens,
       Read(g)
      PROVE open' \subseteq open \/ (AsksUser /\ asked' = asked + 1 /\ open' = open \cup {asked + 1})
  BY <1>9, <1>7 DEF Read
<1>10. ASSUME NEW u \in Users,
       Choose(u) \/ Bury(u) \/ Discard(u) \/ Leaves(u)
      PROVE open' \subseteq open \/ (AsksUser /\ asked' = asked + 1 /\ open' = open \cup {asked + 1})
  BY <1>10, <1>7 DEF Choose, Bury, Discard, Leaves
<1> QED BY <1>1, <1>2, <1>3, <1>4, <1>5, <1>6, <1>7, <1>8, <1>9, <1>10
     DEF Next, vars, ProcessStep, ClientStep, RequestTask, NoteTask, User

\* A question that is settled is said to be.
LEMMA OpenShrinks ==
  ASSUME Base, [Next]_vars
  PROVE  Exits \/ deaf' \/ \A i \in open : i \in open' \/ Said(Line("resolved", i))
<1>1. ASSUME AsksUser PROVE Exits \/ deaf' \/ \A i \in open : i \in open' \/ Said(Line("resolved", i))
  BY <1>1 DEF AsksUser
<1>2. ASSUME Exits PROVE Exits \/ deaf' \/ \A i \in open : i \in open' \/ Said(Line("resolved", i))
  BY <1>2
<1>3. ASSUME NEW j \in Ids, Withdraws(j) PROVE Exits \/ deaf' \/ \A i \in open : i \in open' \/ Said(Line("resolved", i))
  BY <1>3 DEF Withdraws, Says, Said
<1>4. ASSUME Judge PROVE Exits \/ deaf' \/ \A i \in open : i \in open' \/ Said(Line("resolved", i))
  <2>1. UNCHANGED open \/ (CanWrite(rt.ask) /\ Answer(rt.ask))
    BY <1>4 DEF Judge, Reject, Unsent
  <2> QED BY <2>1 DEF Answer, CanWrite, Said
<1>5. ASSUME RejectEvicted PROVE Exits \/ deaf' \/ \A i \in open : i \in open' \/ Said(Line("resolved", i))
  <2>1. UNCHANGED open \/ (CanWrite(rt.ask) /\ Answer(rt.ask))
    BY <1>5 DEF RejectEvicted, Reject, Unsent
  <2> QED BY <2>1 DEF Answer, CanWrite, Said
<1>6. ASSUME NEW u \in Users, Respond(u) PROVE Exits \/ deaf' \/ \A i \in open : i \in open' \/ Said(Line("resolved", i))
  <2>1. UNCHANGED open \/ (CanWrite(us[u].ask) /\ Answer(us[u].ask))
    BY <1>6 DEF Respond, Reject, Unsent
  <2> QED BY <2>1 DEF Answer, CanWrite, Said
<1>7. ASSUME UNCHANGED <<open>> PROVE Exits \/ deaf' \/ \A i \in open : i \in open' \/ Said(Line("resolved", i))
  BY <1>7
<1>8. ASSUME
       Connect \/ StartTurn \/ EndsTurn \/ LosesLink \/ FinalizeLoss \/ FinalizeExit \/
       Replay \/ Receive \/ Insert \/ Resolved \/ IdleStatus \/ ClientExited \/ Drop \/
       Wipe
      PROVE Exits \/ deaf' \/ \A i \in open : i \in open' \/ Said(Line("resolved", i))
  BY <1>8, <1>7 DEF Connect, StartTurn, EndsTurn, LosesLink, FinalizeLoss, FinalizeExit,
                    Replay, Receive, Insert, Resolved, Handles, IdleStatus, ClientExited,
                    Drop, Wipe
<1>9. ASSUME NEW g \in Gens,
       Read(g)
      PROVE Exits \/ deaf' \/ \A i \in open : i \in open' \/ Said(Line("resolved", i))
  BY <1>9, <1>7 DEF Read
<1>10. ASSUME NEW u \in Users,
       Choose(u) \/ Bury(u) \/ Discard(u) \/ Leaves(u)
      PROVE Exits \/ deaf' \/ \A i \in open : i \in open' \/ Said(Line("resolved", i))
  BY <1>10, <1>7 DEF Choose, Bury, Discard, Leaves
<1> QED BY <1>1, <1>2, <1>3, <1>4, <1>5, <1>6, <1>7, <1>8, <1>9, <1>10
     DEF Next, vars, ProcessStep, ClientStep, RequestTask, NoteTask, User

----------------------------------------------------------------------------
(* What the running process has said.                                      *)

\* No question is said after its end.
Ordered(s) == \A k, m \in 1..Len(s) : k < m /\ s[k].kind = "resolved" => s[m] # Line("ask", s[k].id)

Ended == (1..asked) \ open

ReadInv ==
  /\ \A g \in Gens : Mine(g) =>
       /\ \A l \in ToSet(lines[g]) : l.kind = "resolved" => l.id \in Ended
       /\ Ordered(lines[g])
       /\ ~deaf => \A i \in Ids : Line("ask", i) \in ToSet(lines[g])
                                    => i \in open \/ Line("resolved", i) \in ToSet(lines[g])
  /\ \A n \in ToSet(notes) : n.kind = "resolved" /\ n.of = proc => n.id \in Ended

\* What has ended stays so while the process runs.
LEMMA EndedKept ==
  ASSUME Base, [Next]_vars, UNCHANGED asked \/ asked' = asked + 1, NEW i \in Ended
  PROVE  i \in Ended'
<1>1. i \in 1..asked /\ i \notin open /\ asked \in Nat
  BY DEF Ended, Base, Types, LinkTypes
<1>2. i \notin open'
  BY <1>1, OpenGrows
<1> QED BY <1>1, <1>2 DEF Ended

\* Nothing was said on a connection that is yet to be.
LEMMA NewLines ==
  ASSUME Base, [Next]_vars, NEW g \in Gens, ~(g <= gens)
  PROVE  lines'[g] = <<>> /\ ToSet(lines'[g]) = {} /\ Ordered(lines'[g])
<1>1. lines[g] = <<>> /\ lines \in [Gens -> Seq(Lines)]
  BY DEF Base, LinkInv, Types, LineTypes
<1>2. inst # g \/ ~up
  BY UpGen
<1>3. lines'[g] = <<>>
  BY <1>1, <1>2, LinesStep DEF SaysStep, LosesLink, Read, Said
<1> QED BY <1>3, EmptySet DEF Ordered

\* The lines stay in order.
LEMMA OrderedStep ==
  ASSUME Base, ReadInv, [Next]_vars, NEW g \in Gens, Mine(g), Mine(g)'
  PROVE  Ordered(lines'[g])
<1>0. lines \in [Gens -> Seq(Lines)] /\ lines[g] \in Seq(Lines) /\ Ordered(lines[g])
  BY DEF Base, Types, LineTypes, ReadInv
<1>1. CASE lines'[g] = lines[g]
  BY <1>0, <1>1
<1>2. CASE lines'[g] = <<>>
  BY <1>2 DEF Ordered
<1>3. ASSUME lines[g] # <<>>, lines'[g] = Tail(lines[g]) PROVE Ordered(lines'[g])
  <2> DEFINE s == lines[g]  t == Tail(s)
  <2>1. Len(t) = Len(s) - 1 /\ Len(s) \in Nat /\ \A k \in 1..Len(t) : t[k] = s[k + 1]
    BY <1>0, <1>3
  <2> HIDE DEF t, s
  <2>2. Ordered(t)
    <3> SUFFICES ASSUME NEW k \in 1..Len(t), NEW m \in 1..Len(t), k < m, t[k].kind = "resolved"
                 PROVE  t[m] # Line("ask", t[k].id)
      BY DEF Ordered
    <3>1. k + 1 \in 1..Len(s) /\ m + 1 \in 1..Len(s) /\ k + 1 < m + 1 /\ t[k] = s[k + 1] /\ t[m] = s[m + 1]
      BY <2>1
    <3>2. Ordered(s)
      BY <1>0 DEF s
    <3> QED BY <3>1, <3>2 DEF Ordered
  <2> QED BY <1>3, <2>2 DEF t, s
<1>4. ASSUME NEW l \in Lines, lines'[g] = Append(lines[g], l),
             \A x \in ToSet(lines[g]) : x.kind = "resolved" => l # Line("ask", x.id)
      PROVE  Ordered(lines'[g])
  <2> DEFINE s == lines[g]  t == Append(s, l)
  <2>1. Len(t) = Len(s) + 1 /\ Len(s) \in Nat /\ t[Len(s) + 1] = l /\ \A k \in 1..Len(s) : t[k] = s[k]
    BY <1>0
  <2> HIDE DEF t, s
  <2>2. Ordered(t)
    <3> SUFFICES ASSUME NEW k \in 1..Len(t), NEW m \in 1..Len(t), k < m, t[k].kind = "resolved"
                 PROVE  t[m] # Line("ask", t[k].id)
      BY DEF Ordered
    <3>1. k \in 1..Len(s) /\ t[k] = s[k]
      BY <2>1
    <3>2. CASE m = Len(s) + 1
      <4>1. s[k] \in ToSet(s)
        BY <3>1, <1>0 DEF ToSet, s
      <4> QED BY <1>4, <2>1, <3>1, <3>2, <4>1 DEF s
    <3>3. CASE m \in 1..Len(s)
      BY <1>0, <2>1, <3>1, <3>3 DEF Ordered, s
    <3> QED BY <2>1, <3>2, <3>3
  <2> QED BY <1>4, <2>2 DEF t, s
<1>5. CASE LosesLink
  BY <1>0, <1>1, <1>2, <1>5 DEF LosesLink
<1>6. ASSUME NEW h \in Gens, Read(h) PROVE Ordered(lines'[g])
  BY <1>0, <1>1, <1>3, <1>6 DEF Read
<1>7. ASSUME NEW l \in Lines, Said(l), \A x \in ToSet(lines[g]) : x.kind = "resolved" => l # Line("ask", x.id)
      PROVE  Ordered(lines'[g])
  BY <1>0, <1>1, <1>4, <1>7 DEF Said
<1>8. CASE AsksUser /\ asked + 1 \in Ids /\ Said(Line("ask", asked + 1))
  <2>1. \A x \in ToSet(lines[g]) : x.kind = "resolved" => x.id \in 1..asked
    BY DEF ReadInv, Ended
  <2>2. \A x \in ToSet(lines[g]) : x.kind = "resolved" => Line("ask", asked + 1) # Line("ask", x.id)
    <3>1. asked \in Nat
      BY DEF Base, Types, LinkTypes
    <3> QED BY <2>1, <3>1 DEF Line
  <2> QED BY <1>7, <1>8, <2>2, LineFacts
<1>9. ASSUME NEW l \in Lines, l.kind # "ask", Said(l) PROVE Ordered(lines'[g])
  <2>1. \A x : l # Line("ask", x)
    BY <1>9 DEF Line
  <2> QED BY <1>7, <1>9, <2>1
<1>10. CASE Said(Line("idle", 0))
  BY <1>9, <1>10, LineFacts
<1>11. ASSUME NEW i \in open, Said(Line("resolved", i)) PROVE Ordered(lines'[g])
  <2>1. i \in Ids
    BY DEF Base, Types, LinkTypes
  <2> QED BY <1>9, <1>11, <2>1, LineFacts
<1> QED BY <1>1, <1>5, <1>6, <1>8, <1>10, <1>11, LinesStep DEF SaysStep

\* A line that a question is resolved is of one that ended.
LEMMA EndedLines ==
  ASSUME Base, ReadInv, [Next]_vars, NEW g \in Gens, Mine(g), Mine(g)',
         NEW l \in ToSet(lines'[g]), l.kind = "resolved"
  PROVE  l.id \in Ended'
<1>1. /\ UNCHANGED asked \/ asked' = asked + 1
      /\ asked \in Nat /\ asked <= asked' /\ asked' \in Nat
  BY SameProcess DEF Mine
<1>2. CASE l \in ToSet(lines[g])
  BY <1>1, <1>2, EndedKept DEF ReadInv
<1>3. ASSUME NEW i \in open, open' = open \ {i}, l = Line("resolved", i) PROVE l.id \in Ended'
  <2>1. i \in 1..asked
    BY DEF Base, OpenInv
  <2> QED BY <1>1, <1>3, <2>1 DEF Ended, Line
<1> QED BY <1>2, <1>3, LinesOfKept, LineFacts

\* The asks on the connection are of open questions, or their end follows.
LEMMA AskedLines ==
  ASSUME Base, DeafInv, ReadInv, [Next]_vars, NEW g \in Gens, Mine(g), Mine(g)', ~deaf, ~deaf',
         NEW i \in Ids, Line("ask", i) \in ToSet(lines'[g])
  PROVE  i \in open' \/ Line("resolved", i) \in ToSet(lines'[g])
<1>0. g = inst /\ up /\ proc # 0
  BY OneConnection
<1>1. CASE Line("ask", i) \in ToSet(lines[g])
  <2>1. i \in open \/ Line("resolved", i) \in ToSet(lines[g])
    BY <1>1 DEF ReadInv
  <2>2. ASSUME i \in open, i \notin open' PROVE Line("resolved", i) \in ToSet(lines'[g])
    <3>1. ~Exits
      BY <1>0, SameProcess DEF Mine, Exits
    <3>2. Said(Line("resolved", i))
      BY <2>2, <3>1, OpenShrinks
    <3> QED BY <1>0, <3>2, SaidSet, LineFacts
  <2>3. ASSUME Line("resolved", i) \in ToSet(lines[g]) PROVE Line("resolved", i) \in ToSet(lines'[g])
    <3>1. CASE UNCHANGED lines
      BY <2>3, <3>1
    <3>2. ~LosesLink
      BY DEF LosesLink
    <3>3. ASSUME NEW h \in Gens, Read(h) PROVE Line("resolved", i) \in ToSet(lines'[g])
      <4>0. lines \in [Gens -> Seq(Lines)] /\ lines[g] \in Seq(Lines) /\ lines[h] \in Seq(Lines)
        BY DEF Base, Types, LineTypes
      <4>1. CASE h # g
        BY <2>3, <3>3, <4>0, <4>1 DEF Read
      <4>2. ASSUME h = g PROVE Line("resolved", i) \in ToSet(Tail(lines[g]))
        <5>1. lines[g] # <<>> /\ lines'[g] = Tail(lines[g])
          BY <3>3, <4>0, <4>2 DEF Read
        <5>2. ASSUME Head(lines[g]) = Line("resolved", i) PROVE FALSE
          <6> DEFINE s == lines[g]
          <6>1. Len(s) \in Nat \ {0} /\ s[1] = Line("resolved", i) /\ Ordered(s)
            BY <4>0, <5>1, <5>2 DEF ReadInv
          <6>2. PICK m \in 1..Len(Tail(s)) : Line("ask", i) = Tail(s)[m]
            <7>1. Line("ask", i) \in ToSet(Tail(s)) /\ Tail(s) \in Seq(Lines)
              BY <4>0, <5>1, TailSet
            <7> HIDE DEF s
            <7> QED BY <7>1 DEF ToSet
          <6>3. m + 1 \in 1..Len(s) /\ 1 < m + 1 /\ s[m + 1] = Line("ask", i)
            BY <4>0, <5>1, <6>2
          <6> HIDE DEF s
          <6>4. s[1].kind = "resolved" /\ s[1].id = i
            BY <6>1, LineFacts
          <6> QED BY <6>1, <6>3, <6>4 DEF Ordered
        <5> QED BY <2>3, <4>0, <5>1, <5>2, TailSet
      <4> QED BY <3>3, <4>0, <4>1, <4>2 DEF Read
    <3>4. ASSUME NEW l \in Lines, Said(l) PROVE Line("resolved", i) \in ToSet(lines'[g])
      BY <2>3, <3>4, SaidSet
    <3> QED BY <3>1, <3>2, <3>3, <3>4, LinesStep, LineFacts, AskFacts DEF SaysStep, Base, Types, LinkTypes
  <2> QED BY <2>1, <2>2, <2>3
<1>2. CASE AsksUser /\ Line("ask", i) = Line("ask", asked + 1)
  BY <1>2 DEF AsksUser, Line
<1>3. CASE Line("ask", i) = Line("idle", 0) \/ \E j : Line("ask", i) = Line("resolved", j)
  BY <1>3 DEF Line
<1> QED BY <1>1, <1>2, <1>3, LinesOfKept

NoteFrom(n) ==
  \/ n \in ToSet(notes) \/ n.kind = "exited"
  \/ \E g \in Gens : Read(g) /\ n.of = origin[g] /\ Head(lines[g]).kind = n.kind /\ Head(lines[g]).id = n.id

\* What the notification task hears of.
LEMMA NotesFrom ==
  ASSUME Base, [Next]_vars
  PROVE  \A n \in ToSet(notes') : NoteFrom(n)
<1>1. ASSUME FinalizeExit PROVE \A n \in ToSet(notes') : NoteFrom(n)
  <2> DEFINE m == [kind |-> "exited", id |-> 0, of |-> origin[inst]]
  <2>1. inst \in Gens
    BY <1>1, BoundsAssumption DEF FinalizeExit, Ending, Base, Types, LinkTypes, Gens
  <2>2. m \in Notes /\ m.kind = "exited" /\ notes' = Append(notes, m)
    BY <1>1, <2>1 DEF FinalizeExit, Base, Types, LinkTypes, Notes
  <2> HIDE DEF m
  <2>3. ToSet(notes') = ToSet(notes) \cup {m}
    BY <2>2, AppendSet DEF Base, Types, LineTypes
  <2> QED BY <2>2, <2>3 DEF NoteFrom
<1>2. ASSUME NEW g \in Gens, Read(g) PROVE \A n \in ToSet(notes') : NoteFrom(n)
  <2> DEFINE l == Head(lines[g])  m == [kind |-> l.kind, id |-> l.id, of |-> origin[g]]
  <2>1. l \in Lines /\ notes \in Seq(Notes)
    BY <1>2, TailSet DEF Read, Base, Types, LineTypes
  <2>2. notes' = notes \/ (notes' = Append(notes, m) /\ l.kind # "ask")
    BY <1>2 DEF Read
  <2>3. m \in Notes \/ l.kind = "ask"
    BY <2>1 DEF Lines, Notes, Base, Types, LinkTypes
  <2>4. m.kind = l.kind /\ m.id = l.id /\ m.of = origin[g]
    OBVIOUS
  <2> HIDE DEF l, m
  <2>6. m \in Notes => ToSet(Append(notes, m)) = ToSet(notes) \cup {m}
    BY <2>1, AppendSet
  <2>5. ToSet(notes') = ToSet(notes) \/ ToSet(notes') = ToSet(notes) \cup {m}
    BY <2>2, <2>3, <2>6
  <2> QED BY <1>2, <2>4, <2>5 DEF NoteFrom, l
<1>3. ASSUME Resolved PROVE \A n \in ToSet(notes') : NoteFrom(n)
  <2>1. notes # <<>> /\ notes' = Tail(notes) /\ notes \in Seq(Notes)
    BY <1>3 DEF Resolved, Handles, Base, Types, LineTypes
  <2> QED BY <2>1, TailSet DEF NoteFrom
<1>4. ASSUME IdleStatus PROVE \A n \in ToSet(notes') : NoteFrom(n)
  <2>1. notes # <<>> /\ notes' = Tail(notes) /\ notes \in Seq(Notes)
    BY <1>4 DEF IdleStatus, Handles, Base, Types, LineTypes
  <2> QED BY <2>1, TailSet DEF NoteFrom
<1>5. ASSUME ClientExited PROVE \A n \in ToSet(notes') : NoteFrom(n)
  <2>1. notes # <<>> /\ notes' = Tail(notes) /\ notes \in Seq(Notes)
    BY <1>5 DEF ClientExited, Handles, Base, Types, LineTypes
  <2> QED BY <2>1, TailSet DEF NoteFrom
<1>6. ASSUME UNCHANGED <<notes>> PROVE \A n \in ToSet(notes') : NoteFrom(n)
  BY <1>6 DEF NoteFrom
<1>7. ASSUME
       Connect \/ StartTurn \/ AsksUser \/ EndsTurn \/ Exits \/ LosesLink \/ FinalizeLoss
       \/ Replay \/ Receive \/ Judge \/ Insert \/ RejectEvicted \/ Drop \/ Wipe
      PROVE \A n \in ToSet(notes') : NoteFrom(n)
  BY <1>7, <1>6 DEF Connect, StartTurn, AsksUser, EndsTurn, Exits, LosesLink, FinalizeLoss,
                    Replay, Receive, Judge, Insert, RejectEvicted, Drop, Wipe
<1>8. ASSUME NEW j \in Ids,
       Withdraws(j)
      PROVE \A n \in ToSet(notes') : NoteFrom(n)
  BY <1>8, <1>6 DEF Withdraws
<1>9. ASSUME NEW u \in Users,
       Choose(u) \/ Respond(u) \/ Bury(u) \/ Discard(u) \/ Leaves(u)
      PROVE \A n \in ToSet(notes') : NoteFrom(n)
  BY <1>9, <1>6 DEF Choose, Respond, Bury, Discard, Leaves
<1> QED BY <1>1, <1>2, <1>3, <1>4, <1>5, <1>6, <1>7, <1>8, <1>9
     DEF Next, vars, ProcessStep, ClientStep, RequestTask, NoteTask, User

\* So is a notification.
LEMMA EndedNotes ==
  ASSUME Base, ReadInv, [Next]_vars, NEW n \in ToSet(notes'), n.kind = "resolved", n.of = proc'
  PROVE  n.id \in Ended'
<1>1. CASE n \in ToSet(notes)
  <2>1. n.of \in 1..procs
    BY <1>1 DEF Base, LineFits
  <2>2. OriginKept /\ procs \in Nat /\ asked \in Nat
    BY OriginStep DEF Base, Types, LinkTypes
  <2>3. proc' = proc /\ (UNCHANGED asked \/ asked' = asked + 1)
    BY <1>1, <2>1, <2>2 DEF OriginKept
  <2> QED BY <1>1, <2>3, EndedKept DEF ReadInv
<1>2. ASSUME NEW g \in Gens, Read(g), n.of = origin[g], Head(lines[g]).kind = n.kind, Head(lines[g]).id = n.id
      PROVE  n.id \in Ended'
  <2>1. lines[g] # <<>> /\ Head(lines[g]) \in ToSet(lines[g])
    BY <1>2, TailSet DEF Read, Base, Types, LineTypes
  <2>2. UNCHANGED <<proc, asked, open>>
    BY <1>2 DEF Read, procVars
  <2>3. Mine(g)
    BY <1>2, <2>1, <2>2 DEF Mine, Base, LinkInv
  <2> QED BY <1>2, <2>1, <2>2, <2>3 DEF ReadInv, Ended
<1> QED BY <1>1, <1>2, NotesFrom DEF NoteFrom

\* Nobody is told twice.
LEMMA DeafStays ==
  ASSUME [Next]_vars
  PROVE  deaf => deaf'
<1>1. ASSUME AsksUser PROVE deaf => deaf'
  BY <1>1, Zenon DEF AsksUser, Says
<1>2. ASSUME EndsTurn PROVE deaf => deaf'
  BY <1>2, Zenon DEF EndsTurn, Says
<1>3. ASSUME LosesLink PROVE deaf => deaf'
  BY <1>3, Zenon DEF LosesLink
<1>4. ASSUME NEW j \in Ids, Withdraws(j) PROVE deaf => deaf'
  BY <1>4, Zenon DEF Withdraws, Says
<1>5. ASSUME UNCHANGED <<deaf>> PROVE deaf => deaf'
  BY <1>5
<1>6. ASSUME
       Connect \/ StartTurn \/ Exits \/ FinalizeLoss \/ FinalizeExit \/ Replay \/ Receive
       \/ Judge \/ Insert \/ RejectEvicted \/ Resolved \/ IdleStatus \/ ClientExited \/
       Drop \/ Wipe
      PROVE deaf => deaf'
  BY <1>6, <1>5 DEF Connect, StartTurn, Exits, FinalizeLoss, FinalizeExit, Replay, Receive,
                    Judge, Insert, RejectEvicted, Resolved, Handles, IdleStatus,
                    ClientExited, Drop, Wipe
<1>7. ASSUME NEW g \in Gens,
       Read(g)
      PROVE deaf => deaf'
  BY <1>7, <1>5 DEF Read
<1>8. ASSUME NEW u \in Users,
       Choose(u) \/ Respond(u) \/ Bury(u) \/ Discard(u) \/ Leaves(u)
      PROVE deaf => deaf'
  BY <1>8, <1>5 DEF Choose, Respond, Bury, Discard, Leaves
<1> QED BY <1>1, <1>2, <1>3, <1>4, <1>5, <1>6, <1>7, <1>8
     DEF Next, vars, ProcessStep, ClientStep, RequestTask, NoteTask, User

\* ReadInv is inductive.
LEMMA ReadInvStep ==
  ASSUME Base, DeafInv, ReadInv, [Next]_vars
  PROVE  ReadInv'
<1>1. ASSUME NEW g \in Gens, Mine(g)', ~(g <= gens)
      PROVE  /\ \A l \in ToSet(lines'[g]) : l.kind = "resolved" => l.id \in Ended'
             /\ Ordered(lines'[g])
             /\ \A i \in Ids : Line("ask", i) \notin ToSet(lines'[g])
  BY <1>1, NewLines
<1>2. ASSUME NEW g \in Gens, Mine(g)', g <= gens
      PROVE  /\ \A l \in ToSet(lines'[g]) : l.kind = "resolved" => l.id \in Ended'
             /\ Ordered(lines'[g])
             /\ ~deaf' => \A i \in Ids : Line("ask", i) \in ToSet(lines'[g])
                                           => i \in open' \/ Line("resolved", i) \in ToSet(lines'[g])
  <2>1. Mine(g)
    BY <1>2, SameProcess
  <2>2. deaf => deaf'
    BY DeafStays
  <2> QED BY <1>2, <2>1, <2>2, EndedLines, OrderedStep, AskedLines
<1>3. \A n \in ToSet(notes') : n.kind = "resolved" /\ n.of = proc' => n.id \in Ended'
  BY EndedNotes
<1> QED BY <1>1, <1>2, <1>3 DEF ReadInv, Ordered, Line

----------------------------------------------------------------------------
(* Tombstones are of questions that are over.                              *)

TombInv ==
  /\ \A a \in tombs : Mine(a[2]) => a[1] \notin open \ excused
  /\ \A u \in Users : us[u].at = "tomb" /\ Mine(us[u].ask[2]) => us[u].ask[1] \notin open

\* The process does not ask the same question twice.
LEMMA NotAgain ==
  ASSUME Base, MadeInv, [Next]_vars, NEW a \in Heard, Mine(a[2])', a[1] \notin open
  PROVE  a[1] \notin open'
<1>1. a \in Asks /\ a[2] \in Gens /\ a[2] <= gens /\ a[1] \in Nat
  BY HeardAsks, AskFacts DEF MadeInv, Made
<1>2. Mine(a[2]) /\ asked \in Nat
  BY <1>1, SameProcess
<1>3. a[1] <= asked
  BY <1>1, <1>2 DEF MadeInv, Made
<1> QED BY <1>1, <1>2, <1>3, OpenGrows

\* A question heard of that is the running process's was so before.
LEMMA HeardMine ==
  ASSUME Base, MadeInv, [Next]_vars, NEW a \in Heard, Mine(a[2])'
  PROVE  a[2] \in Gens /\ a[2] <= gens /\ Mine(a[2]) /\ proc' = proc /\ proc # 0
<1>1. a \in Asks /\ a[2] \in Gens /\ a[2] <= gens
  BY HeardAsks, AskFacts DEF MadeInv, Made
<1> QED BY <1>1, SameProcess

\* What is excused stays so while the process runs.
LEMMA ExcusedGrows ==
  ASSUME [Next]_vars
  PROVE  Exits \/ excused \subseteq excused'
<1>1. ASSUME AsksUser PROVE Exits \/ excused \subseteq excused'
  BY <1>1 DEF AsksUser, Says
<1>2. ASSUME EndsTurn PROVE Exits \/ excused \subseteq excused'
  BY <1>2 DEF EndsTurn, Says
<1>3. ASSUME Exits PROVE Exits \/ excused \subseteq excused'
  BY <1>3
<1>4. ASSUME LosesLink PROVE Exits \/ excused \subseteq excused'
  BY <1>4 DEF LosesLink
<1>5. ASSUME NEW j \in Ids, Withdraws(j) PROVE Exits \/ excused \subseteq excused'
  BY <1>5 DEF Withdraws, Says
<1>6. ASSUME NEW g \in Gens, Read(g) PROVE Exits \/ excused \subseteq excused'
  BY <1>6 DEF Read
<1>7. ASSUME Judge PROVE Exits \/ excused \subseteq excused'
  BY <1>7 DEF Judge, Reject
<1>8. ASSUME Insert PROVE Exits \/ excused \subseteq excused'
  BY <1>8 DEF Insert
<1>9. ASSUME RejectEvicted PROVE Exits \/ excused \subseteq excused'
  BY <1>9 DEF RejectEvicted, Reject
<1>10. ASSUME Resolved PROVE Exits \/ excused \subseteq excused'
  BY <1>10 DEF Resolved
<1>11. ASSUME Drop PROVE Exits \/ excused \subseteq excused'
  BY <1>11 DEF Drop
<1>12. ASSUME Wipe PROVE Exits \/ excused \subseteq excused'
  BY <1>12 DEF Wipe
<1>13. ASSUME NEW u \in Users, Discard(u) PROVE Exits \/ excused \subseteq excused'
  BY <1>13 DEF Discard
<1>14. ASSUME UNCHANGED <<excused>> PROVE Exits \/ excused \subseteq excused'
  BY <1>14
<1>15. ASSUME
       Connect \/ StartTurn \/ FinalizeLoss \/ FinalizeExit \/ Replay \/ Receive \/
       IdleStatus \/ ClientExited
      PROVE Exits \/ excused \subseteq excused'
  BY <1>15, <1>14 DEF Connect, StartTurn, FinalizeLoss, FinalizeExit, Replay, Receive,
                      IdleStatus, ClientExited
<1>16. ASSUME NEW u \in Users,
       Choose(u) \/ Respond(u) \/ Bury(u) \/ Leaves(u)
      PROVE Exits \/ excused \subseteq excused'
  BY <1>16, <1>14 DEF Choose, Respond, Bury, Leaves
<1> QED BY <1>1, <1>2, <1>3, <1>4, <1>5, <1>6, <1>7, <1>8, <1>9, <1>10, <1>11, <1>12, <1>13,
           <1>14, <1>15, <1>16
     DEF Next, vars, ProcessStep, ClientStep, RequestTask, NoteTask, User

\* A new tombstone is of a question that is over.
LEMMA NewTombs ==
  ASSUME Base, MadeInv, ReadInv, TombInv, [Next]_vars
  PROVE  \A a \in tombs' \ tombs : Mine(a[2])' => a[1] \notin open' \ excused'
<1>1. ASSUME Judge PROVE \A a \in tombs' \ tombs : Mine(a[2])' => a[1] \notin open' \ excused'
  <2>1. ASSUME NEW a \in tombs' \ tombs PROVE a[1] \notin open'
    BY <1>1, <2>1 DEF Judge, Answer
  <2> QED BY <2>1
<1>2. ASSUME Resolved PROVE \A a \in tombs' \ tombs : Mine(a[2])' => a[1] \notin open' \ excused'
  <2> DEFINE n == Head(notes)
  <2>1. n \in ToSet(notes) /\ n.kind = "resolved"
    BY <1>2, TailSet DEF Resolved, Handles, Base, Types, LineTypes
  <2>2. UNCHANGED open /\ tombs' = tombs \cup Source(n.id) /\ excused' = (IF n.of # proc /\ n.id \in open THEN excused \cup {n.id} ELSE excused)
    BY <1>2 DEF Resolved, Handles
  <2>3. \A a \in Source(n.id) : a[1] = n.id
    BY DEF Source
  <2>4. n.of = proc => n.id \notin open
    BY <2>1 DEF ReadInv, Ended
  <2> QED BY <2>2, <2>3, <2>4
<1>3. ASSUME NEW u \in Users, Bury(u) PROVE \A a \in tombs' \ tombs : Mine(a[2])' => a[1] \notin open' \ excused'
  <2>1. us[u].at = "tomb" /\ tombs' = tombs \cup {us[u].ask} /\ UNCHANGED <<open, gens, origin, proc>>
    BY <1>3 DEF Bury, linkVars, procVars
  <2>2. ASSUME NEW a, a = us[u].ask, Mine(a[2])' PROVE a[1] \notin open'
    BY <2>1, <2>2 DEF TombInv, Mine
  <2> QED BY <2>1, <2>2
<1>4. ASSUME UNCHANGED <<tombs>> PROVE \A a \in tombs' \ tombs : Mine(a[2])' => a[1] \notin open' \ excused'
  BY <1>4
<1>5. ASSUME
       Connect \/ StartTurn \/ AsksUser \/ EndsTurn \/ Exits \/ LosesLink \/ FinalizeLoss
       \/ FinalizeExit \/ Replay \/ Receive \/ Insert \/ RejectEvicted \/ IdleStatus \/
       ClientExited \/ Drop \/ Wipe
      PROVE \A a \in tombs' \ tombs : Mine(a[2])' => a[1] \notin open' \ excused'
  BY <1>5, <1>4 DEF Connect, StartTurn, AsksUser, EndsTurn, Exits, LosesLink, FinalizeLoss,
                    FinalizeExit, Replay, Receive, Insert, RejectEvicted, IdleStatus,
                    ClientExited, Drop, Wipe
<1>6. ASSUME NEW j \in Ids,
       Withdraws(j)
      PROVE \A a \in tombs' \ tombs : Mine(a[2])' => a[1] \notin open' \ excused'
  BY <1>6, <1>4 DEF Withdraws
<1>7. ASSUME NEW g \in Gens,
       Read(g)
      PROVE \A a \in tombs' \ tombs : Mine(a[2])' => a[1] \notin open' \ excused'
  BY <1>7, <1>4 DEF Read
<1>8. ASSUME NEW u \in Users,
       Choose(u) \/ Respond(u) \/ Discard(u) \/ Leaves(u)
      PROVE \A a \in tombs' \ tombs : Mine(a[2])' => a[1] \notin open' \ excused'
  BY <1>8, <1>4 DEF Choose, Respond, Discard, Leaves
<1> QED BY <1>1, <1>2, <1>3, <1>4, <1>5, <1>6, <1>7, <1>8
     DEF Next, vars, ProcessStep, ClientStep, RequestTask, NoteTask, User

\* Who is to bury a question has answered it.
LEMMA NewTombing ==
  ASSUME Base, [Next]_vars
  PROVE  \A w \in Users : us'[w].at = "tomb" => (us[w].at = "tomb" /\ us'[w].ask = us[w].ask) \/ us'[w].ask[1] \notin open'
<1>1. ASSUME NEW u \in Users, Choose(u) PROVE \A w \in Users : us'[w].at = "tomb" => (us[w].at = "tomb" /\ us'[w].ask = us[w].ask) \/ us'[w].ask[1] \notin open'
  <2>1. us' = [us EXCEPT ![u] = us'[u]] /\ us'[u].at # "tomb"
    BY <1>1 DEF Choose, UsGoes, Base, Types, PlaceTypes
  <2> QED BY <2>1 DEF Base, Types, PlaceTypes
<1>2. ASSUME NEW u \in Users, Respond(u) PROVE \A w \in Users : us'[w].at = "tomb" => (us[w].at = "tomb" /\ us'[w].ask = us[w].ask) \/ us'[w].ask[1] \notin open'
  <2>1. \A v \in Users : v # u => us'[v] = us[v]
    BY <1>2 DEF Respond, UsGoes, Base, Types, PlaceTypes
  <2>2. us'[u].at = "tomb" => us'[u].ask[1] \notin open'
    BY <1>2 DEF Respond, UsGoes, Answer, Base, Types, PlaceTypes
  <2> QED BY <2>1, <2>2
<1>3. ASSUME NEW u \in Users, Bury(u) PROVE \A w \in Users : us'[w].at = "tomb" => (us[w].at = "tomb" /\ us'[w].ask = us[w].ask) \/ us'[w].ask[1] \notin open'
  <2>1. us' = [us EXCEPT ![u] = us'[u]] /\ us'[u].at # "tomb"
    BY <1>3 DEF Bury, UsGoes, Base, Types, PlaceTypes
  <2> QED BY <2>1 DEF Base, Types, PlaceTypes
<1>4. ASSUME NEW u \in Users, Discard(u) PROVE \A w \in Users : us'[w].at = "tomb" => (us[w].at = "tomb" /\ us'[w].ask = us[w].ask) \/ us'[w].ask[1] \notin open'
  <2>1. us' = [us EXCEPT ![u] = us'[u]] /\ us'[u].at # "tomb"
    BY <1>4 DEF Discard, UsGoes, Base, Types, PlaceTypes
  <2> QED BY <2>1 DEF Base, Types, PlaceTypes
<1>5. ASSUME UNCHANGED <<us>> PROVE \A w \in Users : us'[w].at = "tomb" => (us[w].at = "tomb" /\ us'[w].ask = us[w].ask) \/ us'[w].ask[1] \notin open'
  BY <1>5
<1>6. ASSUME
       Connect \/ StartTurn \/ AsksUser \/ EndsTurn \/ Exits \/ LosesLink \/ FinalizeLoss
       \/ FinalizeExit \/ Replay \/ Receive \/ Judge \/ Insert \/ RejectEvicted \/ Resolved
       \/ IdleStatus \/ ClientExited \/ Drop \/ Wipe
      PROVE \A w \in Users : us'[w].at = "tomb" => (us[w].at = "tomb" /\ us'[w].ask = us[w].ask) \/ us'[w].ask[1] \notin open'
  BY <1>6, <1>5 DEF Connect, StartTurn, AsksUser, EndsTurn, Exits, LosesLink, FinalizeLoss,
                    FinalizeExit, Replay, Receive, Judge, Insert, RejectEvicted, Resolved,
                    Handles, IdleStatus, ClientExited, Drop, Wipe
<1>7. ASSUME NEW j \in Ids,
       Withdraws(j)
      PROVE \A w \in Users : us'[w].at = "tomb" => (us[w].at = "tomb" /\ us'[w].ask = us[w].ask) \/ us'[w].ask[1] \notin open'
  BY <1>7, <1>5 DEF Withdraws
<1>8. ASSUME NEW g \in Gens,
       Read(g)
      PROVE \A w \in Users : us'[w].at = "tomb" => (us[w].at = "tomb" /\ us'[w].ask = us[w].ask) \/ us'[w].ask[1] \notin open'
  BY <1>8, <1>5 DEF Read
<1>9. ASSUME NEW u \in Users, Leaves(u) PROVE \A w \in Users : us'[w].at = "tomb" => (us[w].at = "tomb" /\ us'[w].ask = us[w].ask) \/ us'[w].ask[1] \notin open'
  <2>1. \A w \in Users : us'[w].at = "tomb" => us'[w] = us[w]
    BY <1>9 DEF Leaves, UsGoes, Base, Types, PlaceTypes
  <2> QED BY <2>1
<1> QED BY <1>1, <1>2, <1>3, <1>4, <1>5, <1>6, <1>7, <1>8, <1>9
     DEF Next, vars, ProcessStep, ClientStep, RequestTask, NoteTask, User

\* TombInv is inductive.
LEMMA TombStep ==
  ASSUME Base, MadeInv, ReadInv, TombInv, [Next]_vars
  PROVE  TombInv'
<1>1. ASSUME NEW a \in tombs', Mine(a[2])', a[1] \in open' \ excused' PROVE FALSE
  <2>1. a \in tombs
    BY <1>1, NewTombs
  <2>2. a \in Heard
    BY <2>1 DEF Heard
  <2>3. Mine(a[2]) /\ proc' = proc /\ proc # 0
    BY <1>1, <2>2, HeardMine
  <2>4. a[1] \in open
    BY <1>1, <2>2, NotAgain
  <2>5. a[1] \in excused
    BY <2>1, <2>3, <2>4 DEF TombInv
  <2>6. ~Exits
    BY <2>3 DEF Exits
  <2> QED BY <1>1, <2>5, <2>6, ExcusedGrows
<1>2. ASSUME NEW u \in Users, us'[u].at = "tomb", NEW a, a = us'[u].ask, Mine(a[2])', a[1] \in open'
      PROVE  FALSE
  <2>1. us[u].at = "tomb" /\ us[u].ask = a
    BY <1>2, NewTombing
  <2>2. a \in Chosen
    BY <2>1, InHandAsks, AskFacts DEF Chosen, Base
  <2>3. a \in Heard
    BY <2>2 DEF Heard
  <2>4. Mine(a[2])
    BY <1>2, <2>3, HeardMine
  <2>5. a[1] \in open
    BY <1>2, <2>3, NotAgain
  <2> QED BY <2>1, <2>4, <2>5 DEF TombInv
<1>3. (\A a \in tombs : Mine(a[2]) => a[1] \notin open \ excused)'
  BY <1>1
<1>4. (\A u \in Users : us[u].at = "tomb" /\ Mine(us[u].ask[2]) => us[u].ask[1] \notin open)'
  BY <1>2 DEF Mine
<1> QED BY <1>3, <1>4 DEF TombInv

----------------------------------------------------------------------------
(* Every open question is on its way to the browsers.                      *)

Flow == ToSet(relay) \cup batch \cup InHand \cup ToSet(shown)

AskInv ==
  \A i \in open \ excused :
    \/ \E g \in Gens : Mine(g) /\ Line("ask", i) \in ToSet(lines[g])
    \/ /\ known[i] # 0 /\ Mine(known[i])
       /\ lagged \/ \E a \in Flow : a[1] = i /\ Mine(a[2])

\* Where a question goes that is still wanted: the channel lags, or it has a
\* tombstone, or it, or one with the same id, is on its way still.
Goes(a) ==
  \/ lagged' \/ a \in tombs \/ a[1] \notin open' \ excused'
  \/ \E b \in Flow' : b[1] = a[1] /\ origin[b[2]] = proc

\* What is on its way goes on.
LEMMA FlowGoes ==
  ASSUME NEW a, Asking(a), a \in Flow'
  PROVE  Goes(a)
BY DEF Goes, Asking

\* A question that is wanted stays on its way.
LEMMA FlowStep ==
  ASSUME Base, [Next]_vars, NEW a \in Flow, Asking(a)
  PROVE  Goes(a)
<1>1. ASSUME NEW g \in Gens, Read(g) PROVE Goes(a)
  <2>1. UNCHANGED <<batch, rt, shown>>
    BY <1>1 DEF Read
  <2>2. CASE a \in ToSet(relay)
    <3> DEFINE l == Head(lines[g])
    <3>1. CASE l.kind # "ask"
      <4>1. a \in Flow'
        BY <1>1, <2>2, <3>1 DEF Read, Flow
      <4> QED BY <4>1, FlowGoes
    <3>2. CASE Len(relay) = RelayCap /\ l.kind = "ask"
      BY <1>1, <3>2 DEF Read, Goes
    <3>3. CASE Len(relay) # RelayCap /\ l.kind = "ask"
      <4>1. l.id \in Ids
        BY <1>1, <3>3, TailSet DEF Read, Base, Types, LineTypes, LineFits
      <4>2. relay' = Append(relay, <<l.id, g>>)
        BY <1>1, <3>3 DEF Read
      <4> HIDE DEF l
      <4>3. ToSet(relay) \subseteq ToSet(relay')
        BY <4>1, <4>2, AskFacts, AppendSet DEF Base, Types, RelayTypes
      <4>8. a \in Flow'
        BY <2>2, <4>3 DEF Flow, InHand
      <4> QED BY <4>8, FlowGoes
    <3> QED BY <3>1, <3>2, <3>3
  <2>3. CASE a \in batch \cup InHand \cup ToSet(shown)
    <3>1. a \in Flow'
      BY <2>1, <2>3 DEF Flow, InHand
    <3> QED BY <3>1, FlowGoes
  <2> QED BY <2>2, <2>3 DEF Flow
<1>2. ASSUME Replay PROVE Goes(a)
  <2>1. UNCHANGED <<relay, rt, shown>> /\ batch = {}
    BY <1>2 DEF Replay
  <2>8. a \in Flow'
    BY <2>1 DEF Flow, InHand
  <2> QED BY <2>8, FlowGoes
<1>3. ASSUME Receive PROVE Goes(a)
  <2>1. UNCHANGED shown /\ rt.at = "recv" /\ InHand = {}
    BY <1>3 DEF Receive, InHand, Base, Types, PlaceTypes
  <2>2. ASSUME NEW b, Take(b), a = b, b \in Asks PROVE Goes(a)
    <3>1. CASE Entombed(b)
      BY <2>2, <3>1 DEF Entombed, Goes
    <3>2. CASE ~Entombed(b)
      <4>1. rt'.ask = b
        BY <2>2, <3>2 DEF Take, RtGoes
      <4>2. b \in Flow'
        BY <2>2, <4>1, AskFacts DEF Flow, InHand
      <4> QED BY <2>2, <4>2, FlowGoes
    <3> QED BY <3>1, <3>2
  <2>3. ASSUME NEW b \in batch, batch' = batch \ {b}, Take(b), UNCHANGED relay PROVE Goes(a)
    <3>1. CASE a = b
      <4>1. b \in Asks
        BY DEF Base, Types, AskTypes
      <4> QED BY <2>2, <2>3, <3>1, <4>1
    <3>2. CASE a # b
      <4>1. a \in Flow'
        BY <2>1, <2>3, <3>2 DEF Flow
      <4> QED BY <4>1, FlowGoes
    <3> QED BY <3>1, <3>2
  <2>4. ASSUME relay # <<>>, relay' = Tail(relay), Take(Head(relay)), UNCHANGED batch PROVE Goes(a)
    <3>1. ToSet(relay) = {Head(relay)} \cup ToSet(relay') /\ Head(relay) \in Asks
      BY <2>4, TailSet DEF Base, Types, RelayTypes
    <3>2. CASE a = Head(relay)
      BY <2>2, <2>4, <3>1, <3>2
    <3>3. CASE a # Head(relay)
      <4>1. a \in Flow'
        BY <2>1, <2>4, <3>1, <3>3 DEF Flow
      <4> QED BY <4>1, FlowGoes
    <3> QED BY <3>2, <3>3
  <2> QED BY <1>3, <2>3, <2>4 DEF Receive
<1>4. ASSUME Judge PROVE Goes(a)
  <2>1. UNCHANGED <<relay, batch, shown>>
    BY <1>4 DEF Judge
  <2>2. CASE a \in ToSet(relay) \cup batch \cup ToSet(shown)
    <3>1. a \in Flow'
      BY <2>1, <2>2 DEF Flow
    <3> QED BY <3>1, FlowGoes
  <2>3. ASSUME a = rt.ask, a # NoAsk PROVE Goes(a)
    <3>1. ASSUME Reject(rt.ask) PROVE a[1] \notin open' \ excused'
      BY <2>3, <3>1 DEF Reject, Answer
    <3>2. ASSUME Answer(rt.ask) PROVE a[1] \notin open'
      BY <2>3, <3>2 DEF Answer
    <3>3. ASSUME RtGoes("insert", rt.ask) PROVE a \in Flow'
      BY <2>3, <3>3 DEF Flow, InHand, RtGoes
    <3>4. CASE a[1] \notin open' \ excused'
      BY <3>4 DEF Goes
    <3>5. CASE a \in Flow'
      BY <3>5, FlowGoes
    <3> QED BY <1>4, <3>1, <3>2, <3>3, <3>4, <3>5 DEF Judge
  <2> QED BY <2>2, <2>3 DEF Flow, InHand
<1>5. ASSUME Insert PROVE Goes(a)
  <2> DEFINE c == rt.ask  grown == Append(shown, c)
  <2>1. UNCHANGED <<relay, batch>> /\ c \in Asks
    BY <1>5, InHandAsks DEF Insert, Base
  <2>2. CASE a \in ToSet(relay) \cup batch
    <3>1. a \in Flow'
      BY <2>1, <2>2 DEF Flow
    <3> QED BY <3>1, FlowGoes
  <2>3. ASSUME Prompt(c[1]) # {} PROVE Goes(a)
    <3>1. UNCHANGED shown
      BY <1>5, <2>3 DEF Insert
    <3>2. CASE a \in ToSet(shown)
      <4>1. a \in Flow'
        BY <3>1, <3>2 DEF Flow
      <4> QED BY <4>1, FlowGoes
    <3>3. ASSUME a = c, a[1] \in open' \ excused' PROVE Goes(a)
      <4>1. \E b \in Prompt(a[1]) : Asking(b)
        BY <1>5, <2>3, <3>3 DEF Insert, Asking
      <4>2. PICK b \in ToSet(shown) : b[1] = a[1] /\ origin[b[2]] = proc
        BY <4>1 DEF Prompt, Asking
      <4>3. b \in Flow'
        BY <3>1 DEF Flow
      <4> QED BY <3>3, <4>2, <4>3 DEF Goes
    <3>4. CASE a[1] \notin open' \ excused'
      BY <3>4 DEF Goes
    <3> QED BY <2>2, <3>2, <3>3, <3>4 DEF Flow, InHand
  <2>4. ASSUME Prompt(c[1]) = {} PROVE Goes(a)
    <3>1. grown \in Seq(Asks) /\ ToSet(grown) = ToSet(shown) \cup {c} /\ grown # <<>>
      BY <2>1, AppendSet DEF Base, Types, ShownTypes
    <3>2. ToSet(grown) = {Head(grown)} \cup ToSet(Tail(grown)) /\ Head(grown) \in Asks
      BY <3>1, TailSet
    <3> HIDE DEF grown
    <3>3. shown' = grown \/ (shown' = Tail(grown) /\ rt'.ask = Head(grown))
      BY <1>5, <2>4 DEF Insert, RtGoes, grown
    <3>4. ToSet(grown) \subseteq Flow'
      BY <3>2, <3>3, AskFacts DEF Flow, InHand
    <3>5. CASE a \in ToSet(grown)
      BY <3>4, <3>5, FlowGoes
    <3> QED BY <2>2, <3>1, <3>5 DEF Flow, InHand
  <2> QED BY <2>3, <2>4
<1>6. ASSUME RejectEvicted PROVE Goes(a)
  <2>1. UNCHANGED <<relay, batch, shown>>
    BY <1>6 DEF RejectEvicted
  <2>2. CASE a \in ToSet(relay) \cup batch \cup ToSet(shown)
    <3>1. a \in Flow'
      BY <2>1, <2>2 DEF Flow
    <3> QED BY <3>1, FlowGoes
  <2>3. ASSUME a = rt.ask, a # NoAsk PROVE Goes(a)
    <3>1. ASSUME Reject(rt.ask) PROVE a[1] \notin open' \ excused'
      BY <2>3, <3>1 DEF Reject, Answer
    <3> QED BY <1>6, <3>1 DEF RejectEvicted, Goes
  <2> QED BY <2>2, <2>3 DEF Flow, InHand
<1>7. ASSUME Drop PROVE Goes(a)
  <2>1. UNCHANGED <<relay, batch, rt>> /\ excused' = excused \cup Torn(Prompt(nt.note.id)) /\ ToSet(shown') = ToSet(shown) \ Prompt(nt.note.id) /\ UNCHANGED open
    BY <1>7, WithoutSet, EmptySet DEF Drop, Prompt, Base, Types, ShownTypes
  <2>2. CASE a \in ToSet(relay) \cup batch \cup InHand
    <3>1. a \in Flow'
      BY <2>1, <2>2 DEF Flow, InHand
    <3> QED BY <3>1, FlowGoes
  <2>3. CASE a \in ToSet(shown) \ Prompt(nt.note.id)
    <3>1. a \in Flow'
      BY <2>1, <2>3 DEF Flow
    <3> QED BY <3>1, FlowGoes
  <2>4. CASE a \in Prompt(nt.note.id)
    BY <2>1, <2>4 DEF Torn, Goes
  <2> QED BY <2>2, <2>3, <2>4 DEF Flow
<1>8. ASSUME Wipe PROVE Goes(a)
  <2>1. UNCHANGED <<relay, batch, rt>> /\ excused' = excused \cup Torn(ToSet(shown)) /\ ToSet(shown') = ToSet(shown) \ ToSet(shown) /\ UNCHANGED open
    BY <1>8, WithoutSet, EmptySet DEF Wipe, Prompt, Base, Types, ShownTypes
  <2>2. CASE a \in ToSet(relay) \cup batch \cup InHand
    <3>1. a \in Flow'
      BY <2>1, <2>2 DEF Flow, InHand
    <3> QED BY <3>1, FlowGoes
  <2>3. CASE a \in ToSet(shown) \ ToSet(shown)
    <3>1. a \in Flow'
      BY <2>1, <2>3 DEF Flow
    <3> QED BY <3>1, FlowGoes
  <2>4. CASE a \in ToSet(shown)
    BY <2>1, <2>4 DEF Torn, Goes
  <2> QED BY <2>2, <2>3, <2>4 DEF Flow
<1>9. ASSUME NEW u \in Users, Discard(u) PROVE Goes(a)
  <2>1. UNCHANGED <<relay, batch, rt>> /\ excused' = excused \cup Torn(Prompt(us[u].ask[1])) /\ ToSet(shown') = ToSet(shown) \ Prompt(us[u].ask[1]) /\ UNCHANGED open
    BY <1>9, WithoutSet, EmptySet DEF Discard, Prompt, Base, Types, ShownTypes
  <2>2. CASE a \in ToSet(relay) \cup batch \cup InHand
    <3>1. a \in Flow'
      BY <2>1, <2>2 DEF Flow, InHand
    <3> QED BY <3>1, FlowGoes
  <2>3. CASE a \in ToSet(shown) \ Prompt(us[u].ask[1])
    <3>1. a \in Flow'
      BY <2>1, <2>3 DEF Flow
    <3> QED BY <3>1, FlowGoes
  <2>4. CASE a \in Prompt(us[u].ask[1])
    BY <2>1, <2>4 DEF Torn, Goes
  <2> QED BY <2>2, <2>3, <2>4 DEF Flow
<1>10. ASSUME UNCHANGED <<relay, batch, rt, shown, lagged>> PROVE Goes(a)
  <2>1. a \in Flow'
    BY <1>10 DEF Flow, InHand
  <2> QED BY <2>1, FlowGoes
<1>11. ASSUME
       Connect \/ StartTurn \/ AsksUser \/ EndsTurn \/ Exits \/ LosesLink \/ FinalizeLoss
       \/ FinalizeExit \/ Resolved \/ IdleStatus \/ ClientExited
      PROVE Goes(a)
  BY <1>11, <1>10 DEF Connect, StartTurn, AsksUser, EndsTurn, Exits, LosesLink, FinalizeLoss,
                      FinalizeExit, Resolved, Handles, IdleStatus, ClientExited
<1>12. ASSUME NEW j \in Ids,
       Withdraws(j)
      PROVE Goes(a)
  BY <1>12, <1>10 DEF Withdraws
<1>13. ASSUME NEW u \in Users,
       Choose(u) \/ Respond(u) \/ Bury(u) \/ Leaves(u)
      PROVE Goes(a)
  BY <1>13, <1>10 DEF Choose, Respond, Bury, Leaves
<1> QED BY <1>1, <1>2, <1>3, <1>4, <1>5, <1>6, <1>7, <1>8, <1>9, <1>10, <1>11, <1>12, <1>13
     DEF Next, vars, ProcessStep, ClientStep, RequestTask, NoteTask, User

\* A line waits until it is read or its connection is lost.
LEMMA LineStays ==
  ASSUME Base, [Next]_vars, NEW g \in Gens, NEW l \in ToSet(lines[g])
  PROVE  \/ l \in ToSet(lines'[g])
         \/ LosesLink /\ g = inst
         \/ Read(g) /\ lines[g] # <<>> /\ Head(lines[g]) = l
<1>0. lines \in [Gens -> Seq(Lines)]
  BY DEF Base, Types, LineTypes
<1>1. CASE UNCHANGED lines
  BY <1>1
<1>2. CASE LosesLink
  BY <1>0, <1>2 DEF LosesLink
<1>3. ASSUME NEW h \in Gens, Read(h)
      PROVE  l \in ToSet(lines'[g]) \/ (Read(g) /\ lines[g] # <<>> /\ Head(lines[g]) = l)
  <2>1. CASE g # h
    BY <1>0, <1>3, <2>1 DEF Read
  <2>2. CASE g = h
    <3>1. lines[g] # <<>> /\ lines'[g] = Tail(lines[g])
      BY <1>0, <1>3, <2>2 DEF Read
    <3>2. ToSet(lines[g]) = {Head(lines[g])} \cup ToSet(lines'[g])
      BY <1>0, <3>1, TailSet
    <3> QED BY <1>3, <2>2, <3>1, <3>2
  <2> QED BY <2>1, <2>2
<1>4. ASSUME NEW m \in Lines, Said(m) PROVE l \in ToSet(lines'[g])
  BY <1>4, SaidSet
<1>5. open \subseteq Ids
  BY DEF Base, Types, LinkTypes
<1> QED BY <1>1, <1>2, <1>3, <1>4, <1>5, LinesStep, LineFacts DEF SaysStep

\* A question waits in its line, is read, or is excused.
LEMMA LineKept ==
  ASSUME Base, [Next]_vars, NEW g \in Gens, NEW i \in Ids, Line("ask", i) \in ToSet(lines[g])
  PROVE  \/ Line("ask", i) \in ToSet(lines'[g]) \/ i \in excused'
         \/ Read(g) /\ lines[g] # <<>> /\ Head(lines[g]) = Line("ask", i)
<1>1. ASSUME LosesLink, g = inst PROVE i \in excused'
  <2>1. i \in {m.id : m \in {n \in ToSet(lines[inst]) : n.kind = "ask"}}
    BY <1>1, LineFacts
  <2> QED BY <1>1, <2>1 DEF LosesLink
<1> QED BY <1>1, LineStays

\* The reader takes a question in: the client's record of its id is its connection's.
Overwritten(i, h) ==
  /\ Read(h) /\ lines[h] # <<>> /\ Head(lines[h]).kind = "ask" /\ Head(lines[h]).id = i
  /\ known' = [known EXCEPT ![i] = h]

\* What becomes of the client's record of a question.
LEMMA KnownStep ==
  ASSUME Base, [Next]_vars, NEW i \in Ids
  PROVE  known'[i] = known[i] \/ i \notin open' \/ FinalizeExit \/ \E h \in Gens : Overwritten(i, h)
<1>1. ASSUME FinalizeExit PROVE known'[i] = known[i] \/ i \notin open' \/ FinalizeExit \/ \E h \in Gens : Overwritten(i, h)
  BY <1>1
<1>2. ASSUME NEW g \in Gens, Read(g) PROVE known'[i] = known[i] \/ i \notin open' \/ FinalizeExit \/ \E h \in Gens : Overwritten(i, h)
  <2> DEFINE l == Head(lines[g])
  <2>1. l \in ToSet(lines[g]) /\ lines[g] # <<>>
    BY <1>2, TailSet DEF Read, Base, Types, LineTypes
  <2>2. CASE l.kind # "ask"
    BY <1>2, <2>2 DEF Read
  <2>3. CASE l.kind = "ask"
    <3>1. l.id \in Ids
      BY <2>1, <2>3 DEF Base, LineFits
    <3>2. known' = [known EXCEPT ![l.id] = g]
      BY <1>2, <2>3 DEF Read
    <3>3. CASE l.id = i
      BY <1>2, <2>1, <2>3, <3>2, <3>3 DEF Overwritten
    <3>4. CASE l.id # i
      BY <3>2, <3>4 DEF Base, Types, RelayTypes
    <3> QED BY <3>3, <3>4
  <2> QED BY <2>2, <2>3
<1>3. ASSUME Judge PROVE known'[i] = known[i] \/ i \notin open' \/ FinalizeExit \/ \E h \in Gens : Overwritten(i, h)
  <2>1. UNCHANGED known \/ Answer(rt.ask)
    BY <1>3 DEF Judge, Reject, Unsent
  <2>2. ASSUME Answer(rt.ask) PROVE known'[i] = known[i] \/ i \notin open'
    BY <2>2 DEF Answer, Base, Types, RelayTypes
  <2> QED BY <2>1, <2>2
<1>4. ASSUME RejectEvicted PROVE known'[i] = known[i] \/ i \notin open' \/ FinalizeExit \/ \E h \in Gens : Overwritten(i, h)
  <2>1. UNCHANGED known \/ Answer(rt.ask)
    BY <1>4 DEF RejectEvicted, Reject, Unsent
  <2>2. ASSUME Answer(rt.ask) PROVE known'[i] = known[i] \/ i \notin open'
    BY <2>2 DEF Answer, Base, Types, RelayTypes
  <2> QED BY <2>1, <2>2
<1>5. ASSUME NEW u \in Users, Respond(u) PROVE known'[i] = known[i] \/ i \notin open' \/ FinalizeExit \/ \E h \in Gens : Overwritten(i, h)
  <2>1. UNCHANGED known \/ Answer(us[u].ask)
    BY <1>5 DEF Respond, Reject, Unsent
  <2>2. ASSUME Answer(us[u].ask) PROVE known'[i] = known[i] \/ i \notin open'
    BY <2>2 DEF Answer, Base, Types, RelayTypes
  <2> QED BY <2>1, <2>2
<1>6. ASSUME UNCHANGED <<known>> PROVE known'[i] = known[i] \/ i \notin open' \/ FinalizeExit \/ \E h \in Gens : Overwritten(i, h)
  BY <1>6
<1>7. ASSUME
       Connect \/ StartTurn \/ AsksUser \/ EndsTurn \/ Exits \/ LosesLink \/ FinalizeLoss
       \/ Replay \/ Receive \/ Insert \/ Resolved \/ IdleStatus \/ ClientExited \/ Drop \/
       Wipe
      PROVE known'[i] = known[i] \/ i \notin open' \/ FinalizeExit \/ \E h \in Gens : Overwritten(i, h)
  BY <1>7, <1>6 DEF Connect, StartTurn, AsksUser, EndsTurn, Exits, LosesLink, FinalizeLoss,
                    Replay, Receive, Insert, Resolved, Handles, IdleStatus, ClientExited,
                    Drop, Wipe
<1>8. ASSUME NEW j \in Ids,
       Withdraws(j)
      PROVE known'[i] = known[i] \/ i \notin open' \/ FinalizeExit \/ \E h \in Gens : Overwritten(i, h)
  BY <1>8, <1>6 DEF Withdraws
<1>9. ASSUME NEW u \in Users,
       Choose(u) \/ Bury(u) \/ Discard(u) \/ Leaves(u)
      PROVE known'[i] = known[i] \/ i \notin open' \/ FinalizeExit \/ \E h \in Gens : Overwritten(i, h)
  BY <1>9, <1>6 DEF Choose, Bury, Discard, Leaves
<1> QED BY <1>1, <1>2, <1>3, <1>4, <1>5, <1>6, <1>7, <1>8, <1>9
     DEF Next, vars, ProcessStep, ClientStep, RequestTask, NoteTask, User

\* What the reader does with a question.
LEMMA ReadAsk ==
  ASSUME Base, NEW h \in Gens, NEW i \in Ids, Overwritten(i, h)
  PROVE  /\ known'[i] = h /\ <<i, h>> \in ToSet(relay') /\ UNCHANGED <<open, proc, gens, origin>>
         /\ (i \in open /\ origin[h] # proc => i \in excused')
<1>1. /\ known' = [known EXCEPT ![i] = h]
      /\ relay' = Append(IF Len(relay) = RelayCap THEN Tail(relay) ELSE relay, <<i, h>>)
      /\ excused' = (IF i \in open /\ origin[h] # proc THEN excused \cup {i} ELSE excused)
      /\ UNCHANGED <<open, proc, gens, origin>>
  BY DEF Overwritten, Read, linkVars, procVars
<1>2. known'[i] = h
  BY <1>1 DEF Base, Types, RelayTypes
<1>3. <<i, h>> \in ToSet(relay')
  <2> DEFINE r == IF Len(relay) = RelayCap THEN Tail(relay) ELSE relay
  <2>1. relay \in Seq(Asks) /\ (Len(relay) = RelayCap => relay # <<>>)
    BY BoundsAssumption DEF Base, Types, RelayTypes
  <2>2. r \in Seq(Asks)
    BY <2>1, TailSet
  <2>3. relay' = Append(r, <<i, h>>)
    BY <1>1
  <2> HIDE DEF r
  <2> QED BY <2>2, <2>3, AskFacts, AppendSet
<1> QED BY <1>1, <1>2, <1>3

\* A channel that was overrun is made up for from the client's record.
LEMMA LagKept ==
  ASSUME Base, [Next]_vars, lagged
  PROVE  lagged' \/ (batch' = Known /\ UNCHANGED known)
<1>1. ASSUME NEW g \in Gens, Read(g) PROVE lagged' \/ (batch' = Known /\ UNCHANGED known)
  <2>1. CASE Head(lines[g]).kind = "ask"
    BY <1>1, <2>1, Zenon DEF Read
  <2>2. CASE Head(lines[g]).kind # "ask"
    BY <1>1, <2>2 DEF Read
  <2> QED BY <2>1, <2>2
<1>2. ASSUME Replay PROVE lagged' \/ (batch' = Known /\ UNCHANGED known)
  BY <1>2 DEF Replay, Known
<1>3. ASSUME UNCHANGED <<lagged>> PROVE lagged' \/ (batch' = Known /\ UNCHANGED known)
  BY <1>3
<1>4. ASSUME
       Connect \/ StartTurn \/ AsksUser \/ EndsTurn \/ Exits \/ LosesLink \/ FinalizeLoss
       \/ FinalizeExit \/ Receive \/ Judge \/ Insert \/ RejectEvicted \/ Resolved \/
       IdleStatus \/ ClientExited \/ Drop \/ Wipe
      PROVE lagged' \/ (batch' = Known /\ UNCHANGED known)
  BY <1>4, <1>3 DEF Connect, StartTurn, AsksUser, EndsTurn, Exits, LosesLink, FinalizeLoss,
                    FinalizeExit, Receive, Judge, Insert, RejectEvicted, Resolved, Handles,
                    IdleStatus, ClientExited, Drop, Wipe
<1>5. ASSUME NEW j \in Ids,
       Withdraws(j)
      PROVE lagged' \/ (batch' = Known /\ UNCHANGED known)
  BY <1>5, <1>3 DEF Withdraws
<1>6. ASSUME NEW u \in Users,
       Choose(u) \/ Respond(u) \/ Bury(u) \/ Discard(u) \/ Leaves(u)
      PROVE lagged' \/ (batch' = Known /\ UNCHANGED known)
  BY <1>6, <1>3 DEF Choose, Respond, Bury, Discard, Leaves
<1> QED BY <1>1, <1>2, <1>3, <1>4, <1>5, <1>6
     DEF Next, vars, ProcessStep, ClientStep, RequestTask, NoteTask, User

\* The question is in the client's record, and will be replayed or is on its way.
Recorded(i) ==
  /\ known[i] # 0 /\ Mine(known[i])
  /\ lagged \/ \E a \in Flow : a[1] = i /\ Mine(a[2])

\* What is heard of next is a question.
LEMMA HeardNext ==
  ASSUME Base, [Next]_vars
  PROVE  Heard' \subseteq Asks
<1>1. asked + 1 \in Ids /\ inst \in Gens => <<asked + 1, inst>> \in Asks
  BY AskFacts
<1>2. AsksUser => asked + 1 \in Ids
  BY BoundsAssumption DEF AsksUser, Ids, Base, Types, LinkTypes
<1> QED BY <1>1, <1>2, HeardStep, HeardAsks, UpGen

\* A question that is read is recorded.
LEMMA RecordedRead ==
  ASSUME Base, MadeInv, [Next]_vars, NEW g \in Gens, Mine(g), NEW i \in Ids, Overwritten(i, g)
  PROVE  Recorded(i)'
<1>1. known'[i] = g /\ <<i, g>> \in Flow' /\ UNCHANGED <<proc, gens, origin>>
  BY ReadAsk DEF Flow
<1> QED BY <1>1, AskFacts DEF Recorded, Mine

\* A question that is recorded stays so while it is wanted.
LEMMA RecordedKept ==
  ASSUME Base, MadeInv, TombInv, [Next]_vars, NEW i \in open, Recorded(i), i \notin excused, proc # 0, proc' = proc,
         i \in open', i \notin excused'
  PROVE  Recorded(i)'
<1>0. i \in Ids /\ known \in [Ids -> 0..MaxGens]
  BY DEF Base, Types, LinkTypes, RelayTypes
<1>1. CASE \E h \in Gens : Overwritten(i, h)
  <2> PICK h \in Gens : Overwritten(i, h)
    BY <1>1
  <2>1. <<i, h>> \in AskLines
    <3>1. Head(lines[h]) \in ToSet(lines[h]) /\ Head(lines[h]) \in Lines
      BY TailSet DEF Overwritten, Base, Types, LineTypes
    <3>2. Head(lines[h]) = Line("ask", i)
      BY <3>1 DEF Overwritten, Line, Lines
    <3> QED BY <1>0, <3>1, <3>2, AskFacts DEF AskLines
  <2>2. h <= gens
    BY <1>0, <2>1, AskFacts DEF MadeInv, Made, Heard
  <2>3. origin[h] = proc
    BY <1>0, ReadAsk
  <2> QED BY <1>0, <2>2, <2>3, RecordedRead DEF Mine
<1>2. CASE known'[i] = known[i]
  <2>1. known[i] \in Gens /\ known[i] <= gens /\ origin[known[i]] = proc
    BY <1>0, BoundsAssumption DEF Recorded, Mine, Gens
  <2>2. Mine(known[i]) /\ OriginKept
    BY OriginStep DEF Recorded
  <2>3. known'[i] # 0 /\ known'[i] \in Gens /\ known'[i] <= gens' /\ origin'[known'[i]] = proc'
    BY <1>2, <2>1, <2>2 DEF OriginKept, Recorded, Gens, Base, Types, LinkTypes
  <2>4. CASE lagged
    <3>1. CASE lagged'
      BY <2>3, <3>1 DEF Recorded, Mine
    <3>2. CASE batch' = Known /\ UNCHANGED known
      <4>1. <<i, known[i]>> \in Known
        BY <1>0, <2>3, <1>2 DEF Known
      <4>2. <<i, known'[i]>> \in Flow'
        BY <3>2, <4>1 DEF Flow
      <4> QED BY <1>0, <2>3, <4>2, AskFacts DEF Recorded, Mine
    <3> QED BY <2>4, <3>1, <3>2, LagKept
  <2>5. ASSUME NEW a \in Flow, a[1] = i, Mine(a[2]) PROVE Recorded(i)'
    <3>1. Goes(a)
      BY <2>5, FlowStep DEF Asking, Mine
    <3>2. a \notin tombs
      BY <2>5 DEF TombInv
    <3>3. ASSUME NEW b \in Flow', b[1] = a[1], origin[b[2]] = proc PROVE Recorded(i)'
      <4>1. b \in Heard'
        BY <3>3 DEF Flow, Heard
      <4>2. b \in Asks /\ b[2] \in Gens /\ b[2] <= gens'
        BY <4>1, MadeStep, AskFacts, HeardNext DEF MadeInv, Made
      <4>3. b[2] <= gens
        BY <4>2, <3>3, AskFacts DEF Base, LinkInv, Types, LinkTypes
      <4>4. origin'[b[2]] = proc'
        BY <4>2, <4>3, <2>2, <3>3 DEF OriginKept
      <4> QED BY <2>3, <2>5, <3>3, <4>2, <4>4 DEF Recorded, Mine
    <3> QED BY <2>3, <2>5, <3>1, <3>2, <3>3 DEF Goes, Recorded, Mine
  <2> QED BY <2>4, <2>5 DEF Recorded
<1>3. ~FinalizeExit
  BY DEF FinalizeExit, Ending, Base, LinkInv
<1> QED BY <1>0, <1>1, <1>2, <1>3, KnownStep

\* AskInv is inductive.
LEMMA AskInvStep ==
  ASSUME Base, MadeInv, TombInv, AskInv, [Next]_vars
  PROVE  AskInv'
<1> SUFFICES ASSUME NEW i \in open' \ excused'
             PROVE  (\E g \in Gens : Mine(g)' /\ Line("ask", i) \in ToSet(lines'[g])) \/ Recorded(i)'
  BY DEF AskInv, Recorded
<1>1. CASE i \notin open
  <2>1. AsksUser /\ asked \in Nat /\ i = asked + 1
    BY <1>1, OpenGrows DEF Base, Types, LinkTypes
  <2>2. up /\ Said(Line("ask", i)) /\ i \in Ids
    <3>1. i \in Ids
      BY <2>1, BoundsAssumption DEF AsksUser, Ids, Base, Types, LinkTypes
    <3>2. Says(Line("ask", i))
      BY <2>1 DEF AsksUser
    <3>3. Line("ask", i).kind = "ask" /\ Line("ask", i).id = i
      BY LineFacts
    <3>4. up
      BY <3>2, <3>3 DEF Says
    <3> QED BY <3>1, <3>2, <3>4 DEF Says, Said
  <2>3. inst \in Gens /\ Mine(inst)
    BY <2>2, UpGen DEF Mine
  <2>4. Line("ask", i) \in ToSet(lines'[inst])
    BY <2>2, LineFacts, SaidSet
  <2>5. UNCHANGED <<proc, gens, origin>>
    BY <2>1 DEF AsksUser, linkVars
  <2>6. Mine(inst)'
    BY <2>1, <2>3, <2>5 DEF Mine, AsksUser, linkVars
  <2> QED BY <2>1, <2>3, <2>4, <2>6 DEF AsksUser, linkVars
<1>2. CASE i \in open
  <2>1. i \in Ids /\ proc # 0 /\ proc' = proc /\ ~Exits /\ OriginKept
    <3>1. proc # 0 /\ i \in Ids /\ OriginKept
      BY <1>2, OriginStep DEF Base, OpenInv, Types, LinkTypes
    <3>2. proc' # 0
      BY BaseStep DEF Base, OpenInv
    <3> QED BY <3>1, <3>2 DEF OriginKept, Exits
  <2>2. i \notin excused
    BY <2>1, ExcusedGrows
  <2>3. CASE Recorded(i)
    BY <1>2, <2>1, <2>2, <2>3, RecordedKept
  <2>4. ASSUME NEW g \in Gens, Mine(g), Line("ask", i) \in ToSet(lines[g])
        PROVE  (\E h \in Gens : Mine(h)' /\ Line("ask", i) \in ToSet(lines'[h])) \/ Recorded(i)'
    <3>1. Mine(g)'
      BY <2>1, <2>4, MineKept DEF Mine
    <3>2. CASE Read(g) /\ lines[g] # <<>> /\ Head(lines[g]) = Line("ask", i)
      <4>1. Overwritten(i, g)
        BY <3>2, LineFacts DEF Overwritten, Read
      <4> QED BY <2>1, <2>4, <4>1, RecordedRead
    <3> QED BY <2>1, <2>4, <3>1, <3>2, LineKept
  <2> QED BY <1>2, <2>2, <2>3, <2>4 DEF AskInv, Recorded
<1> QED BY <1>1, <1>2

\* Once all is quiet, an open question can only be among the prompts.
LEMMA AskShown ==
  ASSUME Base, DeafInv, AskInv
  PROVE  AskIsShown
<1> SUFFICES ASSUME Quiet, up, NEW i \in open \ excused
             PROVE  \E a \in Prompt(i) : Asking(a) /\ CanWrite(a)
  BY DEF AskIsShown
<1>1. Flow = ToSet(shown)
  BY EmptySet DEF Flow, InHand, Quiet, Base, Types, PlaceTypes
<1>2. PICK a \in ToSet(shown) : a[1] = i /\ Mine(a[2])
  BY <1>1, EmptySet DEF AskInv, Quiet
<1>3. a[2] \in Gens
  BY OnItsWayAsks, AskFacts DEF Base
<1>4. a[2] = inst \/ mode = "handoff"
  BY <1>2, <1>3, OneConnection, ModesAssumption DEF DeafInv, Base, Types, LinkTypes
<1> QED BY <1>2, <1>4 DEF Prompt, Asking, Mine, CanWrite

----------------------------------------------------------------------------
(* Every prompt is of a question that is open, or what takes it is on its  *)
(* way: the line or the notification that it is resolved, a user's own     *)
(* removal, or, for a process that is gone, what its exit leads to.        *)

Told(i) ==
  \/ inst # 0 /\ Line("resolved", i) \in ToSet(lines[inst])
  \/ \E n \in ToSet(notes) : n.kind = "resolved" /\ n.id = i /\ n.of = proc

Tombing(a) == \E u \in Users : us[u].at = "tomb" /\ us[u].ask = a
Removing(a) == \E u \in Users : us[u].at \in {"tomb", "remove"} /\ us[u].ask = a
Dropping(i) == nt.at = "drop" /\ nt.note.id = i
ExitComing == (inst # 0 /\ ~up) \/ (\E n \in ToSet(notes) : n.kind = "exited") \/ nt.at = "wipe"

\* What the request task may yet show.
Coming == ToSet(relay) \cup batch \cup (IF rt.at = "reject" THEN {} ELSE InHand)

Over(a) == a[1] \in open \/ Told(a[1])

PromptInv ==
  \A a \in ToSet(shown) \ stale :
    IF Mine(a[2]) THEN Over(a) \/ Dropping(a[1]) \/ Removing(a) ELSE ExitComing

TakenInv == \A a \in (Coming \cup Known) \ (stale \cup tombs) : Mine(a[2]) => Over(a) \/ Tombing(a)
NotedInv == \A a \in Coming \ (stale \cup tombs) : Mine(a[2]) => known[a[1]] # 0 \/ Tombing(a)

StaleInv == ~deaf => PromptInv /\ TakenInv /\ NotedInv

\* Once all is quiet, a prompt is of an open question.
LEMMA NoStale ==
  ASSUME Base, StaleInv
  PROVE  NoStalePrompt
<1> SUFFICES ASSUME Quiet, ~deaf, NEW a \in ToSet(shown) \ stale
             PROVE  Asking(a)
  BY DEF NoStalePrompt
<1>1. ~ExitComing
  BY EmptySet DEF Quiet, ExitComing
<1>2. ~Told(a[1])
  BY EmptySet DEF Quiet, Told, Base, LinkInv, Types, LinkTypes, Gens
<1>3. ~Dropping(a[1]) /\ ~Removing(a)
  BY DEF Quiet, Dropping, Removing
<1> QED BY <1>1, <1>2, <1>3 DEF StaleInv, PromptInv, Over, Asking, Mine

\* All of it.
PromptsInv ==
  Base /\ RefusalInv /\ DeafInv /\ MadeInv /\ ReadInv /\ TombInv /\ AskInv /\ StaleInv

\* The invariant holds at the start.
LEMMA InitPrompts == Init => PromptsInv
<1> SUFFICES ASSUME Init PROVE PromptsInv
  OBVIOUS
<1>1. Base
  BY InitBase
<1>2. RefusalInv
  BY DEF Init, RefusalInv, WorkInv
<1>3. /\ lines = [g \in Gens |-> <<>>] /\ ToSet(relay) = {} /\ batch = {} /\ ToSet(shown) = {}
      /\ tombs = {} /\ InHand = {} /\ Known = {} /\ Chosen = {} /\ ToSet(notes) = {}
      /\ open = {} /\ gens = 0
  BY EmptySet DEF Init, InHand, Known, Chosen
<1>4. AskLines = {}
  BY <1>3, EmptySet, AskFacts DEF AskLines
<1>5. MadeInv
  BY <1>3, <1>4 DEF MadeInv, Heard
<1>6. \A g \in Gens : ~(g <= gens)
  BY <1>3 DEF Gens
<1>7. DeafInv
  BY <1>6 DEF Init, DeafInv
<1>8. ReadInv
  BY <1>3, <1>6 DEF ReadInv, Mine
<1>9. TombInv
  BY <1>3 DEF TombInv, Init
<1>10. AskInv
  BY <1>3 DEF AskInv
<1>11. StaleInv
  BY <1>3 DEF StaleInv, PromptInv, TakenInv, NotedInv, Coming
<1> QED BY <1>1, <1>2, <1>5, <1>7, <1>8, <1>9, <1>10, <1>11 DEF PromptsInv

\* What the notification task is yet to hear of.
Handled(n) == notes # <<>> /\ Head(notes) = n /\ (Resolved \/ IdleStatus \/ ClientExited)

\* A notification waits until it is handled.
LEMMA NotesKept ==
  ASSUME Base, [Next]_vars, NEW n \in ToSet(notes)
  PROVE  n \in ToSet(notes') \/ Handled(n)
<1>1. ASSUME FinalizeExit PROVE n \in ToSet(notes') \/ Handled(n)
  <2> DEFINE m == [kind |-> "exited", id |-> 0, of |-> origin[inst]]
  <2>1. inst \in Gens
    BY <1>1, BoundsAssumption DEF FinalizeExit, Ending, Base, Types, LinkTypes, Gens
  <2>2. m \in Notes /\ notes' = Append(notes, m) /\ notes \in Seq(Notes)
    BY <1>1, <2>1 DEF FinalizeExit, Base, Types, LinkTypes, LineTypes, Notes
  <2> HIDE DEF m
  <2> QED BY <2>2, AppendSet
<1>2. ASSUME NEW g \in Gens, Read(g) PROVE n \in ToSet(notes') \/ Handled(n)
  <2> DEFINE l == Head(lines[g])  m == [kind |-> l.kind, id |-> l.id, of |-> origin[g]]
  <2>1. l \in Lines /\ notes \in Seq(Notes)
    BY <1>2, TailSet DEF Read, Base, Types, LineTypes
  <2>2. notes' = notes \/ (notes' = Append(notes, m) /\ l.kind # "ask")
    BY <1>2 DEF Read
  <2>3. m \in Notes \/ l.kind = "ask"
    BY <2>1 DEF Lines, Notes, Base, Types, LinkTypes
  <2> HIDE DEF m, l
  <2>4. m \in Notes => ToSet(Append(notes, m)) = ToSet(notes) \cup {m}
    BY <2>1, AppendSet
  <2> QED BY <2>2, <2>3, <2>4
<1>3. ASSUME Resolved PROVE n \in ToSet(notes') \/ Handled(n)
  <2>1. notes # <<>> /\ notes' = Tail(notes) /\ notes \in Seq(Notes)
    BY <1>3 DEF Resolved, Handles, Base, Types, LineTypes
  <2> QED BY <1>3, <2>1, TailSet DEF Handled
<1>4. ASSUME IdleStatus PROVE n \in ToSet(notes') \/ Handled(n)
  <2>1. notes # <<>> /\ notes' = Tail(notes) /\ notes \in Seq(Notes)
    BY <1>4 DEF IdleStatus, Handles, Base, Types, LineTypes
  <2> QED BY <1>4, <2>1, TailSet DEF Handled
<1>5. ASSUME ClientExited PROVE n \in ToSet(notes') \/ Handled(n)
  <2>1. notes # <<>> /\ notes' = Tail(notes) /\ notes \in Seq(Notes)
    BY <1>5 DEF ClientExited, Handles, Base, Types, LineTypes
  <2> QED BY <1>5, <2>1, TailSet DEF Handled
<1>6. ASSUME UNCHANGED <<notes>> PROVE n \in ToSet(notes') \/ Handled(n)
  BY <1>6
<1>7. ASSUME
       Connect \/ StartTurn \/ AsksUser \/ EndsTurn \/ Exits \/ LosesLink \/ FinalizeLoss
       \/ Replay \/ Receive \/ Judge \/ Insert \/ RejectEvicted \/ Drop \/ Wipe
      PROVE n \in ToSet(notes') \/ Handled(n)
  BY <1>7, <1>6 DEF Connect, StartTurn, AsksUser, EndsTurn, Exits, LosesLink, FinalizeLoss,
                    Replay, Receive, Judge, Insert, RejectEvicted, Drop, Wipe
<1>8. ASSUME NEW j \in Ids,
       Withdraws(j)
      PROVE n \in ToSet(notes') \/ Handled(n)
  BY <1>8, <1>6 DEF Withdraws
<1>9. ASSUME NEW u \in Users,
       Choose(u) \/ Respond(u) \/ Bury(u) \/ Discard(u) \/ Leaves(u)
      PROVE n \in ToSet(notes') \/ Handled(n)
  BY <1>9, <1>6 DEF Choose, Respond, Bury, Discard, Leaves
<1> QED BY <1>1, <1>2, <1>3, <1>4, <1>5, <1>6, <1>7, <1>8, <1>9
     DEF Next, vars, ProcessStep, ClientStep, RequestTask, NoteTask, User

\* A line that a question is resolved becomes a notification.
LEMMA NoteRead ==
  ASSUME Base, NEW g \in Gens, Read(g), lines[g] # <<>>, Head(lines[g]).kind = "resolved"
  PROVE  \E n \in ToSet(notes') : n.kind = "resolved" /\ n.id = Head(lines[g]).id /\ n.of = origin[g]
<1> DEFINE l == Head(lines[g])  m == [kind |-> l.kind, id |-> l.id, of |-> origin[g]]
<1>1. l \in Lines /\ notes \in Seq(Notes)
  BY TailSet DEF Base, Types, LineTypes
<1>2. notes' = Append(notes, m)
  BY DEF Read
<1>3. m \in Notes
  BY <1>1 DEF Lines, Notes, Base, Types, LinkTypes
<1>4. m.kind = "resolved" /\ m.id = l.id /\ m.of = origin[g]
  OBVIOUS
<1> HIDE DEF m
<1>5. m \in ToSet(notes')
  BY <1>1, <1>2, <1>3, AppendSet
<1> QED BY <1>4, <1>5

\* The connection stays while it is up.
LEMMA InstKept ==
  ASSUME Base, up, [Next]_vars
  PROVE  inst' = inst
<1>1. ASSUME Connect PROVE inst' = inst
  BY <1>1 DEF Connect, Ending, Base, LinkInv
<1>2. ASSUME FinalizeLoss PROVE inst' = inst
  BY <1>2 DEF FinalizeLoss, Ending, Base, LinkInv
<1>3. ASSUME FinalizeExit PROVE inst' = inst
  BY <1>3 DEF FinalizeExit, Ending, Base, LinkInv
<1>4. ASSUME UNCHANGED <<inst>> PROVE inst' = inst
  BY <1>4
<1>5. ASSUME
       StartTurn \/ AsksUser \/ EndsTurn \/ Exits \/ LosesLink \/ Replay \/ Receive \/
       Judge \/ Insert \/ RejectEvicted \/ Resolved \/ IdleStatus \/ ClientExited \/ Drop
       \/ Wipe
      PROVE inst' = inst
  BY <1>5, <1>4 DEF StartTurn, linkVars, AsksUser, EndsTurn, Exits, LosesLink, Replay,
                    Receive, Judge, Insert, RejectEvicted, Resolved, Handles, IdleStatus,
                    ClientExited, Drop, Wipe
<1>6. ASSUME NEW j \in Ids,
       Withdraws(j)
      PROVE inst' = inst
  BY <1>6, <1>4 DEF Withdraws, linkVars
<1>7. ASSUME NEW g \in Gens,
       Read(g)
      PROVE inst' = inst
  BY <1>7, <1>4 DEF Read, linkVars
<1>8. ASSUME NEW u \in Users,
       Choose(u) \/ Respond(u) \/ Bury(u) \/ Discard(u) \/ Leaves(u)
      PROVE inst' = inst
  BY <1>8, <1>4 DEF Choose, linkVars, Respond, Bury, Discard, Leaves
<1> QED BY <1>1, <1>2, <1>3, <1>4, <1>5, <1>6, <1>7, <1>8
     DEF Next, vars, ProcessStep, ClientStep, RequestTask, NoteTask, User

\* What was told stays told until the notification task handles it.
LEMMA ToldKept ==
  ASSUME Base, [Next]_vars, ~deaf', up, proc' = proc, NEW i \in Ids, Told(i)
  PROVE  Told(i)' \/ (Resolved /\ notes # <<>> /\ Head(notes).id = i /\ Head(notes).of = proc)
<1>1. inst' = inst /\ inst \in Gens /\ inst # 0 /\ origin[inst] = proc
  BY InstKept, UpGen, AskFacts
<1>2. ASSUME Line("resolved", i) \in ToSet(lines[inst]) PROVE Told(i)'
  <2>1. CASE Line("resolved", i) \in ToSet(lines'[inst])
    BY <1>1, <2>1 DEF Told
  <2>2. CASE LosesLink
    BY <2>2 DEF LosesLink
  <2>3. CASE Read(inst) /\ lines[inst] # <<>> /\ Head(lines[inst]) = Line("resolved", i)
    <3>1. PICK n \in ToSet(notes') : n.kind = "resolved" /\ n.id = i /\ n.of = proc
      BY <1>1, <2>3, LineFacts, NoteRead
    <3> QED BY <3>1 DEF Told
  <2> QED BY <1>1, <1>2, <2>1, <2>2, <2>3, LineStays
<1>3. ASSUME NEW n \in ToSet(notes), n.kind = "resolved", n.id = i, n.of = proc
      PROVE  Told(i)' \/ (Resolved /\ notes # <<>> /\ Head(notes).id = i /\ Head(notes).of = proc)
  <2>1. CASE n \in ToSet(notes')
    BY <1>3, <2>1 DEF Told
  <2>2. CASE Handled(n)
    BY <1>3, <2>2 DEF Handled, IdleStatus, ClientExited, Handles
  <2> QED BY <2>1, <2>2, NotesKept
<1> QED BY <1>2, <1>3 DEF Told

\* A question that is over is told of before long.
LEMMA OverKept ==
  ASSUME Base, [Next]_vars, ~deaf', up, proc' = proc, proc # 0, NEW a \in Asks, Over(a)
  PROVE  Over(a)' \/ (Resolved /\ notes # <<>> /\ Head(notes).id = a[1] /\ Head(notes).of = proc)
<1>0. a[1] \in Ids
  BY AskFacts
<1>1. ASSUME a[1] \in open, a[1] \notin open' PROVE Told(a[1])'
  <2>1. ~Exits
    BY DEF Exits
  <2>2. Said(Line("resolved", a[1]))
    BY <1>1, <2>1, OpenShrinks
  <2>3. Line("resolved", a[1]) \in ToSet(lines'[inst]) /\ inst' = inst /\ inst # 0
    BY <1>0, <2>2, LineFacts, SaidSet, InstKept, UpGen, AskFacts
  <2> QED BY <2>3 DEF Told
<1> QED BY <1>0, <1>1, ToldKept DEF Over

\* A tombstone stays.
LEMMA TombsGrow ==
  ASSUME [Next]_vars
  PROVE  tombs \subseteq tombs'
<1>1. ASSUME Judge PROVE tombs \subseteq tombs'
  BY <1>1 DEF Judge, Reject
<1>2. ASSUME Resolved PROVE tombs \subseteq tombs'
  BY <1>2 DEF Resolved
<1>3. ASSUME NEW u \in Users, Bury(u) PROVE tombs \subseteq tombs'
  BY <1>3 DEF Bury
<1>4. ASSUME UNCHANGED <<tombs>> PROVE tombs \subseteq tombs'
  BY <1>4
<1>5. ASSUME
       Connect \/ StartTurn \/ AsksUser \/ EndsTurn \/ Exits \/ LosesLink \/ FinalizeLoss
       \/ FinalizeExit \/ Replay \/ Receive \/ Insert \/ RejectEvicted \/ IdleStatus \/
       ClientExited \/ Drop \/ Wipe
      PROVE tombs \subseteq tombs'
  BY <1>5, <1>4 DEF Connect, StartTurn, AsksUser, EndsTurn, Exits, LosesLink, FinalizeLoss,
                    FinalizeExit, Replay, Receive, Insert, RejectEvicted, IdleStatus,
                    ClientExited, Drop, Wipe
<1>6. ASSUME NEW j \in Ids,
       Withdraws(j)
      PROVE tombs \subseteq tombs'
  BY <1>6, <1>4 DEF Withdraws
<1>7. ASSUME NEW g \in Gens,
       Read(g)
      PROVE tombs \subseteq tombs'
  BY <1>7, <1>4 DEF Read
<1>8. ASSUME NEW u \in Users,
       Choose(u) \/ Respond(u) \/ Discard(u) \/ Leaves(u)
      PROVE tombs \subseteq tombs'
  BY <1>8, <1>4 DEF Choose, Respond, Discard, Leaves
<1> QED BY <1>1, <1>2, <1>3, <1>4, <1>5, <1>6, <1>7, <1>8
     DEF Next, vars, ProcessStep, ClientStep, RequestTask, NoteTask, User

\* What was noted of a prompt stays noted.
LEMMA StaleGrows ==
  ASSUME [Next]_vars
  PROVE  stale \subseteq stale'
<1>1. ASSUME Connect PROVE stale \subseteq stale'
  BY <1>1 DEF Connect
<1>2. ASSUME Judge PROVE stale \subseteq stale'
  BY <1>2 DEF Judge, Reject
<1>3. ASSUME Insert PROVE stale \subseteq stale'
  BY <1>3 DEF Insert
<1>4. ASSUME RejectEvicted PROVE stale \subseteq stale'
  BY <1>4 DEF RejectEvicted
<1>5. ASSUME Resolved PROVE stale \subseteq stale'
  BY <1>5 DEF Resolved
<1>6. ASSUME NEW u \in Users, Respond(u) PROVE stale \subseteq stale'
  BY <1>6 DEF Respond
<1>7. ASSUME UNCHANGED <<stale>> PROVE stale \subseteq stale'
  BY <1>7
<1>8. ASSUME
       StartTurn \/ AsksUser \/ EndsTurn \/ Exits \/ LosesLink \/ FinalizeLoss \/
       FinalizeExit \/ Replay \/ Receive \/ IdleStatus \/ ClientExited \/ Drop \/ Wipe
      PROVE stale \subseteq stale'
  BY <1>8, <1>7 DEF StartTurn, AsksUser, EndsTurn, Exits, LosesLink, FinalizeLoss,
                    FinalizeExit, Replay, Receive, IdleStatus, ClientExited, Drop, Wipe
<1>9. ASSUME NEW j \in Ids,
       Withdraws(j)
      PROVE stale \subseteq stale'
  BY <1>9, <1>7 DEF Withdraws
<1>10. ASSUME NEW g \in Gens,
       Read(g)
      PROVE stale \subseteq stale'
  BY <1>10, <1>7 DEF Read
<1>11. ASSUME NEW u \in Users,
       Choose(u) \/ Bury(u) \/ Discard(u)
      PROVE stale \subseteq stale'
  BY <1>11, <1>7 DEF Choose, Bury, Discard
<1>12. ASSUME NEW u \in Users, Leaves(u) PROVE stale \subseteq stale'
  BY <1>12 DEF Leaves
<1> QED BY <1>1, <1>2, <1>3, <1>4, <1>5, <1>6, <1>7, <1>8, <1>9, <1>10, <1>11, <1>12
     DEF Next, vars, ProcessStep, ClientStep, RequestTask, NoteTask, User

\* Who is to bury a question does, or a copy that is left is noted.
LEMMA TombKept ==
  ASSUME Base, [Next]_vars, NEW a, NEW v \in Users, us[v].at = "tomb", us[v].ask = a
  PROVE  Tombing(a)' \/ a \in tombs' \cup stale' \/ a \notin OnItsWay'
<1>1. ASSUME NEW u \in Users, Choose(u) PROVE Tombing(a)' \/ a \in tombs' \cup stale' \/ a \notin OnItsWay'
  <2>1. us[u].at = "idle" /\ \A w \in Users : w # u => us'[w] = us[w]
    BY <1>1 DEF Choose, UsGoes, Base, Types, PlaceTypes
  <2>2. CASE u # v
    BY <2>1, <2>2 DEF Tombing, Removing
  <2>3. CASE u = v
    BY <2>1, <2>3
  <2> QED BY <2>2, <2>3
<1>2. ASSUME NEW u \in Users, Respond(u) PROVE Tombing(a)' \/ a \in tombs' \cup stale' \/ a \notin OnItsWay'
  <2>1. us[u].at = "answer" /\ \A w \in Users : w # u => us'[w] = us[w]
    BY <1>2 DEF Respond, UsGoes, Base, Types, PlaceTypes
  <2>2. CASE u # v
    BY <2>1, <2>2 DEF Tombing, Removing
  <2>3. CASE u = v
    BY <2>1, <2>3
  <2> QED BY <2>2, <2>3
<1>3. ASSUME NEW u \in Users, Bury(u) PROVE Tombing(a)' \/ a \in tombs' \cup stale' \/ a \notin OnItsWay'
  <2>1. us[u].at = "tomb" /\ \A w \in Users : w # u => us'[w] = us[w]
    BY <1>3 DEF Bury, UsGoes, Base, Types, PlaceTypes
  <2>2. CASE u # v
    BY <2>1, <2>2 DEF Tombing, Removing
  <2>3. CASE u = v
    BY <1>3, <2>3 DEF Bury
  <2> QED BY <2>2, <2>3
<1>4. ASSUME NEW u \in Users, Discard(u) PROVE Tombing(a)' \/ a \in tombs' \cup stale' \/ a \notin OnItsWay'
  <2>1. us[u].at = "remove" /\ \A w \in Users : w # u => us'[w] = us[w]
    BY <1>4 DEF Discard, UsGoes, Base, Types, PlaceTypes
  <2>2. CASE u # v
    BY <2>1, <2>2 DEF Tombing, Removing
  <2>3. CASE u = v
    BY <2>1, <2>3
  <2> QED BY <2>2, <2>3
<1>5. ASSUME UNCHANGED <<us>> PROVE Tombing(a)' \/ a \in tombs' \cup stale' \/ a \notin OnItsWay'
  BY <1>5 DEF Tombing, Removing
<1>6. ASSUME
       Connect \/ StartTurn \/ AsksUser \/ EndsTurn \/ Exits \/ LosesLink \/ FinalizeLoss
       \/ FinalizeExit \/ Replay \/ Receive \/ Judge \/ Insert \/ RejectEvicted \/ Resolved
       \/ IdleStatus \/ ClientExited \/ Drop \/ Wipe
      PROVE Tombing(a)' \/ a \in tombs' \cup stale' \/ a \notin OnItsWay'
  BY <1>6, <1>5 DEF Connect, StartTurn, AsksUser, EndsTurn, Exits, LosesLink, FinalizeLoss,
                    FinalizeExit, Replay, Receive, Judge, Insert, RejectEvicted, Resolved,
                    Handles, IdleStatus, ClientExited, Drop, Wipe
<1>7. ASSUME NEW j \in Ids,
       Withdraws(j)
      PROVE Tombing(a)' \/ a \in tombs' \cup stale' \/ a \notin OnItsWay'
  BY <1>7, <1>5 DEF Withdraws
<1>8. ASSUME NEW g \in Gens,
       Read(g)
      PROVE Tombing(a)' \/ a \in tombs' \cup stale' \/ a \notin OnItsWay'
  BY <1>8, <1>5 DEF Read
<1>9. ASSUME NEW u \in Users, Leaves(u) PROVE Tombing(a)' \/ a \in tombs' \cup stale' \/ a \notin OnItsWay'
  <2>1. \A w \in Users : w # u => us'[w] = us[w]
    BY <1>9 DEF Leaves, UsGoes, Base, Types, PlaceTypes
  <2>2. CASE u # v
    BY <2>1, <2>2 DEF Tombing, Removing
  <2>3. CASE u = v
    BY <1>9, <2>3 DEF Leaves, OnItsWay
  <2> QED BY <2>2, <2>3
<1> QED BY <1>1, <1>2, <1>3, <1>4, <1>5, <1>6, <1>7, <1>8, <1>9
     DEF Next, vars, ProcessStep, ClientStep, RequestTask, NoteTask, User

\* Who is to remove a prompt does, or the prompt that is left is noted.
LEMMA RemovalKept ==
  ASSUME Base, [Next]_vars, NEW a \in ToSet(shown), NEW v \in Users,
         us[v].at \in {"tomb", "remove"}, us[v].ask = a
  PROVE  Removing(a)' \/ a \notin ToSet(shown') \/ a \in stale'
<1>1. ASSUME NEW u \in Users, Choose(u) PROVE Removing(a)' \/ a \notin ToSet(shown') \/ a \in stale'
  <2>1. us[u].at = "idle" /\ \A w \in Users : w # u => us'[w] = us[w]
    BY <1>1 DEF Choose, UsGoes, Base, Types, PlaceTypes
  <2>2. CASE u # v
    BY <2>1, <2>2 DEF Tombing, Removing
  <2>3. CASE u = v
    BY <2>1, <2>3
  <2> QED BY <2>2, <2>3
<1>2. ASSUME NEW u \in Users, Respond(u) PROVE Removing(a)' \/ a \notin ToSet(shown') \/ a \in stale'
  <2>1. us[u].at = "answer" /\ \A w \in Users : w # u => us'[w] = us[w]
    BY <1>2 DEF Respond, UsGoes, Base, Types, PlaceTypes
  <2>2. CASE u # v
    BY <2>1, <2>2 DEF Tombing, Removing
  <2>3. CASE u = v
    BY <2>1, <2>3
  <2> QED BY <2>2, <2>3
<1>3. ASSUME NEW u \in Users, Bury(u) PROVE Removing(a)' \/ a \notin ToSet(shown') \/ a \in stale'
  <2>1. us[u].at = "tomb" /\ \A w \in Users : w # u => us'[w] = us[w]
    BY <1>3 DEF Bury, UsGoes, Base, Types, PlaceTypes
  <2>2. CASE u # v
    BY <2>1, <2>2 DEF Tombing, Removing
  <2>3. CASE u = v
    <3>1. us'[v] = [at |-> "remove", ask |-> a]
      BY <1>3, <2>3 DEF Bury, UsGoes, Base, Types, PlaceTypes
    <3> QED BY <3>1 DEF Removing
  <2> QED BY <2>2, <2>3
<1>4. ASSUME NEW u \in Users, Discard(u) PROVE Removing(a)' \/ a \notin ToSet(shown') \/ a \in stale'
  <2>1. us[u].at = "remove" /\ \A w \in Users : w # u => us'[w] = us[w]
    BY <1>4 DEF Discard, UsGoes, Base, Types, PlaceTypes
  <2>2. CASE u # v
    BY <2>1, <2>2 DEF Tombing, Removing
  <2>3. CASE u = v
    <3>1. shown' = Without(shown, a[1])
      BY <1>4, <2>3 DEF Discard
    <3> QED BY <3>1, WithoutSet DEF Base, Types, ShownTypes
  <2> QED BY <2>2, <2>3
<1>5. ASSUME UNCHANGED <<us>> PROVE Removing(a)' \/ a \notin ToSet(shown') \/ a \in stale'
  BY <1>5 DEF Tombing, Removing
<1>6. ASSUME
       Connect \/ StartTurn \/ AsksUser \/ EndsTurn \/ Exits \/ LosesLink \/ FinalizeLoss
       \/ FinalizeExit \/ Replay \/ Receive \/ Judge \/ Insert \/ RejectEvicted \/ Resolved
       \/ IdleStatus \/ ClientExited \/ Drop \/ Wipe
      PROVE Removing(a)' \/ a \notin ToSet(shown') \/ a \in stale'
  BY <1>6, <1>5 DEF Connect, StartTurn, AsksUser, EndsTurn, Exits, LosesLink, FinalizeLoss,
                    FinalizeExit, Replay, Receive, Judge, Insert, RejectEvicted, Resolved,
                    Handles, IdleStatus, ClientExited, Drop, Wipe
<1>7. ASSUME NEW j \in Ids,
       Withdraws(j)
      PROVE Removing(a)' \/ a \notin ToSet(shown') \/ a \in stale'
  BY <1>7, <1>5 DEF Withdraws
<1>8. ASSUME NEW g \in Gens,
       Read(g)
      PROVE Removing(a)' \/ a \notin ToSet(shown') \/ a \in stale'
  BY <1>8, <1>5 DEF Read
<1>9. ASSUME NEW u \in Users, Leaves(u) PROVE Removing(a)' \/ a \notin ToSet(shown') \/ a \in stale'
  <2>1. \A w \in Users : w # u => us'[w] = us[w]
    BY <1>9 DEF Leaves, UsGoes, Base, Types, PlaceTypes
  <2>2. CASE u # v
    BY <2>1, <2>2 DEF Tombing, Removing
  <2>3. CASE u = v
    BY <1>9, <2>3 DEF Leaves
  <2> QED BY <2>2, <2>3
<1> QED BY <1>1, <1>2, <1>3, <1>4, <1>5, <1>6, <1>7, <1>8, <1>9
     DEF Next, vars, ProcessStep, ClientStep, RequestTask, NoteTask, User

\* A question that is to be buried is buried, or a copy that is left is noted.
LEMMA TombingKept ==
  ASSUME Base, [Next]_vars, NEW a, Tombing(a)
  PROVE  Tombing(a)' \/ a \in tombs' \cup stale' \/ a \notin OnItsWay'
<1>1. PICK v \in Users : us[v].at = "tomb" /\ us[v].ask = a
  BY DEF Tombing
<1> QED BY <1>1, TombKept

\* A prompt that is to be removed is removed, or noted.
LEMMA RemovingKept ==
  ASSUME Base, [Next]_vars, NEW a \in ToSet(shown), Removing(a)
  PROVE  Removing(a)' \/ a \notin ToSet(shown') \/ a \in stale'
<1>1. PICK v \in Users : us[v].at \in {"tomb", "remove"} /\ us[v].ask = a
  BY DEF Removing
<1> QED BY <1>1, RemovalKept

\* A question that is the running process's came over the connection there is.
LEMMA Here ==
  ASSUME Base, DeafInv, MadeInv, [Next]_vars, ~deaf', NEW a \in Heard, Mine(a[2])'
  PROVE  /\ ~deaf /\ a \in Asks /\ a[2] <= gens /\ Mine(a[2]) /\ origin[a[2]] = proc /\ proc' = proc /\ proc # 0
         /\ up /\ a[2] = inst /\ inst # 0 /\ inst \in Gens
<1>1. ~deaf /\ a \in Asks
  BY DeafStays, HeardAsks
<1>2. a[2] \in Gens /\ a[2] <= gens /\ Mine(a[2]) /\ proc' = proc /\ proc # 0
  BY HeardMine
<1>3. a[2] = inst /\ up
  BY <1>1, <1>2, OneConnection
<1> QED BY <1>1, <1>2, <1>3, AskFacts DEF Mine

\* What the request task may yet show it had, or was given.
LEMMA HandFrom ==
  ASSUME Base, [Next]_vars
  PROVE  rt'.at # "reject" /\ rt'.ask # NoAsk => rt'.ask \in Coming
<1>1. ASSUME Receive PROVE rt'.at # "reject" /\ rt'.ask # NoAsk => rt'.ask \in Coming
  <2>1. ASSUME NEW b \in batch, Take(b), rt'.at # "reject", rt'.ask # NoAsk PROVE rt'.ask \in Coming
    BY <2>1 DEF Take, RtGoes, Coming, InHand
  <2>2. ASSUME relay # <<>>, Take(Head(relay)), rt'.at # "reject", rt'.ask # NoAsk PROVE rt'.ask \in Coming
    <3>1. Head(relay) \in ToSet(relay)
      BY <2>2, TailSet DEF Base, Types, RelayTypes
    <3> QED BY <2>2, <3>1 DEF Take, RtGoes, Coming, InHand
  <2> QED BY <1>1, <2>1, <2>2 DEF Receive
<1>2. ASSUME Judge PROVE rt'.at # "reject" /\ rt'.ask # NoAsk => rt'.ask \in Coming
  <2>1. rt.at = "judge" /\ rt'.ask \in {rt.ask, NoAsk}
    BY <1>2 DEF Judge, RtGoes
  <2> QED BY <2>1 DEF Coming, InHand
<1>3. ASSUME Insert PROVE rt'.at # "reject" /\ rt'.ask # NoAsk => rt'.ask \in Coming
  BY <1>3 DEF Insert, RtGoes
<1>4. ASSUME RejectEvicted PROVE rt'.at # "reject" /\ rt'.ask # NoAsk => rt'.ask \in Coming
  BY <1>4 DEF RejectEvicted, RtGoes
<1>5. ASSUME UNCHANGED <<rt>> PROVE rt'.at # "reject" /\ rt'.ask # NoAsk => rt'.ask \in Coming
  BY <1>5 DEF Coming, InHand
<1>6. ASSUME
       Connect \/ StartTurn \/ AsksUser \/ EndsTurn \/ Exits \/ LosesLink \/ FinalizeLoss
       \/ FinalizeExit \/ Replay \/ Resolved \/ IdleStatus \/ ClientExited \/ Drop \/ Wipe
      PROVE rt'.at # "reject" /\ rt'.ask # NoAsk => rt'.ask \in Coming
  BY <1>6, <1>5 DEF Connect, StartTurn, AsksUser, EndsTurn, Exits, LosesLink, FinalizeLoss,
                    FinalizeExit, Replay, Resolved, Handles, IdleStatus, ClientExited, Drop,
                    Wipe
<1>7. ASSUME NEW j \in Ids,
       Withdraws(j)
      PROVE rt'.at # "reject" /\ rt'.ask # NoAsk => rt'.ask \in Coming
  BY <1>7, <1>5 DEF Withdraws
<1>8. ASSUME NEW g \in Gens,
       Read(g)
      PROVE rt'.at # "reject" /\ rt'.ask # NoAsk => rt'.ask \in Coming
  BY <1>8, <1>5 DEF Read
<1>9. ASSUME NEW u \in Users,
       Choose(u) \/ Respond(u) \/ Bury(u) \/ Discard(u) \/ Leaves(u)
      PROVE rt'.at # "reject" /\ rt'.ask # NoAsk => rt'.ask \in Coming
  BY <1>9, <1>5 DEF Choose, Respond, Bury, Discard, Leaves
<1> QED BY <1>1, <1>2, <1>3, <1>4, <1>5, <1>6, <1>7, <1>8, <1>9
     DEF Next, vars, ProcessStep, ClientStep, RequestTask, NoteTask, User

\* What is taken or recorded was heard of.
LEMMA TakenFrom ==
  ASSUME Base, [Next]_vars, NEW a \in (Coming \cup Known)'
  PROVE  a \in Coming \cup Known \cup AskLines /\ a \in Heard
<1>1. a \in (ToSet(relay) \cup batch \cup Known)' \/ (rt'.at # "reject" /\ rt'.ask # NoAsk /\ a = rt'.ask)
  BY DEF Coming, InHand
<1>2. a \in Coming \cup Known \cup AskLines
  BY <1>1, RelayFrom, BatchFrom, KnownFrom, HandFrom DEF Coming
<1> QED BY <1>2 DEF Coming, Heard

\* A resolution that reaches the notification task leaves its tombstone, or the
\* question was noted when it found none to leave.
LEMMA ResolvedTakes ==
  ASSUME Base, DeafInv, MadeInv, NotedInv, ~deaf, Resolved, Head(notes).of = proc,
         NEW a \in (Coming \cup Known) \ (stale \cup tombs), a \in Asks, Mine(a[2]), a[2] = inst, Head(notes).id = a[1]
  PROVE  a \in stale' \cup tombs' \/ Tombing(a)
<1>1. /\ tombs' = tombs \cup Source(a[1])
      /\ stale' = IF assigned /\ \A b \in Source(a[1]) : origin[b[2]] = proc
                  THEN stale ELSE stale \cup {b \in OnItsWay : b[1] = a[1]}
  BY DEF Resolved
<1>2. a \in OnItsWay
  BY DEF OnItsWay, Coming, Known, InHand
<1>3. a[1] \in Ids /\ a = <<a[1], a[2]>>
  BY AskFacts
<1>4. ASSUME assigned, \A b \in Source(a[1]) : origin[b[2]] = proc, known[a[1]] # 0 PROVE a \in tombs'
  <2> DEFINE b == <<a[1], known[a[1]]>>
  <2>1. b \in Source(a[1]) /\ b \in Known
    BY <1>3, <1>4 DEF Source, Known
  <2>2. b \in Asks /\ b[2] = known[a[1]] /\ b[2] \in Gens
    BY <2>1, HeardAsks, AskFacts DEF Heard
  <2>3. b[2] <= gens /\ origin[b[2]] = proc
    BY <1>4, <2>1 DEF Heard, MadeInv, Made
  <2>4. b[2] = inst
    BY <2>2, <2>3, OneConnection DEF Mine
  <2> QED BY <1>1, <1>3, <2>1, <2>2, <2>4
<1>5. a \in Known => known[a[1]] # 0
  BY AskFacts DEF Known
<1>6. a \in Coming => known[a[1]] # 0 \/ Tombing(a)
  BY DEF NotedInv
<1> QED BY <1>1, <1>2, <1>4, <1>5, <1>6

\* TakenInv is inductive.
LEMMA TakenStep ==
  ASSUME Base, DeafInv, MadeInv, ReadInv, StaleInv, [Next]_vars, ~deaf'
  PROVE  TakenInv'
<1> SUFFICES ASSUME NEW a \in (Coming \cup Known)', a \notin stale' \cup tombs', Mine(a[2])'
             PROVE  Over(a)' \/ Tombing(a)'
  BY DEF TakenInv
<1>1. a \in Coming \cup Known \cup AskLines /\ a \in Heard /\ a \notin stale \cup tombs
  BY TakenFrom, StaleGrows, TombsGrow
<1>2. /\ ~deaf /\ a \in Asks /\ Mine(a[2]) /\ proc' = proc /\ proc # 0
      /\ up /\ a[2] = inst /\ inst # 0 /\ inst \in Gens
  BY <1>1, Here
<1>3. Over(a) \/ Tombing(a)
  <2>1. CASE a \in Coming \cup Known
    BY <1>1, <1>2, <2>1 DEF StaleInv, TakenInv
  <2>2. CASE a \in AskLines
    <3>1. Line("ask", a[1]) \in ToSet(lines[inst]) /\ a[1] \in Ids
      BY <1>2, <2>2, AskFacts DEF AskLines
    <3>2. a[1] \in open \/ Line("resolved", a[1]) \in ToSet(lines[inst])
      BY <1>2, <3>1 DEF ReadInv
    <3> QED BY <1>2, <3>2 DEF Over, Told
  <2> QED BY <1>1, <2>1, <2>2
<1>4. CASE Tombing(a)
  BY <1>4, TombingKept DEF OnItsWay, Coming, Known, InHand
<1>5. ASSUME Resolved, Head(notes).id = a[1], Head(notes).of = proc PROVE Tombing(a)'
  <2>1. UNCHANGED <<relay, batch, rt, known, us>>
    BY <1>5 DEF Resolved, Handles
  <2>2. a \in Coming \cup Known
    BY <2>1 DEF Coming, InHand, Known
  <2>3. Tombing(a)
    BY <1>1, <1>2, <1>5, <2>2, ResolvedTakes DEF StaleInv
  <2> QED BY <2>1, <2>3 DEF Tombing
<1> QED BY <1>2, <1>3, <1>4, <1>5, OverKept

\* What is new on its way is in the client's record.
LEMMA RelayNoted ==
  ASSUME Base, [Next]_vars, NEW a \in ToSet(relay')
  PROVE  a \in ToSet(relay) \/ known'[a[1]] # 0
<1>1. ASSUME NEW g \in Gens, Read(g) PROVE a \in ToSet(relay) \/ known'[a[1]] # 0
  <2> DEFINE l == Head(lines[g])
  <2>1. l \in ToSet(lines[g])
    BY <1>1, TailSet DEF Read, Base, Types, LineTypes
  <2>2. CASE l.kind # "ask"
    BY <1>1, <2>2 DEF Read
  <2>3. ASSUME l.kind = "ask" PROVE a \in ToSet(relay) \/ known'[a[1]] # 0
    <3> DEFINE r == IF Len(relay) = RelayCap THEN Tail(relay) ELSE relay
    <3>1. l.id \in Ids
      BY <2>1, <2>3 DEF Base, LineFits
    <3>2. relay \in Seq(Asks) /\ (Len(relay) = RelayCap => relay # <<>>)
      BY BoundsAssumption DEF Base, Types, RelayTypes
    <3>3. r \in Seq(Asks) /\ ToSet(r) \subseteq ToSet(relay)
      BY <3>2, TailSet
    <3>4. relay' = Append(r, <<l.id, g>>) /\ known' = [known EXCEPT ![l.id] = g]
      BY <1>1, <2>3 DEF Read
    <3> HIDE DEF r, l
    <3>5. <<l.id, g>> \in Asks
      BY <3>1, AskFacts
    <3>6. ToSet(relay') = ToSet(r) \cup {<<l.id, g>>}
      BY <3>3, <3>4, <3>5, AppendSet
    <3>7. a = <<l.id, g>> => known'[a[1]] # 0
      BY <3>1, <3>4, AskFacts DEF Base, Types, RelayTypes
    <3> QED BY <3>3, <3>6, <3>7
  <2> QED BY <2>2, <2>3
<1>2. ASSUME Receive PROVE a \in ToSet(relay) \/ known'[a[1]] # 0
  <2>1. CASE UNCHANGED relay
    BY <2>1
  <2>2. CASE relay # <<>> /\ relay' = Tail(relay)
    BY <2>2, TailSet DEF Base, Types, RelayTypes
  <2> QED BY <1>2, <2>1, <2>2 DEF Receive
<1>3. ASSUME UNCHANGED <<relay>> PROVE a \in ToSet(relay) \/ known'[a[1]] # 0
  BY <1>3
<1>4. ASSUME
       Connect \/ StartTurn \/ AsksUser \/ EndsTurn \/ Exits \/ LosesLink \/ FinalizeLoss
       \/ FinalizeExit \/ Replay \/ Judge \/ Insert \/ RejectEvicted \/ Resolved \/
       IdleStatus \/ ClientExited \/ Drop \/ Wipe
      PROVE a \in ToSet(relay) \/ known'[a[1]] # 0
  BY <1>4, <1>3 DEF Connect, StartTurn, AsksUser, EndsTurn, Exits, LosesLink, FinalizeLoss,
                    FinalizeExit, Replay, Judge, Insert, RejectEvicted, Resolved, Handles,
                    IdleStatus, ClientExited, Drop, Wipe
<1>5. ASSUME NEW j \in Ids,
       Withdraws(j)
      PROVE a \in ToSet(relay) \/ known'[a[1]] # 0
  BY <1>5, <1>3 DEF Withdraws
<1>6. ASSUME NEW u \in Users,
       Choose(u) \/ Respond(u) \/ Bury(u) \/ Discard(u) \/ Leaves(u)
      PROVE a \in ToSet(relay) \/ known'[a[1]] # 0
  BY <1>6, <1>3 DEF Choose, Respond, Bury, Discard, Leaves
<1> QED BY <1>1, <1>2, <1>3, <1>4, <1>5, <1>6
     DEF Next, vars, ProcessStep, ClientStep, RequestTask, NoteTask, User

\* What is new in a replay is in the client's record.
LEMMA BatchNoted ==
  ASSUME Base, [Next]_vars, NEW a \in batch'
  PROVE  a \in batch \/ known'[a[1]] # 0
<1>1. ASSUME Replay PROVE a \in batch \/ known'[a[1]] # 0
  <2>1. batch' = Known /\ UNCHANGED known
    BY <1>1 DEF Replay, Known
  <2> QED BY <2>1, AskFacts DEF Known
<1>2. ASSUME Receive PROVE a \in batch \/ known'[a[1]] # 0
  BY <1>2 DEF Receive
<1>3. ASSUME UNCHANGED <<batch>> PROVE a \in batch \/ known'[a[1]] # 0
  BY <1>3
<1>4. ASSUME
       Connect \/ StartTurn \/ AsksUser \/ EndsTurn \/ Exits \/ LosesLink \/ FinalizeLoss
       \/ FinalizeExit \/ Judge \/ Insert \/ RejectEvicted \/ Resolved \/ IdleStatus \/
       ClientExited \/ Drop \/ Wipe
      PROVE a \in batch \/ known'[a[1]] # 0
  BY <1>4, <1>3 DEF Connect, StartTurn, AsksUser, EndsTurn, Exits, LosesLink, FinalizeLoss,
                    FinalizeExit, Judge, Insert, RejectEvicted, Resolved, Handles,
                    IdleStatus, ClientExited, Drop, Wipe
<1>5. ASSUME NEW j \in Ids,
       Withdraws(j)
      PROVE a \in batch \/ known'[a[1]] # 0
  BY <1>5, <1>3 DEF Withdraws
<1>6. ASSUME NEW g \in Gens,
       Read(g)
      PROVE a \in batch \/ known'[a[1]] # 0
  BY <1>6, <1>3 DEF Read
<1>7. ASSUME NEW u \in Users,
       Choose(u) \/ Respond(u) \/ Bury(u) \/ Discard(u) \/ Leaves(u)
      PROVE a \in batch \/ known'[a[1]] # 0
  BY <1>7, <1>3 DEF Choose, Respond, Bury, Discard, Leaves
<1> QED BY <1>1, <1>2, <1>3, <1>4, <1>5, <1>6, <1>7
     DEF Next, vars, ProcessStep, ClientStep, RequestTask, NoteTask, User

\* What is newly taken is in the client's record.
LEMMA ComingNoted ==
  ASSUME Base, [Next]_vars, NEW a \in Coming'
  PROVE  a \in Coming \/ known'[a[1]] # 0
<1>1. a \in (ToSet(relay) \cup batch)' \/ (rt'.at # "reject" /\ rt'.ask # NoAsk /\ a = rt'.ask)
  BY DEF Coming, InHand
<1> QED BY <1>1, RelayNoted, BatchNoted, HandFrom DEF Coming

\* An answer takes a record of the running process's with its own question's, or astray.
LEMMA TakesRecord ==
  ASSUME Base, DeafInv, MadeInv, ~deaf, NEW b \in Asks, CanWrite(b), Answer(b),
         NEW a \in Asks, a \in OnItsWay, a[2] = inst, known[a[1]] # 0, known'[a[1]] = 0
  PROVE  a = b \/ a \in Astray(b)
<1>0. a[1] \in Ids /\ a = <<a[1], a[2]>> /\ b[1] \in Ids /\ b = <<b[1], b[2]>>
  BY AskFacts
<1>1. b[1] = a[1] /\ known[a[1]] = b[2]
  BY <1>0 DEF Answer, Base, Types, RelayTypes
<1>2. CASE origin[b[2]] # proc
  BY <1>1, <1>2 DEF Astray
<1>3. CASE origin[b[2]] = proc
  <2>1. b \in Known
    BY <1>0, <1>1 DEF Known
  <2>2. b[2] \in Gens /\ b[2] <= gens
    BY <2>1, AskFacts DEF MadeInv, Made, Heard
  <2>3. b[2] = inst
    BY <1>3, <2>2, OneConnection DEF Mine
  <2> QED BY <1>0, <1>1, <2>3
<1> QED BY <1>2, <1>3

\* Who takes the record of a question that is on its way leaves a tombstone, or it is
\* noted.
LEMMA RecordLost ==
  ASSUME Base, DeafInv, MadeInv, ~deaf, up, [Next]_vars, NEW a \in Asks, a \in Coming', a[2] = inst,
         proc # 0, origin[inst] = proc, known[a[1]] # 0
  PROVE  known'[a[1]] # 0 \/ a \in stale' \cup tombs' \/ Tombing(a)'
<1>1. ASSUME FinalizeExit PROVE known'[a[1]] # 0 \/ a \in stale' \cup tombs' \/ Tombing(a)'
  BY <1>1 DEF FinalizeExit, Ending
<1>2. ASSUME NEW g \in Gens, Read(g) PROVE known'[a[1]] # 0 \/ a \in stale' \cup tombs' \/ Tombing(a)'
  <2>1. CASE Head(lines[g]).kind # "ask"
    BY <1>2, <2>1 DEF Read
  <2>2. CASE Head(lines[g]).kind = "ask"
    <3>1. known' = [known EXCEPT ![Head(lines[g]).id] = g]
      BY <1>2, <2>2 DEF Read
    <3> QED BY <3>1, AskFacts DEF Base, Types, RelayTypes
  <2> QED BY <2>1, <2>2
<1>3. ASSUME Judge PROVE known'[a[1]] # 0 \/ a \in stale' \cup tombs' \/ Tombing(a)'
  <2>1. rt.ask \in Asks /\ UNCHANGED <<relay, batch>>
    BY <1>3, InHandAsks DEF Judge, Base
  <2>2. ASSUME rt' = [at |-> "recv", ask |-> NoAsk] PROVE a \in OnItsWay /\ a \in ToSet(relay) \cup batch
    BY <2>1, <2>2 DEF Coming, InHand, OnItsWay
  <2>3. ASSUME Reject(rt.ask), rt' = [at |-> "recv", ask |-> NoAsk], stale' = stale \cup Again(rt.ask) \cup Astray(rt.ask)
        PROVE  known'[a[1]] # 0 \/ a \in stale'
    <3>1. UNCHANGED known \/ (CanWrite(rt.ask) /\ Answer(rt.ask))
      BY <2>3 DEF Reject, Unsent
    <3>2. a = rt.ask => a \in Again(rt.ask)
      BY <2>2, <2>3 DEF Again
    <3> QED BY <2>1, <2>2, <2>3, <3>1, <3>2, TakesRecord
  <2>4. ASSUME CanWrite(rt.ask), Answer(rt.ask), rt' = [at |-> "recv", ask |-> NoAsk],
               tombs' = tombs \cup {rt.ask}, stale' = stale \cup Astray(rt.ask)
        PROVE  known'[a[1]] # 0 \/ a \in stale' \cup tombs'
    BY <2>1, <2>2, <2>4, TakesRecord
  <2> QED BY <1>3, <2>3, <2>4 DEF Judge, Unsent, RtGoes
<1>4. ASSUME RejectEvicted PROVE known'[a[1]] # 0 \/ a \in stale' \cup tombs' \/ Tombing(a)'
  <2>1. rt.ask \in Asks /\ UNCHANGED <<relay, batch>>
    BY <1>4, InHandAsks DEF RejectEvicted, Base
  <2>2. ASSUME rt' = [at |-> "recv", ask |-> NoAsk] PROVE a \in OnItsWay /\ a \in ToSet(relay) \cup batch
    BY <2>1, <2>2 DEF Coming, InHand, OnItsWay
  <2>3. Reject(rt.ask) /\ rt' = [at |-> "recv", ask |-> NoAsk]
        /\ stale' = stale \cup Again(rt.ask) \cup Astray(rt.ask)
    BY <1>4 DEF RejectEvicted, RtGoes
  <2>4. UNCHANGED known \/ (CanWrite(rt.ask) /\ Answer(rt.ask))
    BY <2>3 DEF Reject, Unsent
  <2>5. a = rt.ask => a \in Again(rt.ask)
    BY <2>2, <2>3 DEF Again
  <2> QED BY <2>1, <2>2, <2>3, <2>4, <2>5, TakesRecord
<1>5. ASSUME NEW u \in Users, Respond(u) PROVE known'[a[1]] # 0 \/ a \in stale' \cup tombs' \/ Tombing(a)'
  <2> DEFINE b == us[u].ask
  <2>1. b \in Asks /\ UNCHANGED <<relay, batch, rt>> /\ stale' = stale \cup Astray(b)
    BY <1>5, InHandAsks DEF Respond, Base
  <2>2. a \in OnItsWay
    BY <2>1 DEF Coming, InHand, OnItsWay
  <2>3. CASE UNCHANGED known
    BY <2>3
  <2>4. ASSUME CanWrite(b), Answer(b), us' = [us EXCEPT ![u] = [at |-> "tomb", ask |-> b]]
        PROVE  known'[a[1]] # 0 \/ a \in stale' \/ Tombing(a)'
    <3>1. us'[u].at = "tomb" /\ us'[u].ask = b
      BY <2>4 DEF Base, Types, PlaceTypes
    <3>2. a = b => Tombing(a)'
      BY <3>1 DEF Tombing
    <3> HIDE DEF b
    <3> QED BY <2>1, <2>2, <2>4, <3>2, TakesRecord
  <2> QED BY <1>5, <2>3, <2>4 DEF Respond, Unsent, UsGoes
<1>6. ASSUME UNCHANGED <<known>> PROVE known'[a[1]] # 0 \/ a \in stale' \cup tombs' \/ Tombing(a)'
  BY <1>6
<1>7. ASSUME
       Connect \/ StartTurn \/ AsksUser \/ EndsTurn \/ Exits \/ LosesLink \/ FinalizeLoss
       \/ Replay \/ Receive \/ Insert \/ Resolved \/ IdleStatus \/ ClientExited \/ Drop \/
       Wipe
      PROVE known'[a[1]] # 0 \/ a \in stale' \cup tombs' \/ Tombing(a)'
  BY <1>7, <1>6 DEF Connect, StartTurn, AsksUser, EndsTurn, Exits, LosesLink, FinalizeLoss,
                    Replay, Receive, Insert, Resolved, Handles, IdleStatus, ClientExited,
                    Drop, Wipe
<1>8. ASSUME NEW j \in Ids,
       Withdraws(j)
      PROVE known'[a[1]] # 0 \/ a \in stale' \cup tombs' \/ Tombing(a)'
  BY <1>8, <1>6 DEF Withdraws
<1>9. ASSUME NEW u \in Users,
       Choose(u) \/ Bury(u) \/ Discard(u) \/ Leaves(u)
      PROVE known'[a[1]] # 0 \/ a \in stale' \cup tombs' \/ Tombing(a)'
  BY <1>9, <1>6 DEF Choose, Bury, Discard, Leaves
<1> QED BY <1>1, <1>2, <1>3, <1>4, <1>5, <1>6, <1>7, <1>8, <1>9
     DEF Next, vars, ProcessStep, ClientStep, RequestTask, NoteTask, User

\* NotedInv is inductive.
LEMMA NotedStep ==
  ASSUME Base, DeafInv, MadeInv, StaleInv, [Next]_vars, ~deaf'
  PROVE  NotedInv'
<1> SUFFICES ASSUME NEW a \in Coming', a \notin stale' \cup tombs', Mine(a[2])', known'[a[1]] = 0
             PROVE  Tombing(a)'
  BY DEF NotedInv
<1>1. a \in Coming /\ a \in Heard /\ a \notin stale \cup tombs
  BY ComingNoted, StaleGrows, TombsGrow DEF Coming, Heard
<1>2. /\ ~deaf /\ a \in Asks /\ Mine(a[2]) /\ origin[a[2]] = proc /\ proc # 0 /\ up /\ a[2] = inst
  BY <1>1, Here
<1>3. known[a[1]] # 0 \/ Tombing(a)
  BY <1>1, <1>2 DEF StaleInv, NotedInv
<1>4. Tombing(a) => Tombing(a)'
  BY TombingKept DEF OnItsWay, Coming, InHand
<1> QED BY <1>2, <1>3, <1>4, RecordLost

\* The request task shows a question.
Shows(a) == Insert /\ rt.at = "insert" /\ a = rt.ask /\ (a \in tombs \/ origin[a[2]] # proc => a \in stale')

\* A new prompt is one the request task shows.
LEMMA ShownNew ==
  ASSUME Base, [Next]_vars, NEW a \in ToSet(shown')
  PROVE  a \in ToSet(shown) \/ Shows(a)
<1>1. ASSUME Insert PROVE a \in ToSet(shown) \/ Shows(a)
  <2> DEFINE c == rt.ask  grown == Append(shown, c)
  <2>1. c \in Asks /\ rt.at = "insert"
    BY <1>1, InHandAsks DEF Insert, Base
  <2>2. CASE Prompt(c[1]) # {}
    BY <1>1, <2>2 DEF Insert
  <2>3. ASSUME Prompt(c[1]) = {} PROVE a \in ToSet(shown) \/ Shows(a)
    <3>1. grown \in Seq(Asks) /\ grown # <<>> /\ ToSet(grown) = ToSet(shown) \cup {c}
      BY <2>1, AppendSet DEF Base, Types, ShownTypes
    <3> HIDE DEF grown
    <3>2. shown' = grown \/ shown' = Tail(grown)
      BY <1>1, <2>3 DEF Insert, grown
    <3>3. a \in ToSet(shown) \/ a = c
      <4>1. ToSet(grown) = {Head(grown)} \cup ToSet(Tail(grown))
        BY <3>1, TailSet
      <4>2. ToSet(shown') \subseteq ToSet(grown)
        BY <3>2, <4>1
      <4>3. a \in ToSet(grown)
        BY <4>2
      <4> QED BY <3>1, <4>3
    <3>4. stale' = IF Entombed(c) \/ origin[c[2]] # proc THEN stale \cup {c} ELSE stale
      BY <1>1, <2>3 DEF Insert
    <3> QED BY <1>1, <2>1, <3>3, <3>4 DEF Shows, Entombed
  <2> QED BY <2>2, <2>3
<1>2. ASSUME Drop PROVE a \in ToSet(shown) \/ Shows(a)
  BY <1>2, WithoutSet DEF Drop, Base, Types, ShownTypes
<1>3. ASSUME Wipe PROVE a \in ToSet(shown) \/ Shows(a)
  BY <1>3, EmptySet DEF Wipe
<1>4. ASSUME NEW u \in Users, Discard(u) PROVE a \in ToSet(shown) \/ Shows(a)
  BY <1>4, WithoutSet DEF Discard, Base, Types, ShownTypes
<1>5. ASSUME UNCHANGED <<shown>> PROVE a \in ToSet(shown) \/ Shows(a)
  BY <1>5
<1>6. ASSUME
       Connect \/ StartTurn \/ AsksUser \/ EndsTurn \/ Exits \/ LosesLink \/ FinalizeLoss
       \/ FinalizeExit \/ Replay \/ Receive \/ Judge \/ RejectEvicted \/ Resolved \/
       IdleStatus \/ ClientExited
      PROVE a \in ToSet(shown) \/ Shows(a)
  BY <1>6, <1>5 DEF Connect, StartTurn, AsksUser, EndsTurn, Exits, LosesLink, FinalizeLoss,
                    FinalizeExit, Replay, Receive, Judge, RejectEvicted, Resolved, Handles,
                    IdleStatus, ClientExited
<1>7. ASSUME NEW j \in Ids,
       Withdraws(j)
      PROVE a \in ToSet(shown) \/ Shows(a)
  BY <1>7, <1>5 DEF Withdraws
<1>8. ASSUME NEW g \in Gens,
       Read(g)
      PROVE a \in ToSet(shown) \/ Shows(a)
  BY <1>8, <1>5 DEF Read
<1>9. ASSUME NEW u \in Users,
       Choose(u) \/ Respond(u) \/ Bury(u) \/ Leaves(u)
      PROVE a \in ToSet(shown) \/ Shows(a)
  BY <1>9, <1>5 DEF Choose, Respond, Bury, Leaves
<1> QED BY <1>1, <1>2, <1>3, <1>4, <1>5, <1>6, <1>7, <1>8, <1>9
     DEF Next, vars, ProcessStep, ClientStep, RequestTask, NoteTask, User

\* A connection that is lost waits for its supervisor.
LEMMA DownKept ==
  ASSUME inst # 0, ~up, [Next]_vars
  PROVE  (inst' # 0 /\ ~up') \/ Connect \/ FinalizeLoss \/ FinalizeExit
<1>1. ASSUME Connect PROVE (inst' # 0 /\ ~up') \/ Connect \/ FinalizeLoss \/ FinalizeExit
  BY <1>1
<1>2. ASSUME Exits PROVE (inst' # 0 /\ ~up') \/ Connect \/ FinalizeLoss \/ FinalizeExit
  BY <1>2 DEF Exits
<1>3. ASSUME LosesLink PROVE (inst' # 0 /\ ~up') \/ Connect \/ FinalizeLoss \/ FinalizeExit
  BY <1>3 DEF LosesLink
<1>4. ASSUME FinalizeLoss PROVE (inst' # 0 /\ ~up') \/ Connect \/ FinalizeLoss \/ FinalizeExit
  BY <1>4
<1>5. ASSUME FinalizeExit PROVE (inst' # 0 /\ ~up') \/ Connect \/ FinalizeLoss \/ FinalizeExit
  BY <1>5
<1>6. ASSUME UNCHANGED <<inst, up>> PROVE (inst' # 0 /\ ~up') \/ Connect \/ FinalizeLoss \/ FinalizeExit
  BY <1>6
<1>7. ASSUME
       StartTurn \/ AsksUser \/ EndsTurn \/ Replay \/ Receive \/ Judge \/ Insert \/
       RejectEvicted \/ Resolved \/ IdleStatus \/ ClientExited \/ Drop \/ Wipe
      PROVE (inst' # 0 /\ ~up') \/ Connect \/ FinalizeLoss \/ FinalizeExit
  BY <1>7, <1>6 DEF StartTurn, linkVars, AsksUser, EndsTurn, Replay, Receive, Judge, Insert,
                    RejectEvicted, Resolved, Handles, IdleStatus, ClientExited, Drop, Wipe
<1>8. ASSUME NEW j \in Ids,
       Withdraws(j)
      PROVE (inst' # 0 /\ ~up') \/ Connect \/ FinalizeLoss \/ FinalizeExit
  BY <1>8, <1>6 DEF Withdraws, linkVars
<1>9. ASSUME NEW g \in Gens,
       Read(g)
      PROVE (inst' # 0 /\ ~up') \/ Connect \/ FinalizeLoss \/ FinalizeExit
  BY <1>9, <1>6 DEF Read, linkVars
<1>10. ASSUME NEW u \in Users,
       Choose(u) \/ Respond(u) \/ Bury(u) \/ Discard(u) \/ Leaves(u)
      PROVE (inst' # 0 /\ ~up') \/ Connect \/ FinalizeLoss \/ FinalizeExit
  BY <1>10, <1>6 DEF Choose, linkVars, Respond, Bury, Discard, Leaves
<1> QED BY <1>1, <1>2, <1>3, <1>4, <1>5, <1>6, <1>7, <1>8, <1>9, <1>10
     DEF Next, vars, ProcessStep, ClientStep, RequestTask, NoteTask, User

\* The notification task ends what it began.
LEMMA NtKept ==
  ASSUME nt.at # "recv", [Next]_vars
  PROVE  nt' = nt \/ (nt.at = "drop" /\ Drop) \/ (nt.at = "wipe" /\ Wipe)
<1>1. ASSUME Resolved PROVE nt' = nt \/ (nt.at = "drop" /\ Drop) \/ (nt.at = "wipe" /\ Wipe)
  BY <1>1 DEF Resolved, Handles
<1>2. ASSUME IdleStatus PROVE nt' = nt \/ (nt.at = "drop" /\ Drop) \/ (nt.at = "wipe" /\ Wipe)
  BY <1>2 DEF IdleStatus, Handles
<1>3. ASSUME ClientExited PROVE nt' = nt \/ (nt.at = "drop" /\ Drop) \/ (nt.at = "wipe" /\ Wipe)
  BY <1>3 DEF ClientExited, Handles
<1>4. ASSUME Drop PROVE nt' = nt \/ (nt.at = "drop" /\ Drop) \/ (nt.at = "wipe" /\ Wipe)
  BY <1>4 DEF Drop
<1>5. ASSUME Wipe PROVE nt' = nt \/ (nt.at = "drop" /\ Drop) \/ (nt.at = "wipe" /\ Wipe)
  BY <1>5 DEF Wipe
<1>6. ASSUME UNCHANGED <<nt>> PROVE nt' = nt \/ (nt.at = "drop" /\ Drop) \/ (nt.at = "wipe" /\ Wipe)
  BY <1>6
<1>7. ASSUME
       Connect \/ StartTurn \/ AsksUser \/ EndsTurn \/ Exits \/ LosesLink \/ FinalizeLoss
       \/ FinalizeExit \/ Replay \/ Receive \/ Judge \/ Insert \/ RejectEvicted
      PROVE nt' = nt \/ (nt.at = "drop" /\ Drop) \/ (nt.at = "wipe" /\ Wipe)
  BY <1>7, <1>6 DEF Connect, StartTurn, AsksUser, EndsTurn, Exits, LosesLink, FinalizeLoss,
                    FinalizeExit, Replay, Receive, Judge, Insert, RejectEvicted
<1>8. ASSUME NEW j \in Ids,
       Withdraws(j)
      PROVE nt' = nt \/ (nt.at = "drop" /\ Drop) \/ (nt.at = "wipe" /\ Wipe)
  BY <1>8, <1>6 DEF Withdraws
<1>9. ASSUME NEW g \in Gens,
       Read(g)
      PROVE nt' = nt \/ (nt.at = "drop" /\ Drop) \/ (nt.at = "wipe" /\ Wipe)
  BY <1>9, <1>6 DEF Read
<1>10. ASSUME NEW u \in Users,
       Choose(u) \/ Respond(u) \/ Bury(u) \/ Discard(u) \/ Leaves(u)
      PROVE nt' = nt \/ (nt.at = "drop" /\ Drop) \/ (nt.at = "wipe" /\ Wipe)
  BY <1>10, <1>6 DEF Choose, Respond, Bury, Discard, Leaves
<1> QED BY <1>1, <1>2, <1>3, <1>4, <1>5, <1>6, <1>7, <1>8, <1>9, <1>10
     DEF Next, vars, ProcessStep, ClientStep, RequestTask, NoteTask, User

\* A process that runs ends by its exit.
LEMMA ProcEnds ==
  ASSUME [Next]_vars
  PROVE  proc' = proc \/ proc = 0 \/ Exits
<1>1. ASSUME Connect PROVE proc' = proc \/ proc = 0 \/ Exits
  BY <1>1 DEF Connect, procVars
<1>2. ASSUME Exits PROVE proc' = proc \/ proc = 0 \/ Exits
  BY <1>2
<1>3. ASSUME UNCHANGED <<proc>> PROVE proc' = proc \/ proc = 0 \/ Exits
  BY <1>3
<1>4. ASSUME
       StartTurn \/ AsksUser \/ EndsTurn \/ LosesLink \/ FinalizeLoss \/ FinalizeExit \/
       Replay \/ Receive \/ Judge \/ Insert \/ RejectEvicted \/ Resolved \/ IdleStatus \/
       ClientExited \/ Drop \/ Wipe
      PROVE proc' = proc \/ proc = 0 \/ Exits
  BY <1>4, <1>3 DEF StartTurn, AsksUser, EndsTurn, LosesLink, procVars, FinalizeLoss,
                    FinalizeExit, Replay, Receive, Judge, Insert, RejectEvicted, Resolved,
                    Handles, IdleStatus, ClientExited, Drop, Wipe
<1>5. ASSUME NEW j \in Ids,
       Withdraws(j)
      PROVE proc' = proc \/ proc = 0 \/ Exits
  BY <1>5, <1>3 DEF Withdraws, procVars
<1>6. ASSUME NEW g \in Gens,
       Read(g)
      PROVE proc' = proc \/ proc = 0 \/ Exits
  BY <1>6, <1>3 DEF Read, procVars
<1>7. ASSUME NEW u \in Users,
       Choose(u) \/ Respond(u) \/ Bury(u) \/ Discard(u) \/ Leaves(u)
      PROVE proc' = proc \/ proc = 0 \/ Exits
  BY <1>7, <1>3 DEF Choose, procVars, Respond, Bury, Discard, Leaves
<1> QED BY <1>1, <1>2, <1>3, <1>4, <1>5, <1>6, <1>7
     DEF Next, vars, ProcessStep, ClientStep, RequestTask, NoteTask, User

\* The exit of a process reaches its prompts.
LEMMA ExitComingKept ==
  ASSUME Base, DeafInv, ~deaf, [Next]_vars, ExitComing, NEW a \in ToSet(shown), a \in ToSet(shown'), a \notin stale'
  PROVE  ExitComing'
<1>1. CASE inst # 0 /\ ~up
  <2>1. proc = 0 /\ origin[inst] \in Nat /\ origin[inst] # 0
    <3>1. inst \in Gens /\ inst <= gens
      BY <1>1, BoundsAssumption DEF Base, Types, LinkTypes, LinkInv, Gens
    <3>2. origin[inst] \in 1..procs /\ procs \in Nat
      BY <3>1 DEF Base, Types, LinkTypes, LinkInv
    <3> QED BY <1>1, <3>2 DEF DeafInv
  <2>2. ~FinalizeLoss
    BY <2>1 DEF FinalizeLoss
  <2>3. ~Connect
    BY <1>1 DEF Connect
  <2>4. ASSUME FinalizeExit PROVE ExitComing'
    <3> DEFINE m == [kind |-> "exited", id |-> 0, of |-> origin[inst]]
    <3>1. m \in Notes /\ m.kind = "exited" /\ notes' = Append(notes, m) /\ notes \in Seq(Notes)
      <4>1. inst \in Gens
        BY <1>1, BoundsAssumption DEF Base, Types, LinkTypes, Gens
      <4> QED BY <2>4, <4>1 DEF FinalizeExit, Base, Types, LinkTypes, LineTypes, Notes
    <3> HIDE DEF m
    <3>2. m \in ToSet(notes')
      BY <3>1, AppendSet
    <3> QED BY <3>1, <3>2 DEF ExitComing
  <2> QED BY <1>1, <2>2, <2>3, <2>4, DownKept DEF ExitComing
<1>2. ASSUME NEW n \in ToSet(notes), n.kind = "exited" PROVE ExitComing'
  <2>1. CASE n \in ToSet(notes')
    BY <1>2, <2>1 DEF ExitComing
  <2>2. CASE Handled(n)
    <3>1. ClientExited
      BY <1>2, <2>2 DEF Handled, Resolved, IdleStatus, Handles
    <3> QED BY <3>1 DEF ClientExited, NtGoes, ExitComing
  <2> QED BY <2>1, <2>2, NotesKept
<1>3. CASE nt.at = "wipe"
  <2>1. ~Wipe
    BY EmptySet DEF Wipe
  <2> QED BY <1>3, <2>1, NtKept DEF ExitComing
<1> QED BY <1>1, <1>2, <1>3 DEF ExitComing

\* PromptInv is inductive.
LEMMA PromptStep ==
  ASSUME Base, DeafInv, MadeInv, StaleInv, [Next]_vars, ~deaf'
  PROVE  PromptInv'
<1>0. ~deaf
  BY DeafStays
<1> SUFFICES ASSUME NEW a \in ToSet(shown'), a \notin stale'
             PROVE  IF Mine(a[2])' THEN Over(a)' \/ Dropping(a[1])' \/ Removing(a)' ELSE ExitComing'
  BY DEF PromptInv
<1>1. a \notin stale
  BY StaleGrows
<1>2. ASSUME Shows(a) PROVE Mine(a[2])' /\ (Over(a)' \/ Removing(a)')
  <2>1. a \notin tombs /\ origin[a[2]] = proc /\ a = rt.ask /\ rt.at = "insert"
    BY <1>2 DEF Shows
  <2>2. a \in Asks /\ a \in InHand /\ a \in Coming
    BY <2>1, InHandAsks, AskFacts DEF InHand, Coming, Base
  <2>3. Mine(a[2])
    BY <2>1, <2>2 DEF Mine, MadeInv, Made, Heard
  <2>4. Over(a) \/ Tombing(a)
    BY <1>0, <1>1, <2>1, <2>2, <2>3 DEF StaleInv, TakenInv
  <2>5. UNCHANGED <<gens, origin, proc, open, inst, lines, notes, us>>
    BY <1>2 DEF Shows, Insert, linkVars, procVars
  <2> QED BY <2>3, <2>4, <2>5 DEF Mine, Over, Told, Tombing, Removing
<1>3. ASSUME a \in ToSet(shown), Mine(a[2])' PROVE Over(a)' \/ Dropping(a[1])' \/ Removing(a)'
  <2>1. /\ a \in Asks /\ Mine(a[2]) /\ proc' = proc /\ proc # 0 /\ up
    BY <1>3, Here DEF Heard
  <2>2. CASE Over(a)
    <3>1. ASSUME Resolved, notes # <<>>, Head(notes).id = a[1] PROVE Dropping(a[1])'
      BY <3>1 DEF Resolved, NtGoes, Dropping
    <3> QED BY <2>1, <2>2, <3>1, OverKept
  <2>3. CASE Dropping(a[1])
    <3>1. ASSUME Drop PROVE FALSE
      <4>1. shown' = Without(shown, a[1])
        BY <2>3, <3>1 DEF Drop, Dropping
      <4> QED BY <4>1, WithoutSet DEF Base, Types, ShownTypes
    <3> QED BY <2>3, <3>1, NtKept DEF Dropping
  <2>4. CASE Removing(a)
    BY <1>3, <2>4, RemovingKept
  <2> QED BY <1>0, <1>1, <1>3, <2>1, <2>2, <2>3, <2>4 DEF StaleInv, PromptInv
<1>4. ASSUME a \in ToSet(shown), ~Mine(a[2])' PROVE ExitComing'
  <2>1. CASE ~Mine(a[2])
    BY <1>0, <1>1, <1>4, <2>1, ExitComingKept DEF StaleInv, PromptInv
  <2>2. CASE Mine(a[2])
    <3>1. a[2] \in Gens /\ a[2] <= gens
      BY <1>4, HeardAsks, AskFacts DEF Heard, MadeInv, Made
    <3>2. OriginKept /\ proc' # proc
      BY <1>4, <2>2, <3>1, OriginStep, MineKept
    <3>3. inst # 0 /\ proc # 0
      BY <1>0, <2>2, <3>1, OneConnection, AskFacts
    <3>4. Exits
      BY <3>2, <3>3, ProcEnds
    <3> QED BY <3>3, <3>4 DEF Exits, ExitComing
  <2> QED BY <2>1, <2>2
<1> QED BY <1>2, <1>3, <1>4, ShownNew

\* StaleInv is inductive.
LEMMA StaleInvStep ==
  ASSUME Base, DeafInv, MadeInv, ReadInv, StaleInv, [Next]_vars
  PROVE  StaleInv'
BY PromptStep, TakenStep, NotedStep DEF StaleInv

\* The invariant is inductive.
LEMMA PromptsStep ==
  ASSUME PromptsInv, [Next]_vars
  PROVE  PromptsInv'
<1> USE DEF PromptsInv
<1>1. Base' /\ DeafInv' /\ MadeInv' /\ ReadInv' /\ TombInv' /\ AskInv' /\ StaleInv'
  BY BaseStep, DeafInvStep, MadeStep, ReadInvStep, TombStep, AskInvStep, StaleInvStep
<1>2. RefusalInv'
  BY WorkInvStep, RefusedStep DEF RefusalInv
<1> QED BY <1>1, <1>2

\* Once all is quiet the prompts are the questions app-server waits for: none is
\* missing, none is left over, and none was refused while its turn ran, but for the
\* races that `excused', `stale' and `bereft' record
\* (handle_profile_server_request_inner, resolve_server_request_payload,
\* handle_server_request_resolved_notification, finalize_process_exit).
THEOREM PromptsExact == Spec => []PromptsAreExact
<1>1. PromptsInv /\ [Next]_vars => PromptsInv'
  BY PromptsStep
<1>2. PromptsInv => PromptsAreExact
  BY AskShown, NoStale DEF PromptsInv, PromptsAreExact, RefusalInv, RefusedOnlyWhenOver
<1> QED BY InitPrompts, <1>1, <1>2, PTL DEF Spec
================================================================================
