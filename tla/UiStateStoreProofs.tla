-------------------------- MODULE UiStateStoreProofs --------------------------
(***************************************************************************)
(* Theorems of UiStateStore for every set of profiles and tasks, every     *)
(* size of the cache and every bound.  The argument: the holder of a       *)
(* profile's lock has in its hands the content that readers see, and       *)
(* whatever was promised of a profile is part of what readers see.         *)
(***************************************************************************)
EXTENDS UiStateStore, FiniteSetTheorems, TLAPS

\* Where a request has marked its profile dirty and nothing has recorded it yet.
Marked == {"start", "backup", "store", "record", "fail"}

\* Where the mark of a request still is the name of its update.
Naming == {"enter", "load", "repair", "gather", "insert", "take", "apply"}

\* The names handed out are updates.
NamesInv ==
  /\ ops <= MaxOps
  /\ \A t \in Tasks : pc[t] \in Naming => mark[t] \in Updates

\* The lock of a profile is held by whoever is inside of it, and by no one else.
LockInv ==
  /\ \A a \in Actors : pc[a] \in Inside => lock[on[a]] = a
  /\ \A p \in Profiles : lock[p] # Nobody => on[lock[p]] = p /\ pc[lock[p]] \in Inside
  /\ \A p \in Profiles : on[p] = p

\* Nothing is recorded that was not marked, and between the mark of a request and
\* its record the profile is dirty with exactly that revision.
MarksInv ==
  /\ \A p \in Profiles : persisted[p] <= revision[p]
  /\ \A a \in Actors \ Tasks : mark[a] <= revision[on[a]]
  /\ \A e \in todo : e[2] <= revision[e[1]]
  /\ \A t \in Tasks : pc[t] \in Marked =>
       mark[t] = revision[on[t]] /\ persisted[on[t]] < revision[on[t]]

InHands(a) == pc[a] \in Loading \cup Working
Crowds == capacity < Cardinality(Profiles)

\* What an actor has in its hands against the cache and the file.
Hands(a) ==
  LET p == on[a] IN
  /\ pc[a] \in {"load"} \cup Loading => cache[p] = Absent
  /\ pc[a] \in Working => \/ cache[p] = cell[a]
                          \/ cache[p] = Absent /\ p \in slipped /\ Crowds
  /\ pc[a] = "repair" => p \in hurt
  /\ pc[a] \in {"gather", "insert"} /\ p \notin hurt => cell[a] = Stored(p)
  /\ pc[a] = "record" => IF p \in hurt THEN told[p] = {} ELSE Stored(p) = cell[a]
CellInv == \A a \in Actors : Hands(a)

HurtInv == \A p \in Profiles : file[p] = Corrupt => p \in hurt

\* What a client was told is on the disk is seen by readers, too; nothing is
\* promised of a damaged file.
DiskInv ==
  \A p \in Profiles :
    /\ stored[p] \cup kept[p] \subseteq Visible(p)
    /\ IF p \in hurt THEN stored[p] = {} /\ kept[p] = {}
       ELSE stored[p] \cup kept[p] \subseteq Stored(p)

\* What a client was told at all is seen by readers; it is on the disk, or the
\* profile is dirty and its content in the cache.
ToldInv ==
  \A p \in Profiles \ slipped :
    /\ told[p] \subseteq Visible(p)
    /\ IF Dirty(p) THEN cache[p] # Absent
       ELSE IF p \in hurt THEN told[p] = {}
       ELSE told[p] \subseteq Stored(p)

\* A dirty profile has a writer, or the request that marked it has not gone.
WriterInv ==
  \A p \in Profiles :
    Dirty(p) => \/ pc[p] # "off" \/ p \in stranded
                \/ lock[p] \in Tasks /\ pc[lock[p]] \in Marked

TypeInv == TypeOK /\ NamesInv
StoreInv == CellInv /\ HurtInv /\ DiskInv /\ ToldInv
Inv == TypeInv /\ LockInv /\ MarksInv /\ StoreInv /\ WriterInv

-------------------------------------------------------------------------------
(* Types.                                                                  *)

\* What the assumptions on the constants say of the actors.
LEMMA Constants ==
  /\ \A p \in Profiles : p \notin Tasks /\ p # Main /\ p # Nobody /\ p \in Actors
  /\ \A t \in Tasks : t # Main /\ t # Nobody /\ t \in Actors /\ t \notin Profiles
  /\ Main \in Actors /\ Main # Nobody /\ Main \notin Tasks /\ Main \notin Profiles
  /\ Nobody \notin Actors
BY ActorsAssumption DEF Actors

\* The profile an actor works for is one of the profiles.
LEMMA HomeType == \A a \in Actors : Home(a) \in Profiles
BY ActorsAssumption DEF Home

\* Where an actor goes when it ends is a place of its own.
LEMMA EndsType ==
  ASSUME TypeOK, NEW a \in Actors, Ends(a)
  PROVE  /\ lock' \in [Profiles -> Actors \cup {Nobody}]
         /\ on' \in [Actors -> Profiles] /\ kind' \in [Actors -> Kinds \cup {"persist"}]
         /\ cell' \in [Actors -> SUBSET Updates] /\ mark' \in [Actors -> Nat]
BY HomeType DEF TypeOK, Ends, Kinds

\* Leaving a profile keeps the types.
LEMMA LeavesType ==
  ASSUME TypeOK, NEW a \in Actors, NEW fine \in BOOLEAN, Leaves(a, fine)
  PROVE  /\ lock' \in [Profiles -> Actors \cup {Nobody}]
         /\ on' \in [Actors -> Profiles] /\ kind' \in [Actors -> Kinds \cup {"persist"}]
         /\ cell' \in [Actors -> SUBSET Updates] /\ mark' \in [Actors -> Nat]
         /\ pc' \in [Actors -> Inside \cup {"idle", "off", "sleep", "enter", "check",
                                    "flush", "next", "exit"}]
<1>1. After(a, fine) \in {"idle", "next", "check", "sleep"}
  BY DEF After, Actors
<1> QED BY <1>1, EndsType DEF TypeOK, Leaves, Goes

\* A process that starts is well typed.
LEMMA FreshType ==
  ASSUME TypeOK, Fresh
  PROVE  /\ late' \in [Profiles -> SUBSET ((SUBSET Updates) \cup {Missing})]
         /\ lateBak' \in [Profiles -> SUBSET ((SUBSET Updates) \cup {Corrupt})]
         /\ cache' \in [Profiles -> (SUBSET Updates) \cup {Absent}]
         /\ lock' \in [Profiles -> Actors \cup {Nobody}]
         /\ revision' \in [Profiles -> Nat] /\ persisted' \in [Profiles -> Nat]
         /\ pc' \in [Actors -> Inside \cup {"idle", "off", "sleep", "enter", "check",
                                    "flush", "next", "exit"}]
         /\ on' \in [Actors -> Profiles] /\ kind' \in [Actors -> Kinds \cup {"persist"}]
         /\ cell' \in [Actors -> SUBSET Updates] /\ mark' \in [Actors -> Nat]
         /\ seen' \in [Actors -> SUBSET Profiles]
         /\ todo' \in SUBSET (Profiles \X Nat) /\ round' \in Nat
         /\ stranded' \in SUBSET Profiles /\ slipped' \in SUBSET Profiles
<1>1. Rest \in [Actors -> {"idle", "off"}]
  BY DEF Rest
<1>2. [a \in Actors |-> Home(a)] \in [Actors -> Profiles]
  BY HomeType
<1> QED BY <1>1, <1>2 DEF TypeOK, Fresh

\* The first process is well typed.
LEMMA InitType == Init => TypeInv
<1> SUFFICES ASSUME Init PROVE TypeInv
  OBVIOUS
<1>1. Rest \in [Actors -> {"idle", "off"}]
  BY DEF Rest
<1>2. [a \in Actors |-> Home(a)] \in [Actors -> Profiles]
  BY HomeType
<1>3. TypeOK
  <2>1. todo \in SUBSET (Profiles \X Nat)
    BY DEF Init
  <2> QED BY <1>1, <1>2, <2>1 DEF Init, TypeOK, Unreadable
<1>4. \A t \in Tasks : pc[t] = "idle"
  BY Constants DEF Init, Rest
<1> QED BY <1>3, <1>4, BoundsAssumption DEF Init, TypeInv, NamesInv, Naming

\* Every step keeps the types.
LEMMA StepTypes ==
  ASSUME TypeInv, [Next]_vars
  PROVE  TypeOK'
<1> USE DEF TypeInv
<1>1. ASSUME NEW a \in Actors, Enter(a)
      PROVE  TypeOK'
  BY <1>1 DEF Enter, TypeOK, Goes, Inside, diskVars, cacheVars, dirtyVars, flushVars, bounds,
     history
<1>2. ASSUME NEW a \in Actors, Load(a)
      PROVE  TypeOK'
  <2>1. file' \in [Profiles -> (SUBSET Updates) \cup Unreadable] /\ cell' \in [Actors -> SUBSET Updates]
    BY <1>2 DEF Load, TypeOK, Unreadable
  <2>2. pc' = [pc EXCEPT ![a] = "gather"] \/ pc' = [pc EXCEPT ![a] = "repair"]
    BY <1>2 DEF Load, Goes
  <2> QED BY <1>2, <2>1, <2>2 DEF Load, TypeOK, Inside, Loading, cacheVars, dirtyVars, flushVars,
             bounds, history
<1>3. ASSUME NEW a \in Actors, Repair(a)
      PROVE  TypeOK'
  BY <1>3 DEF Repair, TypeOK, Goes, Inside, Loading, cacheVars, dirtyVars, flushVars, bounds
<1>4. ASSUME NEW a \in Actors, Gather(a)
      PROVE  TypeOK'
  BY <1>4 DEF Gather, TypeOK, Goes, Inside, Loading, diskVars, cacheVars, dirtyVars, flushVars,
     bounds, history
<1>5. ASSUME NEW a \in Actors, Insert(a)
      PROVE  TypeOK'
  <2>1. PICK out : cache' = [q \in Profiles |-> CASE q = on[a] -> cell[a]
                                         [] q \in out -> Absent
                                         [] OTHER     -> cache[q]]
    BY <1>5 DEF Insert
  <2>2. cache' \in [Profiles -> (SUBSET Updates) \cup {Absent}]
    BY <2>1 DEF TypeOK
  <2>3. slipped' \in SUBSET Profiles
    BY <1>5 DEF Insert, Victims, Cached, TypeOK
  <2> QED BY <1>5, <2>2, <2>3 DEF Insert, TypeOK, Goes, Inside, diskVars, dirtyVars, flushVars,
             bounds
<1>6. ASSUME NEW a \in Actors, Take(a)
      PROVE  TypeOK'
  <2>1. CASE Leaves(a, FALSE)
    BY <1>6, <2>1, LeavesType DEF Take, TypeOK, diskVars, cacheVars, dirtyVars, flushVars,
       bounds, history
  <2>2. CASE ~ Leaves(a, FALSE)
    <3>1. cache[on[a]] # Absent /\ cell' = [cell EXCEPT ![a] = cache[on[a]]]
      BY <1>6, <2>2 DEF Take
    <3>2. cell' \in [Actors -> SUBSET Updates]
      BY <3>1 DEF TypeOK
    <3>3. pc' = [pc EXCEPT ![a] = "apply"] \/ pc' = [pc EXCEPT ![a] = "backup"]
      BY <1>6, <2>2 DEF Take, Goes
    <3> QED BY <1>6, <2>2, <3>2, <3>3 DEF Take, TypeOK, Inside, Working, diskVars, cacheVars,
               dirtyVars, flushVars, bounds, history
  <2> QED BY <2>1, <2>2
<1>7. ASSUME NEW a \in Actors, Backup(a)
      PROVE  TypeOK'
  <2>1. faults' \in Nat /\ ops' = ops
    BY <1>7 DEF Backup, Strikes, TypeOK, bounds
  <2>2. bak' \in [Profiles -> (SUBSET Updates) \cup Unreadable]
    BY <1>7 DEF Backup, TypeOK
  <2> QED BY <1>7, <2>1, <2>2 DEF Backup, TypeOK, Goes, Inside, Working, cacheVars, dirtyVars,
             flushVars, history
<1>8. ASSUME NEW a \in Actors, Store(a)
      PROVE  TypeOK'
  BY <1>8 DEF Store, TypeOK, Goes, Inside, Working, cacheVars, dirtyVars, flushVars, bounds
<1>9. ASSUME NEW a \in Actors, Record(a)
      PROVE  TypeOK'
  <2>1. Larger(persisted[on[a]], mark[a]) \in Nat
    BY DEF Larger, TypeOK
  <2>2. stored' \in [Profiles -> SUBSET Updates] /\ told' \in [Profiles -> SUBSET Updates]
    <3>1. cell[a] \in SUBSET Updates /\ on[a] \in Profiles
      BY DEF TypeOK
    <3>2. CASE a \in Tasks /\ on[a] \notin hurt
      <4>1. /\ stored' = [stored EXCEPT ![on[a]] = @ \cup cell[a]]
            /\ told' = [told EXCEPT ![on[a]] = @ \cup cell[a]]
        BY <1>9, <3>2 DEF Record
      <4> QED BY <3>1, <4>1 DEF TypeOK
    <3>3. CASE ~ (a \in Tasks /\ on[a] \notin hurt)
      BY <1>9, <3>3 DEF Record, TypeOK
    <3> QED BY <3>2, <3>3
  <2> QED
    BY <1>9, <2>1, <2>2, LeavesType DEF Record, TypeOK, diskVars, cacheVars, flushVars, bounds
<1>10. ASSUME NEW a \in Actors, DiskFails(a)
       PROVE  TypeOK'
  <2>1. faults' \in Nat
    BY <1>10 DEF DiskFails, Strikes, TypeOK
  <2>2. CASE Leaves(a, FALSE)
    BY <1>10, <2>1, <2>2, LeavesType DEF DiskFails, TypeOK, diskVars, cacheVars, dirtyVars,
       flushVars, history
  <2>3. CASE ~ Leaves(a, FALSE)
    BY <1>10, <2>1, <2>3 DEF DiskFails, TypeOK, Goes, Inside, Working, diskVars, cacheVars,
       dirtyVars, flushVars, history
  <2> QED BY <2>2, <2>3
<1>11. ASSUME NEW t \in Tasks, Begin(t)
       PROVE  TypeOK'
  BY <1>11, Constants DEF Begin, TypeOK, Goes, diskVars, cacheVars, dirtyVars, flushVars, history
<1>12. ASSUME NEW t \in Tasks, Apply(t)
       PROVE  TypeOK'
  <2>1. mark[t] \in Updates /\ t \in Actors
    BY <1>12, Constants DEF Apply, NamesInv, Naming
  <2>2. on[t] \in Profiles /\ cell[t] \in SUBSET Updates
    BY <2>1 DEF TypeOK
  <2>3. PICK change \in BOOLEAN :
          LET made == IF change THEN cell[t] \cup {mark[t]} ELSE cell[t] IN
          /\ cell' = [cell EXCEPT ![t] = made]
          /\ cache' = [cache EXCEPT ![on[t]] = IF @ = Absent THEN Absent ELSE made]
    BY <1>12 DEF Apply
  <2>4. cell' \in [Actors -> SUBSET Updates] /\ cache' \in [Profiles -> (SUBSET Updates) \cup {Absent}]
    BY <2>1, <2>2, <2>3 DEF TypeOK
  <2> QED
    BY <1>12, <2>1, <2>4 DEF Apply, TypeOK, Goes, Inside, Working, diskVars, dirtyVars,
       flushVars, bounds, history
<1>13. ASSUME NEW t \in Tasks, Mark(t)
       PROVE  TypeOK'
  BY <1>13, Constants DEF Mark, TypeOK, Goes, Inside, Working, diskVars, cacheVars, flushVars,
     bounds, history
<1>14. ASSUME NEW t \in Tasks, StartWriter(t)
       PROVE  TypeOK'
  <2>1. t \in Actors /\ on[t] \in Profiles /\ on[t] \in Actors
    BY Constants DEF TypeOK
  <2>2. told' \in [Profiles -> SUBSET Updates]
    BY <1>14, <2>1 DEF StartWriter, TypeOK
  <2> QED
    BY <1>14, <2>1, <2>2, EndsType DEF StartWriter, TypeOK, diskVars, cacheVars, dirtyVars,
       flushVars, bounds
<1>15. ASSUME NEW t \in Tasks, Cancel(t)
       PROVE  TypeOK'
  <2>1. t \in Actors /\ on[t] \in Profiles /\ file[on[t]] \in (SUBSET Updates) \cup Unreadable
    BY Constants DEF TypeOK
  <2>2. OverFile(t) \subseteq (SUBSET Updates) \cup {Missing}
    BY <2>1 DEF OverFile, TypeOK
  <2>3. OverBackup(t) \subseteq (SUBSET Updates) \cup {Corrupt}
    BY <2>1 DEF OverBackup, Unreadable
  <2>6. \/ UNCHANGED <<late, lateBak>>
        \/ /\ late' = [late EXCEPT ![on[t]] = @ \cup OverFile(t)]
           /\ lateBak' = [lateBak EXCEPT ![on[t]] = @ \cup OverBackup(t)]
    BY <1>15 DEF Cancel
  <2> DEFINE C == (SUBSET Updates) \cup {Missing}
             B == (SUBSET Updates) \cup {Corrupt}
  <2>7. late \in [Profiles -> SUBSET C] /\ lateBak \in [Profiles -> SUBSET B]
    BY DEF TypeOK
  <2>8. OverFile(t) \subseteq C /\ OverBackup(t) \subseteq B
    BY <2>2, <2>3
  <2> HIDE DEF C, B
  <2>9. late' \in [Profiles -> SUBSET C] /\ lateBak' \in [Profiles -> SUBSET B]
    BY <2>1, <2>6, <2>7, <2>8
  <2>4. late' \in [Profiles -> SUBSET ((SUBSET Updates) \cup {Missing})]
    BY <2>9 DEF C
  <2>5. lateBak' \in [Profiles -> SUBSET ((SUBSET Updates) \cup {Corrupt})]
    BY <2>9 DEF B
  <2> QED BY <1>15, <2>1, <2>4, <2>5, EndsType DEF Cancel, Strikes, TypeOK, Goes, cacheVars,
             dirtyVars, flushVars
<1>16. ASSUME NEW p \in Profiles, WriterWakes(p) \/ WriterChecks(p)
       PROVE  TypeOK'
  <2>1. p \in Actors /\ pc' \in [Actors -> Inside \cup {"idle", "off", "sleep", "enter", "check",
                                    "flush", "next", "exit"}]
    BY <1>16, Constants DEF WriterWakes, WriterChecks, TypeOK, Goes
  <2>2. mark' \in [Actors -> Nat]
    BY <1>16, <2>1 DEF WriterWakes, WriterChecks, TypeOK
  <2> QED BY <1>16, <2>1, <2>2 DEF WriterWakes, WriterChecks, TypeOK, diskVars, cacheVars,
             dirtyVars, flushVars, bounds, history
<1>17. ASSUME NEW p \in Profiles, Damage(p)
       PROVE  TypeOK'
  <2>1. file' \in [Profiles -> (SUBSET Updates) \cup Unreadable] /\ faults' \in Nat
    BY <1>17 DEF Damage, Strikes, TypeOK, Unreadable
  <2> QED BY <1>17, <2>1 DEF Damage, Hurts, TypeOK, cacheVars, dirtyVars, flushVars
<1>24. ASSUME NEW p \in Profiles, Lands(p)
       PROVE  TypeOK'
  <2> DEFINE Disk == /\ file' \in [Profiles -> (SUBSET Updates) \cup Unreadable]
                     /\ late' \in [Profiles -> SUBSET ((SUBSET Updates) \cup {Missing})]
                     /\ bak' \in [Profiles -> (SUBSET Updates) \cup Unreadable]
                     /\ lateBak' \in [Profiles -> SUBSET ((SUBSET Updates) \cup {Corrupt})]
  <2>1. ASSUME \E c \in late[p] : /\ file' = [file EXCEPT ![p] = c]
                              /\ late' = [late EXCEPT ![p] = @ \ {c}]
                              /\ UNCHANGED <<bak, lateBak>>
        PROVE  Disk
    <3>1. PICK c \in late[p] : /\ file' = [file EXCEPT ![p] = c]
                              /\ late' = [late EXCEPT ![p] = @ \ {c}]
                              /\ UNCHANGED <<bak, lateBak>>
      BY <2>1
    <3>2. /\ c \in (SUBSET Updates) \cup Unreadable
          /\ late[p] \ {c} \in SUBSET ((SUBSET Updates) \cup {Missing})
      BY DEF TypeOK, Unreadable
    <3>3. file' \in [Profiles -> (SUBSET Updates) \cup Unreadable]
      BY <3>1, <3>2 DEF TypeOK
    <3>4. late' \in [Profiles -> SUBSET ((SUBSET Updates) \cup {Missing})]
      BY <3>1, <3>2 DEF TypeOK
    <3> QED BY <3>1, <3>3, <3>4 DEF TypeOK
  <2>2. ASSUME \E c \in lateBak[p] : /\ bak' = [bak EXCEPT ![p] = c]
                                 /\ lateBak' = [lateBak EXCEPT ![p] = @ \ {c}]
                                 /\ UNCHANGED <<file, late>>
        PROVE  Disk
    <3>1. PICK c \in lateBak[p] : /\ bak' = [bak EXCEPT ![p] = c]
                                 /\ lateBak' = [lateBak EXCEPT ![p] = @ \ {c}]
                                 /\ UNCHANGED <<file, late>>
      BY <2>2
    <3>2. /\ c \in (SUBSET Updates) \cup Unreadable
          /\ lateBak[p] \ {c} \in SUBSET ((SUBSET Updates) \cup {Corrupt})
      BY DEF TypeOK, Unreadable
    <3>3. bak' \in [Profiles -> (SUBSET Updates) \cup Unreadable]
      BY <3>1, <3>2 DEF TypeOK
    <3>4. lateBak' \in [Profiles -> SUBSET ((SUBSET Updates) \cup {Corrupt})]
      BY <3>1, <3>2 DEF TypeOK
    <3> QED BY <3>1, <3>3, <3>4 DEF TypeOK
  <2>3. Disk
    BY <1>24, <2>1, <2>2 DEF Lands
  <2>4. /\ stored' \in [Profiles -> SUBSET Updates] /\ told' \in [Profiles -> SUBSET Updates]
        /\ kept' \in [Profiles -> SUBSET Updates] /\ hurt' \in SUBSET Profiles
    BY <1>24 DEF Lands, Hurts, TypeOK
  <2> QED BY <1>24, <2>3, <2>4 DEF Lands, TypeOK, cacheVars, dirtyVars, flushVars, bounds
<1>18. CASE Stop
  BY <1>18, Constants DEF Stop, TypeOK, Goes, diskVars, cacheVars, dirtyVars, flushVars, bounds,
     history
<1>23. CASE Collect
  <2>1. todo' \in SUBSET (Profiles \X Nat)
    BY <1>23 DEF Collect, TypeOK
  <2>2. kept' \in [Profiles -> SUBSET Updates]
    BY <1>23 DEF Collect, TypeOK
  <2> QED
    BY <1>23, <2>1, <2>2, Constants DEF Collect, TypeOK, Goes, diskVars, cacheVars, dirtyVars,
       bounds
<1>19. CASE FlushNext
  <2>1. \A e \in todo : e[1] \in Profiles /\ e[2] \in Nat
    BY DEF TypeOK
  <2>2. on' \in [Actors -> Profiles] /\ mark' \in [Actors -> Nat]
    BY <1>19, <2>1 DEF FlushNext, TypeOK
  <2>3. todo' \in SUBSET (Profiles \X Nat) /\ round' \in Nat
    BY <1>19 DEF FlushNext, TypeOK
  <2> QED
    BY <1>19, <2>2, <2>3, Constants DEF FlushNext, TypeOK, Goes, diskVars, cacheVars, dirtyVars,
       bounds, history
<1>20. CASE Exit
  BY <1>20, FreshType DEF Exit, TypeOK, diskVars, bounds
<1>21. CASE Crash
  BY <1>21, FreshType DEF Crash, Strikes, TypeOK, diskVars
<1>22. CASE UNCHANGED vars
  BY <1>22 DEF vars, TypeOK
<1> QED
  BY <1>1, <1>2, <1>3, <1>4, <1>5, <1>6, <1>7, <1>8, <1>9, <1>10, <1>11, <1>12, <1>13, <1>14,
     <1>15, <1>16, <1>17, <1>18, <1>19, <1>20, <1>21, <1>22, <1>23, <1>24
     DEF Next, Persists, Works, Writes, Flushes

-------------------------------------------------------------------------------
(* What a step leaves alone.                                               *)

\* A step of one actor.  The others are Damage, Lands, Exit and Crash.
ActsAs(a) ==
  \/ Persists(a) \/ DiskFails(a)
  \/ a \in Tasks /\ (Begin(a) \/ Works(a) \/ Cancel(a))
  \/ a \in Profiles /\ Writes(a)
  \/ a = Main /\ (Stop \/ Collect \/ FlushNext)

\* A step is one of an actor, the start of a process, or of the disk alone.
LEMMA StepsOfActors ==
  ASSUME [Next]_vars
  PROVE  \/ \E a \in Actors : ActsAs(a)
         \/ \E p \in Profiles : Damage(p) \/ Lands(p)
         \/ Exit \/ Crash \/ UNCHANGED vars
BY Constants DEF Next, ActsAs, Flushes

\* What an actor has of its own, no other touches; only a writer is started.
LEMMA OthersKeepTheirs ==
  ASSUME TypeOK, NEW a \in Actors, ActsAs(a), NEW x \in Actors, x # a
  PROVE  /\ on'[x] = on[x] /\ cell'[x] = cell[x] /\ mark'[x] = mark[x] /\ seen'[x] = seen[x]
         /\ \/ pc'[x] = pc[x]
            \/ x \in Profiles /\ pc[x] = "off" /\ pc'[x] = "sleep"
<1>1. CASE Enter(a)
  BY <1>1, Constants DEF Enter, Goes, diskVars, cacheVars, dirtyVars, flushVars, bounds,
                         history, TypeOK
<1>2. CASE Load(a)
  BY <1>2, Constants DEF Load, Goes, cacheVars, dirtyVars, flushVars, bounds, history, TypeOK
<1>3. CASE Repair(a)
  BY <1>3, Constants DEF Repair, Goes, cacheVars, dirtyVars, flushVars, bounds, TypeOK
<1>4. CASE Gather(a)
  BY <1>4, Constants DEF Gather, Goes, diskVars, cacheVars, dirtyVars, flushVars, bounds,
                         history, TypeOK
<1>5. CASE Insert(a)
  BY <1>5, Constants DEF Insert, Goes, diskVars, dirtyVars, flushVars, bounds, TypeOK
<1>6. CASE Take(a)
  <2>1. CASE Leaves(a, FALSE)
    BY <1>6, <2>1, Constants DEF Take, Leaves, Ends, Goes, diskVars, cacheVars, dirtyVars,
       flushVars, bounds, history, TypeOK
  <2>2. CASE ~ Leaves(a, FALSE)
    BY <1>6, <2>2, Constants DEF Take, Goes, diskVars, cacheVars, dirtyVars, flushVars, bounds,
       history, TypeOK
  <2> QED BY <2>1, <2>2
<1>7. CASE Backup(a)
  BY <1>7, Constants DEF Backup, Goes, cacheVars, dirtyVars, flushVars, bounds, history, TypeOK
<1>8. CASE Store(a)
  BY <1>8, Constants DEF Store, Goes, cacheVars, dirtyVars, flushVars, bounds, TypeOK
<1>9. CASE Record(a)
  BY <1>9, Constants DEF Record, Leaves, diskVars, cacheVars, flushVars, bounds, Ends, Goes,
                         TypeOK
<1>10. CASE DiskFails(a)
  <2>1. CASE Leaves(a, FALSE)
    BY <1>10, <2>1, Constants DEF DiskFails, Leaves, Ends, Goes, Strikes, diskVars, cacheVars,
       dirtyVars, flushVars, history, TypeOK
  <2>2. CASE ~ Leaves(a, FALSE)
    BY <1>10, <2>2, Constants DEF DiskFails, Goes, Strikes, diskVars, cacheVars, dirtyVars,
       flushVars, history, TypeOK
  <2> QED BY <2>1, <2>2
<1>11. CASE a \in Tasks /\ Begin(a)
  BY <1>11, Constants DEF Begin, Goes, diskVars, cacheVars, dirtyVars, flushVars, history,
                          TypeOK
<1>12. CASE a \in Tasks /\ Apply(a)
  BY <1>12, Constants DEF Apply, Goes, diskVars, dirtyVars, flushVars, bounds, history, TypeOK
<1>13. CASE a \in Tasks /\ Mark(a)
  BY <1>13, Constants DEF Mark, Goes, diskVars, cacheVars, flushVars, bounds, history, TypeOK
<1>14. CASE a \in Tasks /\ StartWriter(a)
  BY <1>14, Constants DEF StartWriter, Ends, diskVars, cacheVars, dirtyVars, flushVars, bounds,
                          TypeOK
<1>15. CASE a \in Tasks /\ Cancel(a)
  BY <1>15, Constants DEF Cancel, Ends, Goes, Strikes, diskVars, cacheVars, dirtyVars,
                          flushVars, TypeOK
<1>16. CASE a \in Profiles /\ WriterWakes(a)
  BY <1>16, Constants DEF WriterWakes, Goes, diskVars, cacheVars, dirtyVars, flushVars, bounds,
                          history, TypeOK
<1>17. CASE a \in Profiles /\ WriterChecks(a)
  BY <1>17, Constants DEF WriterChecks, Goes, diskVars, cacheVars, dirtyVars, flushVars,
                          bounds, history, TypeOK
<1>18. CASE a = Main /\ Stop
  BY <1>18, Constants DEF Stop, Goes, diskVars, cacheVars, dirtyVars, flushVars, bounds,
                          history, TypeOK
<1>19. CASE a = Main /\ Collect
  BY <1>19, Constants DEF Collect, Goes, diskVars, cacheVars, dirtyVars, bounds, TypeOK
<1>20. CASE a = Main /\ FlushNext
  BY <1>20, Constants DEF FlushNext, Goes, diskVars, cacheVars, dirtyVars, bounds, history,
                          TypeOK
<1> QED BY <1>1, <1>2, <1>3, <1>4, <1>5, <1>6, <1>7, <1>8, <1>9, <1>10, <1>11, <1>12, <1>13,
           <1>14, <1>15, <1>16, <1>17, <1>18, <1>19, <1>20
           DEF ActsAs, Persists, Works, Writes

\* Of the profiles it is not on, an actor changes no more than the cache.
LEMMA OthersKeepTheirProfiles ==
  ASSUME TypeOK, NEW a \in Actors, ActsAs(a), NEW q \in Profiles, q # on[a]
  PROVE  /\ file'[q] = file[q] /\ bak'[q] = bak[q] /\ lock'[q] = lock[q]
         /\ revision'[q] = revision[q] /\ persisted'[q] = persisted[q]
         /\ stored'[q] = stored[q] /\ told'[q] = told[q]
         /\ (q \in hurt' <=> q \in hurt) /\ (q \in stranded' <=> q \in stranded)
         /\ ~ Insert(a) => cache'[q] = cache[q] /\ (q \in slipped' <=> q \in slipped)
<1>1. CASE Enter(a)
  BY <1>1, Constants DEF Enter, Goes, diskVars, cacheVars, dirtyVars, flushVars, bounds,
                         history, TypeOK
<1>2. CASE Load(a)
  BY <1>2, Constants DEF Load, Goes, cacheVars, dirtyVars, flushVars, bounds, history, TypeOK
<1>3. CASE Repair(a)
  BY <1>3, Constants DEF Repair, Goes, cacheVars, dirtyVars, flushVars, bounds, TypeOK
<1>4. CASE Gather(a)
  BY <1>4, Constants DEF Gather, Goes, diskVars, cacheVars, dirtyVars, flushVars, bounds,
                         history, TypeOK
<1>5. CASE Insert(a)
  BY <1>5, Constants DEF Insert, Goes, diskVars, dirtyVars, flushVars, bounds, TypeOK
<1>6. CASE Take(a)
  <2>1. CASE Leaves(a, FALSE)
    BY <1>6, <2>1, Constants DEF Take, Leaves, Ends, Goes, diskVars, cacheVars, dirtyVars,
       flushVars, bounds, history, TypeOK
  <2>2. CASE ~ Leaves(a, FALSE)
    BY <1>6, <2>2, Constants DEF Take, Goes, diskVars, cacheVars, dirtyVars, flushVars, bounds,
       history, TypeOK
  <2> QED BY <2>1, <2>2
<1>7. CASE Backup(a)
  BY <1>7, Constants DEF Backup, Goes, cacheVars, dirtyVars, flushVars, bounds, history, TypeOK
<1>8. CASE Store(a)
  BY <1>8, Constants DEF Store, Goes, cacheVars, dirtyVars, flushVars, bounds, TypeOK
<1>9. CASE Record(a)
  BY <1>9, Constants DEF Record, Leaves, diskVars, cacheVars, flushVars, bounds, Ends, Goes,
                         TypeOK
<1>10. CASE DiskFails(a)
  <2>1. CASE Leaves(a, FALSE)
    BY <1>10, <2>1, Constants DEF DiskFails, Leaves, Ends, Goes, Strikes, diskVars, cacheVars,
       dirtyVars, flushVars, history, TypeOK
  <2>2. CASE ~ Leaves(a, FALSE)
    BY <1>10, <2>2, Constants DEF DiskFails, Goes, Strikes, diskVars, cacheVars, dirtyVars,
       flushVars, history, TypeOK
  <2> QED BY <2>1, <2>2
<1>11. CASE a \in Tasks /\ Begin(a)
  BY <1>11, Constants DEF Begin, Goes, diskVars, cacheVars, dirtyVars, flushVars, history,
                          TypeOK
<1>12. CASE a \in Tasks /\ Apply(a)
  BY <1>12, Constants DEF Apply, Goes, diskVars, dirtyVars, flushVars, bounds, history, TypeOK
<1>13. CASE a \in Tasks /\ Mark(a)
  BY <1>13, Constants DEF Mark, Goes, diskVars, cacheVars, flushVars, bounds, history, TypeOK
<1>14. CASE a \in Tasks /\ StartWriter(a)
  BY <1>14, Constants DEF StartWriter, Ends, diskVars, cacheVars, dirtyVars, flushVars, bounds,
                          TypeOK
<1>15. CASE a \in Tasks /\ Cancel(a)
  BY <1>15, Constants DEF Cancel, Ends, Goes, Strikes, diskVars, cacheVars, dirtyVars,
                          flushVars, TypeOK
<1>16. CASE a \in Profiles /\ WriterWakes(a)
  BY <1>16, Constants DEF WriterWakes, Goes, diskVars, cacheVars, dirtyVars, flushVars, bounds,
                          history, TypeOK
<1>17. CASE a \in Profiles /\ WriterChecks(a)
  BY <1>17, Constants DEF WriterChecks, Goes, diskVars, cacheVars, dirtyVars, flushVars,
                          bounds, history, TypeOK
<1>18. CASE a = Main /\ Stop
  BY <1>18, Constants DEF Stop, Goes, diskVars, cacheVars, dirtyVars, flushVars, bounds,
                          history, TypeOK
<1>19. CASE a = Main /\ Collect
  BY <1>19, Constants DEF Collect, Goes, diskVars, cacheVars, dirtyVars, bounds, TypeOK
<1>20. CASE a = Main /\ FlushNext
  BY <1>20, Constants DEF FlushNext, Goes, diskVars, cacheVars, dirtyVars, bounds, history,
                          TypeOK
<1> QED BY <1>1, <1>2, <1>3, <1>4, <1>5, <1>6, <1>7, <1>8, <1>9, <1>10, <1>11, <1>12, <1>13,
           <1>14, <1>15, <1>16, <1>17, <1>18, <1>19, <1>20
           DEF ActsAs, Persists, Works, Writes

-------------------------------------------------------------------------------
(* Locks.                                                                  *)

\* Who leaves its profile frees the lock.
LEMMA LeavesLock ==
  ASSUME TypeOK, NEW a \in Actors, NEW fine \in BOOLEAN, Leaves(a, fine)
  PROVE  /\ pc'[a] \in {"idle", "next", "check", "sleep"}
         /\ lock'[on[a]] = IF lock[on[a]] = a THEN Nobody ELSE lock[on[a]]
         /\ on'[a] = Home(a)
<1>1. After(a, fine) \in {"idle", "next", "check", "sleep"}
  BY DEF After, Actors
<1> QED BY <1>1 DEF TypeOK, Leaves, Ends, Goes

\* Whoever has a lock is at a place inside of its profile.
LEMMA HoldersAreInside ==
  ASSUME TypeOK, LockInv, NEW a \in Actors, pc[a] \notin Inside
  PROVE  lock[on[a]] # a
BY Constants DEF TypeOK, LockInv

\* An actor enters a profile that is free, or stays inside, or is outside.
LEMMA OwnLock ==
  ASSUME TypeOK, LockInv, NEW a \in Actors, ActsAs(a)
  PROVE  /\ \/ /\ pc'[a] \in Inside /\ lock[on[a]] \in {Nobody, a}
               /\ lock'[on[a]] = a /\ on'[a] = on[a]
            \/ /\ pc'[a] \notin Inside
               /\ lock'[on[a]] = IF lock[on[a]] = a THEN Nobody ELSE lock[on[a]]
         /\ a \in Profiles => on'[a] = a
<1>1. CASE Enter(a)
  BY <1>1, Constants DEF Enter, Goes, diskVars, cacheVars, dirtyVars, flushVars, bounds,
                         history, After, Inside, Loading, Working, TypeOK, LockInv, Home
<1>2. CASE Load(a)
  BY <1>2, Constants DEF Load, Goes, cacheVars, dirtyVars, flushVars, bounds, history, After,
                         Inside, Loading, Working, TypeOK, LockInv, Home
<1>3. CASE Repair(a)
  BY <1>3, Constants DEF Repair, Goes, cacheVars, dirtyVars, flushVars, bounds, After, Inside,
                         Loading, Working, TypeOK, LockInv, Home
<1>4. CASE Gather(a)
  BY <1>4, Constants DEF Gather, Goes, diskVars, cacheVars, dirtyVars, flushVars, bounds,
                         history, After, Inside, Loading, Working, TypeOK, LockInv, Home
<1>5. CASE Insert(a)
  BY <1>5, Constants DEF Insert, Goes, diskVars, dirtyVars, flushVars, bounds, After, Inside,
                         Loading, Working, TypeOK, LockInv, Home
<1>6. CASE Take(a)
  <2>1. CASE Leaves(a, FALSE)
    BY <2>1, LeavesLock DEF Inside, Loading, Working, Home
  <2>2. CASE ~ Leaves(a, FALSE)
    <3>1. UNCHANGED <<lock, on>> /\ pc[a] = "take" /\ pc'[a] \in {"apply", "backup"}
      BY <1>6, <2>2 DEF Take, Goes, TypeOK
    <3> QED BY <3>1 DEF TypeOK, LockInv, Inside, Loading, Working
  <2> QED BY <2>1, <2>2
<1>7. CASE Backup(a)
  BY <1>7, Constants DEF Backup, Goes, cacheVars, dirtyVars, flushVars, bounds, history, After,
                         Inside, Loading, Working, TypeOK, LockInv, Home
<1>8. CASE Store(a)
  BY <1>8, Constants DEF Store, Goes, cacheVars, dirtyVars, flushVars, bounds, After, Inside,
                         Loading, Working, TypeOK, LockInv, Home
<1>9. CASE Record(a)
  BY <1>9, LeavesLock DEF Record, Inside, Loading, Working, Home
<1>10. CASE DiskFails(a)
  <2>1. CASE Leaves(a, FALSE)
    BY <2>1, LeavesLock DEF Inside, Loading, Working, Home
  <2>2. CASE ~ Leaves(a, FALSE)
    <3>1. UNCHANGED <<lock, on>> /\ pc[a] \in {"backup", "store"} /\ pc'[a] = "fail"
      BY <1>10, <2>2 DEF DiskFails, Goes, TypeOK
    <3> QED BY <3>1 DEF TypeOK, LockInv, Inside, Loading, Working
  <2> QED BY <2>1, <2>2
<1>11. CASE a \in Tasks /\ Begin(a)
  <2>1. UNCHANGED lock /\ pc[a] \notin Inside /\ pc'[a] = "enter"
    BY <1>11, Constants DEF Begin, Goes, TypeOK, Inside, Loading, Working
  <2> QED BY <1>11, <2>1, HoldersAreInside, Constants DEF LockInv, Inside, Loading, Working
<1>12. CASE a \in Tasks /\ Apply(a)
  BY <1>12, Constants DEF Apply, Goes, diskVars, dirtyVars, flushVars, bounds, history, After,
                          Inside, Loading, Working, TypeOK, LockInv, Home
<1>13. CASE a \in Tasks /\ Mark(a)
  BY <1>13, Constants DEF Mark, Goes, diskVars, cacheVars, flushVars, bounds, history, After,
                          Inside, Loading, Working, TypeOK, LockInv, Home
<1>14. CASE a \in Tasks /\ StartWriter(a)
  BY <1>14, Constants DEF StartWriter, Ends, diskVars, cacheVars, dirtyVars, flushVars, bounds,
                          After, Inside, Loading, Working, TypeOK, LockInv, Home
<1>15. CASE a \in Tasks /\ Cancel(a)
  BY <1>15, Constants DEF Cancel, Ends, Goes, Strikes, diskVars, cacheVars, dirtyVars,
                          flushVars, After, Inside, Loading, Working, TypeOK, LockInv, Home
<1>16. CASE a \in Profiles /\ WriterWakes(a)
  <2>1. UNCHANGED <<lock, on>> /\ pc[a] \notin Inside /\ pc'[a] = "enter"
    BY <1>16, Constants DEF WriterWakes, Goes, TypeOK, Inside, Loading, Working
  <2> QED BY <1>16, <2>1, HoldersAreInside, Constants DEF LockInv, Inside, Loading, Working
<1>17. CASE a \in Profiles /\ WriterChecks(a)
  <2>1. UNCHANGED <<lock, on>> /\ pc[a] \notin Inside /\ pc'[a] \in {"sleep", "off"}
    BY <1>17, Constants DEF WriterChecks, Goes, TypeOK, Inside, Loading, Working
  <2> QED BY <1>17, <2>1, HoldersAreInside, Constants DEF LockInv, Inside, Loading, Working
<1>18. CASE a = Main /\ Stop
  <2>1. UNCHANGED <<lock, on>> /\ pc[a] \notin Inside /\ pc'[a] = "flush"
    BY <1>18, Constants DEF Stop, Goes, TypeOK, Inside, Loading, Working
  <2> QED BY <1>18, <2>1, HoldersAreInside, Constants DEF LockInv, Inside, Loading, Working
<1>19. CASE a = Main /\ Collect
  <2>1. UNCHANGED <<lock, on>> /\ pc[a] \notin Inside /\ pc'[a] \in {"next", "exit"}
    BY <1>19, Constants DEF Collect, Goes, TypeOK, Inside, Loading, Working
  <2> QED BY <1>19, <2>1, HoldersAreInside, Constants DEF LockInv, Inside, Loading, Working
<1>20. CASE a = Main /\ FlushNext
  <2>1. UNCHANGED lock /\ pc[a] \notin Inside /\ pc'[a] \in {"enter", "flush"}
    BY <1>20, Constants DEF FlushNext, Goes, TypeOK, Inside, Loading, Working
  <2> QED BY <1>20, <2>1, HoldersAreInside, Constants DEF LockInv, Inside, Loading, Working
<1> QED BY <1>1, <1>2, <1>3, <1>4, <1>5, <1>6, <1>7, <1>8, <1>9, <1>10, <1>11, <1>12, <1>13,
           <1>14, <1>15, <1>16, <1>17, <1>18, <1>19, <1>20
           DEF ActsAs, Persists, Works, Writes

\* In a process that starts, nobody holds a lock.
LEMMA FreshLocks ==
  ASSUME Fresh
  PROVE  LockInv'
<1>1. \A a \in Actors : pc'[a] \in {"idle", "off"}
  BY DEF Fresh, Rest
<1>2. \A p \in Profiles : lock'[p] = Nobody /\ on'[p] = p
  BY Constants DEF Fresh, Home
<1> QED BY <1>1, <1>2 DEF LockInv, Inside, Loading, Working

\* Every step keeps it that a lock is held by one actor, and by who is inside.
LEMMA LocksKept ==
  ASSUME TypeOK, LockInv, [Next]_vars
  PROVE  LockInv'
<1>1. ASSUME NEW a \in Actors, ActsAs(a)
      PROVE  LockInv'
  <2>1. ASSUME NEW x \in Actors, pc'[x] \in Inside
        PROVE  lock'[on'[x]] = x
    <3>1. CASE x = a
      BY <1>1, <2>1, <3>1, OwnLock
    <3>2. CASE x # a
      <4>1. on'[x] = on[x] /\ pc[x] \in Inside /\ lock[on[x]] = x /\ on[x] \in Profiles
        BY <1>1, <2>1, <3>2, OthersKeepTheirs DEF TypeOK, LockInv, Inside, Loading, Working
      <4> QED
        BY <1>1, <3>2, <4>1, OwnLock, OthersKeepTheirProfiles, Constants
    <3> QED BY <3>1, <3>2
  <2>2. ASSUME NEW p \in Profiles, lock'[p] # Nobody
        PROVE  on'[lock'[p]] = p /\ pc'[lock'[p]] \in Inside
    <3> DEFINE x == lock'[p]
    <3>1. CASE x = a
      BY <1>1, <2>2, <3>1, OwnLock, OthersKeepTheirProfiles, Constants DEF LockInv
    <3>2. CASE x # a
      <4>1. lock[p] = x
        BY <1>1, <2>2, <3>2, OwnLock, OthersKeepTheirProfiles
      <4>2. x \in Actors /\ on[x] = p /\ pc[x] \in Inside
        BY <2>2, <4>1 DEF TypeOK, LockInv
      <4> QED
        BY <1>1, <3>2, <4>2, OthersKeepTheirs DEF Inside, Loading, Working
    <3> QED BY <3>1, <3>2
  <2>3. ASSUME NEW p \in Profiles
        PROVE  on'[p] = p
    BY <1>1, Constants, OwnLock, OthersKeepTheirs DEF LockInv
  <2> QED BY <2>1, <2>2, <2>3 DEF LockInv
<1>2. ASSUME NEW p \in Profiles, Damage(p) \/ Lands(p)
      PROVE  LockInv'
  BY <1>2 DEF Damage, Lands, LockInv
<1>3. CASE Exit \/ Crash
  BY <1>3, FreshLocks DEF Exit, Crash
<1>4. CASE UNCHANGED vars
  BY <1>4 DEF vars, LockInv
<1> QED BY <1>1, <1>2, <1>3, <1>4, StepsOfActors

-------------------------------------------------------------------------------
(* Names and marks.                                                        *)

\* Every step keeps what a place says of the profile and kind of its actor.
LEMMA NamesKept ==
  ASSUME TypeInv, [Next]_vars
  PROVE  NamesInv'
<1> USE DEF TypeInv
<1>1. ops' = ops \/ (ops < MaxOps /\ ops' = ops + 1)
  BY DEF Next, vars, Persists, Works, Writes, Flushes, Enter, Load, Repair, Gather, Insert, Take,
         Backup, Store, Record, Begin, Apply, Mark, StartWriter, WriterWakes, WriterChecks, Stop,
         Collect, FlushNext, Exit, Crash, DiskFails, Damage, Lands, Cancel, bounds
<1>2. ops' <= MaxOps
  BY <1>1, BoundsAssumption DEF NamesInv, TypeOK
<1>3. ASSUME NEW a \in Actors, ActsAs(a), NEW t \in Tasks, pc'[t] \in Naming
      PROVE  mark'[t] \in Updates
  <2>1. t \in Actors /\ t \notin Profiles /\ t # Main
    BY Constants
  <2>2. CASE t # a
    BY <1>3, <2>1, <2>2, OthersKeepTheirs DEF NamesInv, TypeOK
  <2>3. CASE t = a
    <3>1. CASE Begin(a)
      BY <2>1, <2>3, <3>1, BoundsAssumption DEF Begin, NamesInv, TypeOK, Updates
    <3>2. CASE ~ Begin(a)
      <4>1. pc[a] \in Naming /\ mark'[a] = mark[a]
        <5>1. ASSUME NEW fine \in BOOLEAN, Leaves(a, fine)
              PROVE  FALSE
          BY <1>3, <2>1, <2>3, <5>1, LeavesLock DEF Naming
        <5>2. ActsAs(a) => \/ Enter(a) \/ Load(a) \/ Repair(a) \/ Gather(a) \/ Insert(a) \/ Take(a)
                           \/ Backup(a) \/ Store(a) \/ Record(a) \/ DiskFails(a)
                           \/ Apply(a) \/ Mark(a) \/ StartWriter(a) \/ Cancel(a)
          BY <2>1, <2>3, <3>2 DEF ActsAs, Persists, Works
        <5>3. ~ Record(a)
          BY <5>1 DEF Record
        <5>4. CASE Take(a) \/ DiskFails(a)
          BY <1>3, <2>1, <2>3, <5>1, <5>4 DEF Take, DiskFails, Goes, Naming, TypeOK
        <5>5. CASE StartWriter(a) \/ Cancel(a)
          <6>1. on[a] # a
            BY <2>1, <2>3, Constants DEF TypeOK
          <6> QED
            BY <1>3, <2>1, <2>3, <5>5, <6>1 DEF StartWriter, Cancel, Goes, Naming, TypeOK
        <5>6. CASE Apply(a) \/ Mark(a) \/ Backup(a) \/ Store(a)
          BY <1>3, <2>1, <2>3, <5>6 DEF Apply, Mark, Backup, Store, Goes, Naming, TypeOK
        <5>7. CASE Enter(a) \/ Load(a) \/ Repair(a) \/ Gather(a) \/ Insert(a)
          BY <1>3, <2>1, <2>3, <5>7 DEF Enter, Load, Repair, Gather, Insert, Goes, Naming, TypeOK
        <5> QED
          BY <1>3, <2>3, <5>2, <5>3, <5>4, <5>5, <5>6, <5>7
      <4> QED BY <2>3, <4>1 DEF NamesInv
    <3> QED BY <3>1, <3>2
  <2> QED BY <2>2, <2>3
<1>4. ASSUME NEW t \in Tasks, pc'[t] \in Naming
      PROVE  mark'[t] \in Updates
  <2>1. CASE Exit \/ Crash
    <3>1. pc'[t] \in {"idle", "off"}
      BY <2>1, Constants DEF Exit, Crash, Fresh, Rest
    <3> QED BY <1>4, <3>1 DEF Naming
  <2>2. CASE UNCHANGED <<pc, mark>>
    BY <1>4, <2>2 DEF NamesInv
  <2>3. (\E p \in Profiles : Damage(p) \/ Lands(p)) \/ UNCHANGED vars => UNCHANGED <<pc, mark>>
    BY DEF Damage, Lands, vars
  <2> QED BY <1>3, <1>4, <2>1, <2>2, <2>3, StepsOfActors
<1> QED BY <1>2, <1>4 DEF NamesInv

\* Once it has left, an actor has no mark.
LEMMA LeavesMark ==
  ASSUME TypeOK, NEW a \in Actors, NEW fine, Leaves(a, fine)
  PROVE  mark'[a] = 0
BY DEF TypeOK, Leaves, Ends

\* The marks and revisions in an actor\'s hands stay in order by its own steps.
LEMMA OwnMarks ==
  ASSUME TypeOK, LockInv, MarksInv, NEW a \in Actors, ActsAs(a)
  PROVE  LET p == on[a] IN
         /\ revision[p] <= revision'[p] /\ persisted'[p] <= revision'[p]
         /\ pc[a] \notin Inside => revision'[p] = revision[p] /\ persisted'[p] = persisted[p]
         /\ a \notin Tasks => mark'[a] <= revision'[on'[a]]
         /\ a \in Tasks /\ pc'[a] \in Marked =>
              on'[a] = p /\ mark'[a] = revision'[p] /\ persisted'[p] < revision'[p]
         /\ \A e \in todo' : e[1] \in Profiles /\ e[2] <= revision'[e[1]]
<1>21. \A q \in Profiles :
         revision[q] \in Nat /\ persisted[q] \in Nat /\ persisted[q] <= revision[q]
  BY DEF TypeOK, MarksInv
<1>22. \A e \in todo : e[1] \in Profiles /\ e[2] \in Nat /\ e[2] <= revision[e[1]]
  BY DEF TypeOK, MarksInv
<1>23. on[a] \in Profiles /\ mark[a] \in Nat
  BY DEF TypeOK
<1>24. ASSUME NEW fine \in BOOLEAN, Leaves(a, fine)
       PROVE  mark'[a] = 0 /\ on'[a] \in Profiles /\ pc'[a] \notin Marked
  BY <1>24, LeavesMark, LeavesLock, HomeType DEF Marked
<1>1. CASE Enter(a)
  BY <1>1, Constants DEF Enter, Goes, diskVars, cacheVars, dirtyVars, flushVars, bounds,
                         history, MarksInv, Marked, TypeOK, Inside, Loading, Working
<1>2. CASE Load(a)
  BY <1>2, Constants DEF Load, Goes, cacheVars, dirtyVars, flushVars, bounds, history,
                         MarksInv, Marked, TypeOK, Inside, Loading, Working
<1>3. CASE Repair(a)
  BY <1>3, Constants DEF Repair, Goes, cacheVars, dirtyVars, flushVars, bounds, MarksInv,
                         Marked, TypeOK, Inside, Loading, Working
<1>4. CASE Gather(a)
  BY <1>4, Constants DEF Gather, Goes, diskVars, cacheVars, dirtyVars, flushVars, bounds,
                         history, MarksInv, Marked, TypeOK, Inside, Loading, Working
<1>5. CASE Insert(a)
  BY <1>5, Constants DEF Insert, Goes, diskVars, dirtyVars, flushVars, bounds, MarksInv,
                         Marked, TypeOK, Inside, Loading, Working
<1>6. CASE Take(a)
  <2>1. CASE Leaves(a, FALSE)
    <3>1. mark'[a] = 0 /\ on'[a] \in Profiles /\ pc'[a] \notin Marked
      BY <1>24, <2>1
    <3>2. UNCHANGED <<revision, persisted, todo>>
      BY <1>6 DEF Take, dirtyVars, flushVars
    <3> QED BY <1>21, <1>22, <1>23, <3>1, <3>2
  <2>2. CASE ~ Leaves(a, FALSE)
    <3>1. UNCHANGED <<on, mark, revision, persisted, todo>>
      BY <1>6, <2>2 DEF Take, dirtyVars, flushVars
    <3>2. pc[a] = "take" /\ pc'[a] \in {"apply", "backup"} /\ (a \in Tasks => pc'[a] = "apply")
      BY <1>6, <2>2 DEF Take, Goes, TypeOK
    <3> QED BY <1>21, <1>22, <1>23, <3>1, <3>2 DEF MarksInv, Marked
  <2> QED BY <2>1, <2>2
<1>7. CASE Backup(a)
  BY <1>7, Constants DEF Backup, Goes, cacheVars, dirtyVars, flushVars, bounds, history,
                         MarksInv, Marked, TypeOK, Inside, Loading, Working
<1>8. CASE Store(a)
  BY <1>8, Constants DEF Store, Goes, cacheVars, dirtyVars, flushVars, bounds, MarksInv,
                         Marked, TypeOK, Inside, Loading, Working
<1>9. CASE Record(a)
  <2> DEFINE now == Larger(persisted[on[a]], mark[a])
  <2>1. mark[a] <= revision[on[a]] /\ pc[a] \in Inside
    <3>1. CASE a \in Tasks
      BY <1>9, <1>21, <1>23, <3>1 DEF Record, MarksInv, Marked, Inside, Working
    <3>2. CASE a \notin Tasks
      BY <1>9, <3>2 DEF Record, MarksInv, Inside, Working
    <3> QED BY <3>1, <3>2
  <2>2. now \in Nat /\ now <= revision[on[a]]
    BY <1>21, <1>23, <2>1 DEF Larger
  <2>3. revision' = revision /\ persisted'[on[a]] = now /\ todo' = todo
    BY <1>9, <1>23 DEF Record, flushVars, TypeOK
  <2>4. mark'[a] = 0 /\ on'[a] \in Profiles /\ pc'[a] \notin Marked
    BY <1>9, <1>24 DEF Record
  <2> HIDE DEF now
  <2> QED
    BY <1>21, <1>22, <1>23, <2>1, <2>2, <2>3, <2>4
<1>10. CASE DiskFails(a)
  <2>1. CASE Leaves(a, FALSE)
    <3>1. mark'[a] = 0 /\ on'[a] \in Profiles /\ pc'[a] \notin Marked
      BY <1>24, <2>1
    <3>2. UNCHANGED <<revision, persisted, todo>>
      BY <1>10 DEF DiskFails, dirtyVars, flushVars
    <3> QED BY <1>21, <1>22, <1>23, <3>1, <3>2
  <2>2. CASE ~ Leaves(a, FALSE)
    <3>1. UNCHANGED <<on, mark, revision, persisted, todo>>
      BY <1>10, <2>2 DEF DiskFails, dirtyVars, flushVars
    <3>2. a \in Tasks /\ pc[a] \in {"backup", "store"} /\ pc'[a] = "fail"
      BY <1>10, <2>2 DEF DiskFails, Goes, TypeOK
    <3> QED BY <1>21, <1>22, <1>23, <3>1, <3>2 DEF MarksInv, Marked
  <2> QED BY <2>1, <2>2
<1>11. CASE a \in Tasks /\ Begin(a)
  BY <1>11, Constants DEF Begin, Goes, diskVars, cacheVars, dirtyVars, flushVars, history,
                          MarksInv, Marked, TypeOK, Inside, Loading, Working
<1>12. CASE a \in Tasks /\ Apply(a)
  BY <1>12, Constants DEF Apply, Goes, diskVars, dirtyVars, flushVars, bounds, history,
                          MarksInv, Marked, TypeOK, Inside, Loading, Working
<1>13. CASE a \in Tasks /\ Mark(a)
  BY <1>13, Constants DEF Mark, Goes, diskVars, cacheVars, flushVars, bounds, history,
                          MarksInv, Marked, TypeOK, Inside, Loading, Working
<1>14. CASE a \in Tasks /\ StartWriter(a)
  BY <1>14, Constants DEF StartWriter, Ends, diskVars, cacheVars, dirtyVars, flushVars, bounds,
                          MarksInv, Marked, TypeOK, Inside, Loading, Working
<1>15. CASE a \in Tasks /\ Cancel(a)
  BY <1>15, Constants DEF Cancel, Ends, Goes, Strikes, diskVars, cacheVars, dirtyVars,
                          flushVars, MarksInv, Marked, TypeOK, Inside, Loading, Working
<1>16. CASE a \in Profiles /\ WriterWakes(a)
  <2>1. mark'[a] = revision[a] /\ on[a] \in Profiles /\ a \notin Tasks
    BY <1>16, Constants DEF WriterWakes, TypeOK
  <2>2. UNCHANGED <<on, revision, persisted, todo>>
    BY <1>16 DEF WriterWakes, dirtyVars, flushVars
  <2> QED BY <1>16, <1>21, <1>22, <1>23, <2>1, <2>2 DEF LockInv
<1>17. CASE a \in Profiles /\ WriterChecks(a)
  BY <1>17, Constants DEF WriterChecks, Goes, diskVars, cacheVars, dirtyVars, flushVars,
                          bounds, history, MarksInv, Marked, TypeOK, Inside, Loading, Working
<1>18. CASE a = Main /\ Stop
  BY <1>18, Constants DEF Stop, Goes, diskVars, cacheVars, dirtyVars, flushVars, bounds,
                          history, MarksInv, Marked, TypeOK, Inside, Loading, Working
<1>19. CASE a = Main /\ Collect
  BY <1>19, Constants DEF Collect, Goes, diskVars, cacheVars, dirtyVars, bounds, MarksInv,
                          Marked, TypeOK, Inside, Loading, Working
<1>20. CASE a = Main /\ FlushNext
  BY <1>20, Constants DEF FlushNext, Goes, diskVars, cacheVars, dirtyVars, bounds, history,
                          MarksInv, Marked, TypeOK, Inside, Loading, Working
<1> QED BY <1>1, <1>2, <1>3, <1>4, <1>5, <1>6, <1>7, <1>8, <1>9, <1>10, <1>11, <1>12, <1>13,
           <1>14, <1>15, <1>16, <1>17, <1>18, <1>19, <1>20
           DEF ActsAs, Persists, Works, Writes

\* Every step keeps the marks and revisions in order.
LEMMA MarksKept ==
  ASSUME TypeOK, TypeOK', LockInv, MarksInv, [Next]_vars
  PROVE  MarksInv'
<1>1. ASSUME NEW a \in Actors, ActsAs(a)
      PROVE  MarksInv'
  <2>1. \A p \in Profiles : persisted'[p] <= revision'[p] /\ revision[p] <= revision'[p]
    <3> SUFFICES ASSUME NEW p \in Profiles
                 PROVE  persisted'[p] <= revision'[p] /\ revision[p] <= revision'[p]
      OBVIOUS
    <3>1. CASE p = on[a]
      BY <1>1, <3>1, OwnMarks
    <3>2. CASE p # on[a]
      BY <1>1, <3>2, OthersKeepTheirProfiles DEF MarksInv, TypeOK
    <3> QED BY <3>1, <3>2
  <2>2. ASSUME NEW x \in Actors \ Tasks
        PROVE  mark'[x] <= revision'[on'[x]]
    <3>1. CASE x = a
      BY <1>1, <3>1, OwnMarks
    <3>2. CASE x # a
      <4>1. mark'[x] = mark[x] /\ on'[x] = on[x] /\ mark[x] \in Nat /\ on[x] \in Profiles
        BY <1>1, <3>2, OthersKeepTheirs DEF TypeOK
      <4>2. revision[on[x]] \in Nat /\ revision'[on[x]] \in Nat
        BY <4>1 DEF TypeOK
      <4>3. mark[x] <= revision[on[x]]
        BY DEF MarksInv
      <4> QED BY <2>1, <4>1, <4>2, <4>3
    <3> QED BY <3>1, <3>2
  <2>3. ASSUME NEW t \in Tasks, pc'[t] \in Marked
        PROVE  mark'[t] = revision'[on'[t]] /\ persisted'[on'[t]] < revision'[on'[t]]
    <3>1. CASE t = a
      BY <1>1, <2>3, <3>1, OwnMarks
    <3>2. CASE t # a
      <4>1. /\ t \in Actors /\ on[t] \in Profiles /\ lock[on[t]] = t
            /\ pc[t] \in Marked /\ on'[t] = on[t] /\ mark'[t] = mark[t]
        BY <1>1, <2>3, <3>2, OthersKeepTheirs, Constants
           DEF TypeOK, LockInv, Marked, Inside, Working
      <4>2. revision'[on[t]] = revision[on[t]] /\ persisted'[on[t]] = persisted[on[t]]
        BY <1>1, <3>2, <4>1, OwnMarks, OthersKeepTheirProfiles DEF LockInv
      <4> QED BY <4>1, <4>2 DEF MarksInv
    <3> QED BY <3>1, <3>2
  <2> QED BY <1>1, <2>1, <2>2, <2>3, OwnMarks DEF MarksInv
<1>2. ASSUME NEW p \in Profiles, Damage(p) \/ Lands(p)
      PROVE  MarksInv'
  BY <1>2 DEF Damage, Lands, dirtyVars, flushVars, MarksInv
<1>3. CASE Exit \/ Crash
  <2>1. Fresh
    BY <1>3 DEF Exit, Crash
  <2>2. /\ \A p \in Profiles : persisted'[p] = 0 /\ revision'[p] = 0
        /\ \A a \in Actors : mark'[a] = 0 /\ pc'[a] \in {"idle", "off"} /\ on'[a] \in Profiles
        /\ todo' = {}
    BY <2>1, HomeType DEF Fresh, Rest
  <2> QED BY <2>2, Constants DEF MarksInv, Marked
<1>4. CASE UNCHANGED vars
  BY <1>4 DEF vars, MarksInv
<1> QED BY <1>1, <1>2, <1>3, <1>4, StepsOfActors

-------------------------------------------------------------------------------
(* What is in an actor's hands.                                            *)

\* Who is outside of its profile touches nothing of any.
LEMMA OutsidersTouchNothing ==
  ASSUME TypeOK, NEW a \in Actors, ActsAs(a), pc[a] \notin Inside
  PROVE  UNCHANGED <<file, bak, cache, capacity, revision, persisted, stored, told, stranded,
                     slipped, hurt>>
BY DEF ActsAs, Persists, Works, Writes, Enter, Load, Repair, Gather, Insert, Take,
       Backup, Store, Record, Begin, Apply, Mark, StartWriter, WriterWakes, WriterChecks, Stop,
       Collect, FlushNext, DiskFails, Cancel, Inside, Loading, Working, diskVars, cacheVars,
       dirtyVars, history

\* No step but the start of a process forgets who slipped or resizes the cache.
LEMMA SlipsRemain ==
  ASSUME TypeOK, NEW a \in Actors, ActsAs(a)
  PROVE  slipped \subseteq slipped' /\ capacity' = capacity
BY DEF ActsAs, Persists, Works, Writes, Enter, Load, Repair, Gather, Insert, Take,
       Backup, Store, Record, Begin, Apply, Mark, StartWriter, WriterWakes, WriterChecks, Stop,
       Collect, FlushNext, DiskFails, Cancel, cacheVars, history

\* An eviction needs more profiles than the cache has room for.
LEMMA Evictions ==
  ASSUME TypeOK, CellInv, NEW a \in Actors, Insert(a),
         NEW q \in Profiles, q # on[a], cache'[q] # cache[q]
  PROVE  /\ cache[q] # Absent /\ cache'[q] = Absent /\ Crowds
         /\ Dirty(q) \/ InUse(q) => q \in slipped'
<1>1. PICK out \in IF Cardinality(Cached) < capacity \/ Victims(a) = {}
                   THEN {{}} ELSE {{v} : v \in Victims(a)} :
        /\ cache' = [p \in Profiles |-> CASE p = on[a] -> cell[a]
                                          [] p \in out -> Absent
                                          [] OTHER     -> cache[p]]
        /\ slipped' = slipped \cup {p \in out \ seen[a] : Dirty(p) \/ InUse(p)}
  BY DEF Insert
<1>2. q \in out /\ cache'[q] = Absent
  BY <1>1
<1>3. ~ (Cardinality(Cached) < capacity) /\ q \in Victims(a)
  BY <1>1, <1>2
<1>4. q \notin seen[a] /\ cache[q] # Absent
  BY <1>3 DEF Victims, Cached
<1>5. Cached \subseteq Profiles /\ on[a] \in Profiles /\ on[a] \notin Cached
  BY DEF Cached, Insert, CellInv, Hands, Loading, TypeOK
<1>6. Cardinality(Cached) < Cardinality(Profiles)
  <2>1. IsFiniteSet(Profiles) /\ IsFiniteSet(Cached)
    BY <1>5, ActorsAssumption, FS_Subset
  <2>2. Cardinality(Cached) <= Cardinality(Profiles)
        /\ (Cardinality(Cached) = Cardinality(Profiles) => Cached = Profiles)
    BY <1>5, <2>1, FS_Subset
  <2>3. Cardinality(Cached) \in Nat /\ Cardinality(Profiles) \in Nat
    BY <2>1, FS_CardinalityType
  <2> QED BY <1>5, <2>2, <2>3
<1>7. Cardinality(Cached) \in Nat /\ Cardinality(Profiles) \in Nat /\ capacity \in Nat
  BY <1>5, ActorsAssumption, BoundsAssumption, FS_Subset, FS_CardinalityType DEF TypeOK
<1> QED BY <1>1, <1>2, <1>3, <1>4, <1>6, <1>7 DEF Crowds

\* Of a profile that another holds, an actor changes no more than that it may
\* evict it from the cache.
LEMMA HeldByAnother ==
  ASSUME TypeOK, LockInv, CellInv, NEW a \in Actors, ActsAs(a),
         NEW x \in Actors, x # a, pc[x] \in Inside
  PROVE  LET q == on[x] IN
         /\ file'[q] = file[q] /\ bak'[q] = bak[q] /\ told'[q] = told[q]
         /\ (q \in hurt' <=> q \in hurt)
         /\ \/ cache'[q] = cache[q]
            \/ /\ cache'[q] = Absent /\ Crowds
               /\ Dirty(q) \/ InUse(q) => q \in slipped'
<1> DEFINE q == on[x]
<1>1. q \in Profiles /\ lock[q] = x
  BY DEF TypeOK, LockInv
<1>2. CASE pc[a] \notin Inside
  BY <1>2, OutsidersTouchNothing
<1>3. CASE pc[a] \in Inside
  <2>1. q # on[a]
    BY <1>1, <1>3 DEF LockInv
  <2>2. CASE ~ Insert(a)
    BY <1>1, <2>1, <2>2, OthersKeepTheirProfiles
  <2>3. CASE Insert(a)
    BY <1>1, <2>1, <2>3, OthersKeepTheirProfiles, Evictions
  <2> QED BY <2>2, <2>3
<1> QED BY <1>2, <1>3

\* What a restart would find, by the state of the file.
LEMMA StoredByFile ==
  ASSUME NEW p \in Profiles
  PROVE  /\ file[p] \notin Unreadable => Stored(p) = file[p]
         /\ file[p] = Missing => Stored(p) = {}
         /\ file[p] = Corrupt => Stored(p) = IF bak[p] \in Unreadable THEN {} ELSE bak[p]
         /\ file'[p] \notin Unreadable => Stored(p)' = file'[p]
         /\ file'[p] = Missing => Stored(p)' = {}
         /\ file'[p] = Corrupt => Stored(p)' = IF bak'[p] \in Unreadable THEN {} ELSE bak'[p]
BY ContentAssumption DEF Stored, Unreadable

\* A rename that outlived its request brings nothing but what readers see, or the
\* profile counts as hurt; what readers see changes with the file or not at all.
LEMMA Landing ==
  ASSUME TypeOK, NEW p \in Profiles, Lands(p)
  PROVE  /\ UNCHANGED <<cache, capacity, lock, revision, persisted, pc, on, cell, stranded,
                        slipped>>
         /\ Visible(p)' \in {Visible(p), Stored(p)'}
         /\ file'[p] = Corrupt => file[p] = Corrupt
         /\ \A q \in Profiles \ {p} : file'[q] = file[q] /\ bak'[q] = bak[q]
         /\ \/ /\ UNCHANGED <<stored, told, kept, hurt>>
               /\ Stored(p) \subseteq Stored(p)' /\ Stored(p)' \subseteq Visible(p) \cup Stored(p)
               /\ Visible(p)' = Visible(p)
            \/ Hurts(p)
<1>1. UNCHANGED <<cache, capacity, lock, revision, persisted, pc, on, cell, stranded, slipped>>
  BY DEF Lands, cacheVars, dirtyVars
<1>2. \/ Visible(p)' = Visible(p)
      \/ Visible(p)' = Stored(p)' /\ Visible(p) = Stored(p)
  BY <1>1 DEF Visible
<1>3. file'[p] = Corrupt => file[p] = Corrupt
  <2>1. CASE UNCHANGED file
    BY <2>1
  <2>2. CASE ~ UNCHANGED file
    <3>1. PICK c \in late[p] : file' = [file EXCEPT ![p] = c]
      BY <2>2 DEF Lands
    <3>2. c \in (SUBSET Updates) \cup {Missing} /\ file'[p] = c
      BY <3>1 DEF TypeOK
    <3> QED BY <3>2, ContentAssumption DEF Unreadable
  <2> QED BY <2>1, <2>2
<1>4. \A q \in Profiles \ {p} : file'[q] = file[q] /\ bak'[q] = bak[q]
  BY DEF Lands, TypeOK
<1>5. \/ /\ UNCHANGED <<stored, told, kept, hurt>>
         /\ Stored(p) \subseteq Stored(p)' /\ Stored(p)' \subseteq Visible(p) \cup Stored(p)
      \/ Hurts(p)
  BY DEF Lands
<1>6. ASSUME Stored(p) \subseteq Stored(p)', Stored(p)' \subseteq Visible(p) \cup Stored(p)
      PROVE  Visible(p)' = Visible(p)
  <2>1. CASE Visible(p)' = Stored(p)' /\ Visible(p) = Stored(p)
    <3>1. Stored(p)' = Stored(p)
      BY <1>6, <2>1
    <3> QED BY <2>1, <3>1
  <2> QED BY <1>2, <2>1
<1> QED
  <2>1. Visible(p)' \in {Visible(p), Stored(p)'}
    BY <1>2
  <2> QED BY <1>1, <1>3, <1>4, <1>5, <1>6, <2>1

\* What a step puts in its actor\'s hands comes from the cache, the file or the request.
LEMMA OwnHands ==
  ASSUME TypeInv, TypeOK', CellInv, HurtInv, NEW a \in Actors, ActsAs(a), pc'[a] \in Inside
  PROVE  Hands(a)'
<1> USE DEF TypeInv
<1>21. on[a] \in Profiles /\ Hands(a) /\ cell[a] \in SUBSET Updates
  BY DEF CellInv, TypeOK
<1>22. \A S \in SUBSET Updates : S \notin Unreadable /\ S # Absent
  BY ContentAssumption
<1>23. ASSUME NEW fine \in BOOLEAN, Leaves(a, fine)
       PROVE  FALSE
  BY <1>23, LeavesLock DEF Inside, Loading, Working
<1>1. CASE Enter(a)
  BY <1>1, <1>21, <1>22, Constants DEF Enter, Goes, diskVars, cacheVars, dirtyVars, flushVars,
                                       bounds, history, Hands, Loading, Working, Inside,
                                       Crowds, TypeOK
<1>2. CASE Load(a)
  <2>1. cache'[on[a]] = Absent /\ on' = on /\ hurt' = hurt /\ bak' = bak
    BY <1>2, <1>21 DEF Load, Hands, cacheVars, history
  <2>2. CASE file[on[a]] # Corrupt
    <3>1. /\ pc'[a] = "gather" /\ file' = file
          /\ cell'[a] = IF file[on[a]] = Missing THEN {} ELSE file[on[a]]
      BY <1>2, <2>2 DEF Load, Goes, TypeOK
    <3>2. cell'[a] = Stored(on[a])'
      BY <1>21, <2>1, <2>2, <3>1, StoredByFile DEF Unreadable
    <3> QED BY <2>1, <3>1, <3>2 DEF Hands, Working
  <2>3. CASE file[on[a]] = Corrupt
    <3>1. pc'[a] = "repair"
      BY <1>2, <1>21, <2>3 DEF Load, Goes, TypeOK
    <3> QED BY <1>21, <2>1, <2>3, <3>1 DEF Hands, HurtInv, Working
  <2> QED BY <2>2, <2>3
<1>3. CASE Repair(a)
  <2>1. cache'[on[a]] = Absent /\ on' = on /\ cell'[a] = cell[a] /\ pc'[a] = "gather"
    BY <1>3, <1>21 DEF Repair, Hands, Loading, Goes, cacheVars, TypeOK
  <2>2. Stored(on[a])' = cell[a]
    BY <1>3, <1>21, <1>22, StoredByFile DEF Repair, TypeOK
  <2> QED BY <2>1, <2>2 DEF Hands, Working
<1>4. CASE Gather(a)
  <2>1. cache'[on[a]] = Absent /\ on' = on /\ cell'[a] = cell[a] /\ pc'[a] = "insert"
    BY <1>4, <1>21 DEF Gather, Hands, Loading, Goes, cacheVars, TypeOK
  <2>2. UNCHANGED <<file, bak, hurt>>
    BY <1>4 DEF Gather, diskVars, history
  <2> QED BY <1>4, <1>21, <2>1, <2>2 DEF Gather, Hands, Working, Stored
<1>5. CASE Insert(a)
  BY <1>5, <1>21, <1>22, Constants DEF Insert, Goes, diskVars, dirtyVars, flushVars, bounds,
                                       Hands, Loading, Working, Inside, Crowds, TypeOK
<1>6. CASE Take(a)
  <2>1. CASE Leaves(a, FALSE)
    BY <1>23, <2>1
  <2>2. CASE ~ Leaves(a, FALSE)
    <3>1. /\ UNCHANGED <<on, cache>> /\ cell'[a] = cache[on[a]] /\ pc'[a] \in {"apply", "backup"}
      BY <1>6, <1>21, <2>2 DEF Take, Goes, cacheVars, TypeOK
    <3> QED BY <3>1 DEF Hands, Loading, Working
  <2> QED BY <2>1, <2>2
<1>7. CASE Backup(a)
  BY <1>7, <1>21, <1>22, Constants DEF Backup, Goes, cacheVars, dirtyVars, flushVars, bounds,
                                       history, Hands, Loading, Working, Inside, Crowds, TypeOK
<1>8. CASE Store(a)
  <2>1. /\ UNCHANGED <<on, cache, capacity, slipped>> /\ cell'[a] = cell[a]
        /\ pc[a] = "store" /\ pc'[a] = "record"
    BY <1>8, <1>21 DEF Store, Goes, cacheVars, TypeOK
  <2>2. Stored(on[a])' = cell[a]
    BY <1>8, <1>21, <1>22, StoredByFile DEF Store, TypeOK
  <2>3. on[a] \notin hurt'
    BY <1>8, <1>21 DEF Store
  <2> QED BY <1>21, <2>1, <2>2, <2>3 DEF Hands, Loading, Working, Crowds
<1>9. CASE Record(a)
  BY <1>9, <1>23 DEF Record
<1>10. CASE DiskFails(a)
  <2>1. CASE Leaves(a, FALSE)
    BY <1>23, <2>1
  <2>2. CASE ~ Leaves(a, FALSE)
    <3>1. /\ UNCHANGED <<on, cache, cell, slipped, capacity>> /\ pc[a] \in Working
          /\ pc'[a] = "fail"
      BY <1>10, <1>21, <2>2 DEF DiskFails, Goes, cacheVars, history, Working, TypeOK
    <3> QED BY <1>21, <3>1 DEF Hands, Loading, Working, Crowds
  <2> QED BY <2>1, <2>2
<1>11. CASE a \in Tasks /\ Begin(a)
  BY <1>11, <1>21, <1>22, Constants DEF Begin, Goes, diskVars, cacheVars, dirtyVars, flushVars,
                                        history, Hands, Loading, Working, Inside, Crowds,
                                        TypeOK
<1>12. CASE a \in Tasks /\ Apply(a)
  <2>1. /\ pc[a] = "apply" /\ pc'[a] \in {"mark", "schedule"}
        /\ UNCHANGED <<on, capacity, slipped>>
    BY <1>12 DEF Apply, Goes, history, TypeOK
  <2>2. PICK made :
          /\ cell' = [cell EXCEPT ![a] = made]
          /\ cache' = [cache EXCEPT ![on[a]] = IF @ = Absent THEN Absent ELSE made]
    BY <1>12 DEF Apply
  <2>3. cell'[a] = made /\ cache'[on[a]] = IF cache[on[a]] = Absent THEN Absent ELSE made
    BY <1>21, <2>2 DEF TypeOK
  <2>4. cache[on[a]] = Absent => on[a] \in slipped /\ Crowds
    BY <1>21, <1>22, <2>1 DEF Hands, Working
  <2> QED BY <2>1, <2>3, <2>4 DEF Hands, Loading, Working, Crowds
<1>13. CASE a \in Tasks /\ Mark(a)
  BY <1>13, <1>21, <1>22, Constants DEF Mark, Goes, diskVars, cacheVars, flushVars, bounds,
                                        history, Hands, Loading, Working, Inside, Crowds,
                                        TypeOK
<1>14. CASE a \in Tasks /\ StartWriter(a)
  BY <1>14, <1>21, <1>22, Constants DEF StartWriter, Ends, diskVars, cacheVars, dirtyVars,
                                        flushVars, bounds, Hands, Loading, Working, Inside,
                                        Crowds, TypeOK
<1>15. CASE a \in Tasks /\ Cancel(a)
  BY <1>15, <1>21, <1>22, Constants DEF Cancel, Ends, Goes, Strikes, diskVars, cacheVars,
                                        dirtyVars, flushVars, Hands, Loading, Working, Inside,
                                        Crowds, TypeOK
<1>16. CASE a \in Profiles /\ WriterWakes(a)
  BY <1>16, <1>21, <1>22, Constants DEF WriterWakes, Goes, diskVars, cacheVars, dirtyVars,
                                        flushVars, bounds, history, Hands, Loading, Working,
                                        Inside, Crowds, TypeOK
<1>17. CASE a \in Profiles /\ WriterChecks(a)
  BY <1>17, <1>21, <1>22, Constants DEF WriterChecks, Goes, diskVars, cacheVars, dirtyVars,
                                        flushVars, bounds, history, Hands, Loading, Working,
                                        Inside, Crowds, TypeOK
<1>18. CASE a = Main /\ Stop
  BY <1>18, <1>21, <1>22, Constants DEF Stop, Goes, diskVars, cacheVars, dirtyVars, flushVars,
                                        bounds, history, Hands, Loading, Working, Inside,
                                        Crowds, TypeOK
<1>19. CASE a = Main /\ Collect
  BY <1>19, <1>21, <1>22, Constants DEF Collect, Goes, diskVars, cacheVars, dirtyVars, bounds,
                                        Hands, Loading, Working, Inside, Crowds, TypeOK
<1>20. CASE a = Main /\ FlushNext
  BY <1>20, <1>21, <1>22, Constants DEF FlushNext, Goes, diskVars, cacheVars, dirtyVars,
                                        bounds, history, Hands, Loading, Working, Inside,
                                        Crowds, TypeOK
<1> QED BY <1>1, <1>2, <1>3, <1>4, <1>5, <1>6, <1>7, <1>8, <1>9, <1>10, <1>11, <1>12, <1>13,
           <1>14, <1>15, <1>16, <1>17, <1>18, <1>19, <1>20
           DEF ActsAs, Persists, Works, Writes

\* Every step keeps it that the holder has what the cache has of its profile.
LEMMA CellKept ==
  ASSUME TypeInv, TypeOK', LockInv, CellInv, HurtInv, [Next]_vars
  PROVE  CellInv'
<1> USE DEF TypeInv
<1> SUFFICES ASSUME NEW x \in Actors
             PROVE  Hands(x)'
  BY DEF CellInv
<1>1. ASSUME NEW a \in Actors, ActsAs(a)
      PROVE  Hands(x)'
  <2>1. CASE pc'[x] \notin Inside
    BY <2>1 DEF Hands, Inside, Loading, Working
  <2>2. CASE x = a /\ pc'[x] \in Inside
    BY <1>1, <2>2, OwnHands
  <2>3. CASE x # a /\ pc'[x] \in Inside
    <3>1. pc'[x] = pc[x] /\ on'[x] = on[x] /\ cell'[x] = cell[x] /\ pc[x] \in Inside
      BY <1>1, <2>3, OthersKeepTheirs DEF Inside, Loading, Working
    <3>2. Hands(x) /\ (pc[x] \in Working => InUse(on[x]))
      BY <3>1, Constants DEF CellInv, InUse, LockInv
    <3>3. slipped \subseteq slipped' /\ capacity' = capacity
      BY <1>1, SlipsRemain
    <3> QED
      BY <1>1, <2>3, <3>1, <3>2, <3>3, HeldByAnother DEF Hands, Crowds, Stored
  <2> QED BY <2>1, <2>2, <2>3
<1>2. ASSUME NEW p \in Profiles, Damage(p)
      PROVE  Hands(x)'
  <2>1. UNCHANGED <<bak, cache, capacity, pc, on, cell, slipped>>
    BY <1>2 DEF Damage, cacheVars
  <2>2. CASE p = on[x]
    BY <1>2, <2>1, <2>2 DEF CellInv, Hands, Damage, Hurts, Crowds, Unreadable, TypeOK
  <2>3. CASE p # on[x]
    <3>1. file'[on[x]] = file[on[x]] /\ told'[on[x]] = told[on[x]] /\ (on[x] \in hurt' <=> on[x] \in hurt)
      BY <1>2, <2>3 DEF Damage, Hurts, TypeOK
    <3> QED BY <2>1, <3>1 DEF CellInv, Hands, Crowds, Stored
  <2> QED BY <2>2, <2>3
<1>5. ASSUME NEW p \in Profiles, Lands(p)
      PROVE  Hands(x)'
  <2>1. UNCHANGED <<cache, capacity, lock, pc, on, cell, slipped>>
    BY <1>5, Landing
  <2>2. CASE p = on[x] /\ Hurts(p)
    <3>1. p \in hurt' /\ told'[p] = {}
      BY <2>2 DEF Hurts, TypeOK
    <3> QED BY <2>1, <2>2, <3>1 DEF CellInv, Hands, Crowds
  <2>3. CASE p = on[x] /\ ~ Hurts(p)
    <3>1. /\ UNCHANGED <<told, hurt>> /\ Stored(p) \subseteq Stored(p)'
          /\ Stored(p)' \subseteq Visible(p) \cup Stored(p)
      BY <1>5, <2>3, Landing
    <3>2. InHands(x) => Visible(p) = cell[x]
      <4>1. InHands(x) => lock[p] = x /\ x # Nobody
        BY <2>3, Constants DEF InHands, LockInv, Inside
      <4> QED BY <4>1 DEF InHands, Visible
    <3>3. InHands(x) /\ Stored(p) = cell[x] => Stored(p)' = cell[x]
      BY <3>1, <3>2
    <3>4. Hands(x)
      BY DEF CellInv
    <3> HIDE DEF TypeInv
    <3>5. pc[x] = "record" /\ p \notin hurt => Stored(p)' = cell[x]
      BY <2>3, <3>3, <3>4 DEF Hands, InHands, Working
    <3>6. pc[x] \in {"gather", "insert"} /\ p \notin hurt => Stored(p)' = cell[x]
      BY <2>3, <3>3, <3>4 DEF Hands, InHands, Loading
    <3> QED BY <2>1, <2>3, <3>1, <3>4, <3>5, <3>6 DEF Hands, Crowds
  <2>4. CASE p # on[x]
    <3>1. file'[on[x]] = file[on[x]] /\ bak'[on[x]] = bak[on[x]]
      BY <1>5, <2>4, Landing DEF TypeOK
    <3>2. told'[on[x]] = told[on[x]] /\ (on[x] \in hurt' <=> on[x] \in hurt)
      BY <1>5, <2>4, Landing DEF Hurts, TypeOK
    <3> QED BY <2>1, <3>1, <3>2 DEF CellInv, Hands, Crowds, Stored
  <2> QED BY <2>2, <2>3, <2>4
<1>3. CASE Exit \/ Crash
  <2>1. pc'[x] \in {"idle", "off"}
    BY <1>3 DEF Exit, Crash, Fresh, Rest
  <2> QED BY <2>1 DEF Hands, Loading, Working
<1>4. CASE UNCHANGED vars
  BY <1>4 DEF vars, CellInv, Hands, Crowds, Stored
<1> QED BY <1>1, <1>2, <1>3, <1>4, <1>5, StepsOfActors

\* Every step keeps a damaged profile known as one.
LEMMA HurtKept ==
  ASSUME TypeOK, TypeOK', HurtInv, [Next]_vars
  PROVE  HurtInv'
<1> SUFFICES ASSUME NEW q \in Profiles, file'[q] = Corrupt
             PROVE  q \in hurt'
  BY DEF HurtInv
<1>1. ASSUME NEW a \in Actors, ActsAs(a)
      PROVE  q \in hurt'
  <2>1. file'[q] = file[q] => q \in hurt
    BY DEF HurtInv
  <2>2. CASE Repair(a) \/ Store(a)
    <3>1. cell[a] # Corrupt /\ on[a] \in Profiles
      BY ContentAssumption DEF TypeOK, Unreadable
    <3> QED BY <2>1, <2>2, <3>1 DEF Repair, Store, TypeOK
  <2>3. CASE ~ (Repair(a) \/ Store(a))
    <3>1. file'[q] # Corrupt \/ file'[q] = file[q]
      <4>1. CASE Load(a)
        BY <4>1, ContentAssumption DEF Load, TypeOK
      <4>2. CASE ~ Load(a)
        BY <1>1, <2>3, <4>2
           DEF ActsAs, Persists, Works, Writes, Enter, Gather, Insert, Take, Backup, Record, Begin,
               Apply, Mark, StartWriter, WriterWakes, WriterChecks, Stop, Collect, FlushNext,
               DiskFails, Cancel, diskVars
      <4> QED BY <4>1, <4>2
    <3>2. hurt' = hurt
      BY <1>1, <2>3
         DEF ActsAs, Persists, Works, Writes, Enter, Load, Gather, Insert, Take, Backup, Record,
             Begin, Apply, Mark, StartWriter, WriterWakes, WriterChecks, Stop, Collect, FlushNext,
             DiskFails, Cancel, history
    <3> QED BY <2>1, <3>1, <3>2
  <2> QED BY <2>2, <2>3
<1>2. ASSUME NEW p \in Profiles, Damage(p)
      PROVE  q \in hurt'
  BY <1>2 DEF Damage, Hurts, HurtInv, TypeOK
<1>4. ASSUME NEW p \in Profiles, Lands(p)
      PROVE  q \in hurt'
  <2>1. file[q] = Corrupt
    BY <1>4, Landing
  <2> QED BY <1>4, <2>1, Landing DEF HurtInv, Hurts
<1>3. CASE Exit \/ Crash \/ UNCHANGED vars
  BY <1>3 DEF Exit, Crash, vars, HurtInv
<1> QED BY <1>1, <1>2, <1>3, <1>4, StepsOfActors

-------------------------------------------------------------------------------
(* What a step does to what readers see and what a restart would find.     *)

\* What readers see of a profile that nobody has in its hands.
Resting(p) == IF cache[p] # Absent THEN cache[p] ELSE Stored(p)

\* Of a profile that is held, readers see the cell in the holder\'s hands.
LEMMA ViewOfHolder ==
  ASSUME TypeOK, LockInv, NEW a \in Actors, pc[a] \in Inside
  PROVE  Visible(on[a]) = IF InHands(a) THEN cell[a] ELSE Resting(on[a])
BY Constants DEF LockInv, Visible, InHands, Resting

\* And so they do after the step.
LEMMA NextViewOfHolder ==
  ASSUME TypeOK', LockInv', NEW a \in Actors, pc'[a] \in Inside, on'[a] = on[a]
  PROVE  \A p \in Profiles : p = on[a] =>
           Visible(p)' = IF InHands(a)' THEN cell'[a] ELSE Resting(p)'
BY Constants DEF LockInv, Visible, InHands, Resting

\* Of a profile nobody holds, readers see the cache, or what a load would find.
LEMMA ViewOfFree ==
  ASSUME NEW p \in Profiles
  PROVE  /\ lock[p] = Nobody => Visible(p) = Resting(p)
         /\ lock'[p] = Nobody => Visible(p)' = Resting(p)'
BY DEF Visible, Resting

\* Of the profiles it is not on, an actor can only evict one.
LEMMA ViewsElsewhere ==
  ASSUME TypeOK, LockInv, CellInv, NEW a \in Actors, ActsAs(a), NEW q \in Profiles, q # on[a]
  PROVE  /\ Stored(q)' = Stored(q)
         /\ \/ Visible(q)' = Visible(q) /\ cache'[q] = cache[q]
            \/ /\ Insert(a) /\ Crowds /\ cache'[q] = Absent /\ cache[q] # Absent
               /\ Visible(q)' \in {Visible(q), Stored(q)}
               /\ Dirty(q) \/ InUse(q) => q \in slipped'
<1> DEFINE y == lock[q]
<1>1. /\ file'[q] = file[q] /\ bak'[q] = bak[q] /\ lock'[q] = lock[q]
  BY OthersKeepTheirProfiles
<1>2. Stored(q)' = Stored(q)
  BY <1>1 DEF Stored
<1>3. y # Nobody => y \in Actors /\ pc'[y] = pc[y] /\ cell'[y] = cell[y]
  <2> SUFFICES ASSUME y # Nobody
               PROVE  y \in Actors /\ pc'[y] = pc[y] /\ cell'[y] = cell[y]
    OBVIOUS
  <2>1. y \in Actors /\ on[y] = q /\ pc[y] \in Inside
    BY DEF TypeOK, LockInv
  <2> QED BY <2>1, OthersKeepTheirs DEF Inside, Loading, Working
<1>4. CASE cache'[q] = cache[q]
  BY <1>1, <1>2, <1>3, <1>4 DEF Visible
<1>5. CASE cache'[q] # cache[q]
  <2>1. Insert(a)
    BY <1>5, OthersKeepTheirProfiles
  <2>2. /\ cache'[q] = Absent /\ cache[q] # Absent /\ Crowds
        /\ Dirty(q) \/ InUse(q) => q \in slipped'
    BY <1>5, <2>1, Evictions
  <2>3. Visible(q)' \in {Visible(q), Stored(q)}
    BY <1>1, <1>2, <1>3, <2>2 DEF Visible
  <2> QED BY <1>2, <2>1, <2>2, <2>3
<1> QED BY <1>4, <1>5

\* Who is outside of its profile changes nothing that can be seen of it.
LEMMA ViewOfOutsider ==
  ASSUME TypeOK, TypeOK', LockInv, LockInv', NEW a \in Actors, ActsAs(a), pc[a] \notin Inside
  PROVE  \A p \in Profiles : p = on[a] => Visible(p)' = Visible(p) /\ Stored(p)' = Stored(p)
<1> SUFFICES ASSUME NEW p \in Profiles, p = on[a]
             PROVE  Visible(p)' = Visible(p) /\ Stored(p)' = Stored(p)
  OBVIOUS
<1>1. UNCHANGED <<file, bak, cache>>
  BY OutsidersTouchNothing
<1>2. Stored(p)' = Stored(p) /\ Resting(p)' = Resting(p)
  BY <1>1 DEF Stored, Resting
<1>3. lock[p] # a
  BY HoldersAreInside
<1>4. CASE pc'[a] \in Inside
  <2>1. lock[p] = Nobody /\ Enter(a)
    <3>1. \/ Enter(a)
          \/ a \in Tasks /\ (Begin(a) \/ Cancel(a))
          \/ a \in Profiles /\ (WriterWakes(a) \/ WriterChecks(a))
          \/ a = Main /\ (Stop \/ Collect \/ FlushNext)
      <4>1. Persists(a) => Enter(a)
        BY DEF Persists, Load, Repair, Gather, Insert, Take, Backup, Store, Record, Inside,
               Loading, Working
      <4>2. ~ Works(a) /\ ~ DiskFails(a)
        BY DEF Works, Apply, Mark, StartWriter, DiskFails, Inside, Loading, Working
      <4> QED BY <4>1, <4>2 DEF ActsAs, Writes
    <3>2. CASE ~ Enter(a)
      <4>1. pc'[a] \in {"enter", "idle", "sleep", "off", "flush", "next", "exit"}
        BY <3>1, <3>2 DEF Begin, Cancel, WriterWakes, WriterChecks, Stop, Collect, FlushNext,
                          Goes, TypeOK
      <4> QED BY <1>4, <4>1 DEF Inside, Loading, Working
    <3> QED BY <1>3, <1>4, <3>2, OwnLock
  <2>2. ~ InHands(a)' /\ on'[a] = on[a]
    BY <2>1 DEF Enter, Goes, InHands, Loading, Working, TypeOK
  <2> QED BY <1>2, <1>4, <2>1, <2>2, ViewOfFree, NextViewOfHolder
<1>5. CASE pc'[a] \notin Inside
  <2>1. lock'[p] = lock[p]
    BY <1>3, <1>5, OwnLock
  <2>2. CASE lock[p] = Nobody
    BY <1>2, <2>1, <2>2, ViewOfFree
  <2>3. CASE lock[p] # Nobody
    <3> DEFINE y == lock[p]
    <3>1. y \in Actors /\ y # a /\ pc[y] \in Inside
      BY <1>3, <2>3 DEF TypeOK, LockInv
    <3>2. pc'[y] = pc[y] /\ cell'[y] = cell[y]
      BY <3>1, OthersKeepTheirs DEF Inside, Loading, Working
    <3> QED BY <1>1, <1>2, <2>1, <3>2 DEF Visible
  <2> QED BY <2>2, <2>3
<1> QED BY <1>4, <1>5

\* The things that can become of a profile in a step of the actor that is on it.
Unmoved(p) ==
  Visible(p)' = Visible(p) /\ Stored(p)' = Stored(p) /\ (p \in hurt' <=> p \in hurt)
Grown(p, a) ==
  /\ Apply(a) /\ mark[a] \in Updates
  /\ Visible(p)' = Visible(p) \cup {mark[a]} /\ Stored(p)' = Stored(p)
  /\ (p \in hurt' <=> p \in hurt)
Saved(p, a) ==
  /\ Repair(a) \/ Store(a)
  /\ Visible(p)' = Visible(p) /\ Stored(p)' = Visible(p) /\ p \notin hurt'
Lost(p) ==
  /\ Visible(p)' = Stored(p) /\ Stored(p)' = Stored(p) /\ (p \in hurt' <=> p \in hurt)
  /\ (p \in hurt /\ cache[p] = Absent) \/ (p \in slipped /\ Crowds)
Worse(p, a) ==
  /\ Load(a) \/ Backup(a)
  /\ Visible(p)' = Visible(p) /\ p \in hurt /\ p \in hurt'

\* What an actor had in its hands is in the cache when it lets go of the profile,
\* or was on the disk, or the profile was damaged or evicted in use.
LEMMA ViewOfReleased ==
  ASSUME TypeOK, LockInv, CellInv, NEW a \in Actors, pc[a] \in Inside,
         NEW p \in Profiles, p = on[a], lock'[p] = Nobody, UNCHANGED <<file, bak, cache, hurt>>
  PROVE  Unmoved(p) \/ Lost(p)
<1>1. Stored(p)' = Stored(p) /\ Resting(p)' = Resting(p)
  BY DEF Stored, Resting
<1>2. Visible(p)' = Resting(p)
  BY <1>1, ViewOfFree
<1>3. Visible(p) = IF InHands(a) THEN cell[a] ELSE Resting(p)
  BY ViewOfHolder
<1>4. Hands(a)
  BY DEF CellInv
<1>5. CASE ~ InHands(a)
  BY <1>1, <1>2, <1>3, <1>5 DEF Unmoved
<1>6. CASE pc[a] \in Working
  <2>1. Visible(p) = cell[a]
    BY <1>3, <1>6 DEF InHands
  <2>2. CASE cache[p] = cell[a] /\ cache[p] # Absent
    BY <1>1, <1>2, <2>1, <2>2 DEF Unmoved, Resting
  <2>3. CASE cache[p] = Absent /\ p \in slipped /\ Crowds
    BY <1>1, <1>2, <2>3 DEF Lost, Resting
  <2>4. cell[a] # Absent
    BY ContentAssumption DEF TypeOK
  <2> QED BY <1>4, <1>6, <2>2, <2>3, <2>4 DEF Hands
<1>7. CASE pc[a] \in Loading
  <2>1. Visible(p) = cell[a] /\ Resting(p) = Stored(p)
    BY <1>3, <1>4, <1>7 DEF InHands, Hands, Resting
  <2>4. cache[p] = Absent
    BY <1>4, <1>7 DEF Hands
  <2>2. CASE p \in hurt
    BY <1>1, <1>2, <2>1, <2>2, <2>4 DEF Lost
  <2>3. CASE p \notin hurt
    <3>1. cell[a] = Stored(p)
      BY <1>4, <1>7, <2>3 DEF Hands, Loading
    <3> QED BY <1>1, <1>2, <2>1, <3>1 DEF Unmoved
  <2> QED BY <2>2, <2>3
<1> QED BY <1>5, <1>6, <1>7 DEF InHands

\* Who leaves its profile as the cache has it changes nothing that can be seen.
LEMMA LeavesViews ==
  ASSUME TypeOK, LockInv, CellInv, NEW a \in Actors, pc[a] \in Inside, Ends(a),
         NEW p \in Profiles, p = on[a], UNCHANGED <<file, bak, cache, hurt>>
  PROVE  Unmoved(p) \/ Lost(p)
<1>1. lock[p] = a
  BY DEF LockInv
<1>2. lock'[p] = Nobody
  BY <1>1 DEF Ends, TypeOK
<1> QED BY <1>2, ViewOfReleased

\* What is put into the cache was in the hands of the actor that puts it there.
LEMMA ViewOfInserted ==
  ASSUME TypeOK, TypeOK', LockInv, LockInv', NEW a \in Actors, Insert(a),
         NEW p \in Profiles, p = on[a]
  PROVE  Unmoved(p)
<1>1. /\ on' = on /\ pc[a] \in Loading /\ pc'[a] = "take"
      /\ pc[a] \in Inside /\ pc'[a] \in Inside /\ UNCHANGED <<file, bak, hurt>>
  BY DEF Insert, Goes, Loading, Inside, diskVars, TypeOK
<1>2. cache'[p] = cell[a]
  <2>1. PICK out \in IF Cardinality(Cached) < capacity \/ Victims(a) = {}
                     THEN {{}} ELSE {{v} : v \in Victims(a)} :
          cache' = [q \in Profiles |-> CASE q = on[a] -> cell[a]
                                         [] q \in out -> Absent
                                         [] OTHER     -> cache[q]]
    BY DEF Insert
  <2>2. p \notin out
    BY <2>1 DEF Victims
  <2> QED BY <2>1, <2>2
<1>3. cell[a] # Absent
  BY ContentAssumption DEF TypeOK
<1>4. Visible(p) = cell[a]
  BY <1>1, ViewOfHolder DEF InHands
<1>5. Visible(p)' = cell[a]
  <2>1. ~ InHands(a)'
    BY <1>1 DEF InHands, Loading, Working
  <2>2. Resting(p)' = cell[a]
    BY <1>2, <1>3 DEF Resting
  <2> QED BY <1>1, <2>1, <2>2, NextViewOfHolder
<1> QED BY <1>1, <1>4, <1>5 DEF Unmoved, Stored

\* What readers see of the actor\'s own profile, by what its step does.
LEMMA OwnViews ==
  ASSUME TypeInv, TypeOK', LockInv, LockInv', CellInv, HurtInv, NEW a \in Actors, ActsAs(a),
         NEW p \in Profiles, p = on[a]
  PROVE  Unmoved(p) \/ Grown(p, a) \/ Saved(p, a) \/ Lost(p) \/ Worse(p, a)
<1> USE DEF TypeInv
<1>1. CASE pc[a] \notin Inside
  <2>1. UNCHANGED hurt
    BY <1>1, OutsidersTouchNothing
  <2> QED BY <1>1, <2>1, ViewOfOutsider DEF Unmoved
<1> SUFFICES ASSUME pc[a] \in Inside
             PROVE  Unmoved(p) \/ Grown(p, a) \/ Saved(p, a) \/ Lost(p) \/ Worse(p, a)
  BY <1>1
<1>2. Visible(p) = IF InHands(a) THEN cell[a] ELSE Resting(p)
  BY ViewOfHolder
<1>3. ASSUME pc'[a] \in Inside, on' = on
      PROVE  Visible(p)' = IF InHands(a)' THEN cell'[a] ELSE Resting(p)'
  BY <1>3, NextViewOfHolder
<1>4. Hands(a) /\ cell[a] \in SUBSET Updates /\ a \in DOMAIN pc /\ a \in DOMAIN cell
  BY DEF CellInv, TypeOK
<1>5. ASSUME UNCHANGED <<file, bak, cache, hurt>>
      PROVE  /\ Stored(p)' = Stored(p) /\ Resting(p)' = Resting(p) /\ hurt' = hurt
             /\ Ends(a) => Unmoved(p) \/ Lost(p)
  BY <1>5, LeavesViews DEF Stored, Resting
<1>6. \A S \in SUBSET Updates : S \notin Unreadable /\ S # Absent
  BY ContentAssumption
<1>7. CASE Load(a)
  <2>1. on' = on /\ cache[p] = Absent /\ cache' = cache /\ bak' = bak /\ hurt' = hurt
    BY <1>4, <1>7 DEF Load, Hands, cacheVars, history
  <2>2. pc'[a] \in Loading /\ pc'[a] \in Inside /\ pc[a] = "load"
    BY <1>4, <1>7 DEF Load, Goes, Loading, Inside
  <2>3. Visible(p)' = cell'[a] /\ Visible(p) = Stored(p)
    BY <1>2, <1>3, <2>1, <2>2 DEF InHands, Resting, Loading, Working
  <2>4. CASE file[p] # Corrupt
    <3>1. file' = file /\ cell'[a] = IF file[p] = Missing THEN {} ELSE file[p]
      BY <1>4, <1>7, <2>4 DEF Load
    <3>2. Stored(p)' = Stored(p) /\ cell'[a] = Stored(p)
      BY <2>1, <2>4, <3>1, StoredByFile DEF Stored, Unreadable
    <3> QED BY <2>1, <2>3, <3>2 DEF Unmoved
  <2>5. CASE file[p] = Corrupt
    <3>1. cell'[a] = Stored(p)
      BY <1>4, <1>7, <2>5, StoredByFile DEF Load
    <3> QED BY <1>7, <2>1, <2>3, <2>5, <3>1 DEF Worse, HurtInv
  <2> QED BY <2>4, <2>5
<1>8. CASE Repair(a)
  <2>1. on' = on /\ cell' = cell /\ pc[a] \in Loading /\ pc'[a] \in Loading /\ pc'[a] \in Inside
    BY <1>4, <1>8 DEF Repair, Goes, Loading, Inside
  <2>2. file'[p] = cell[a] /\ p \notin hurt'
    BY <1>8 DEF Repair, TypeOK
  <2>3. Stored(p)' = cell[a]
    BY <1>4, <1>6, <2>2, StoredByFile
  <2> QED BY <1>2, <1>3, <1>8, <2>1, <2>2, <2>3 DEF Saved, InHands
<1>9. CASE Gather(a)
  <2>1. /\ on' = on /\ cell' = cell /\ pc[a] \in Loading /\ pc'[a] \in Loading
        /\ pc'[a] \in Inside /\ UNCHANGED <<file, bak, cache, hurt>>
    BY <1>4, <1>9 DEF Gather, Goes, Loading, Inside, diskVars, cacheVars, history
  <2> QED BY <1>2, <1>3, <1>5, <2>1 DEF Unmoved, InHands
<1>10. CASE Insert(a)
  BY <1>10, ViewOfInserted
<1>11. CASE Take(a)
  <2>1. UNCHANGED <<file, bak, cache, hurt>>
    BY <1>11 DEF Take, diskVars, cacheVars, history
  <2>2. CASE Leaves(a, FALSE)
    BY <1>5, <2>1, <2>2 DEF Leaves
  <2>3. CASE ~ Leaves(a, FALSE)
    <3>1. /\ on' = on /\ cache[p] # Absent /\ cell'[a] = cache[p]
          /\ pc[a] = "take" /\ pc'[a] \in Working /\ pc'[a] \in Inside
      BY <1>4, <1>11, <2>3 DEF Take, Goes, Working, Inside
    <3> QED BY <1>2, <1>3, <1>5, <2>1, <3>1 DEF Unmoved, InHands, Resting, Loading, Working
  <2> QED BY <2>2, <2>3
<1>12. CASE Backup(a)
  <2>1. /\ on' = on /\ cell' = cell /\ pc[a] \in Working /\ pc'[a] \in Working
        /\ pc'[a] \in Inside /\ file' = file /\ hurt' = hurt
    BY <1>4, <1>12 DEF Backup, Goes, Working, Inside, history
  <2>2. Visible(p)' = Visible(p)
    BY <1>2, <1>3, <2>1 DEF InHands
  <2>3. CASE file[p] = Corrupt
    BY <1>12, <2>1, <2>2, <2>3 DEF Worse, HurtInv
  <2>4. CASE file[p] # Corrupt
    <3>1. Stored(p)' = Stored(p)
      BY <2>1, <2>4, StoredByFile DEF Unreadable
    <3> QED BY <2>1, <2>2, <3>1 DEF Unmoved
  <2> QED BY <2>3, <2>4
<1>13. CASE Store(a)
  <2>1. on' = on /\ cell' = cell /\ pc[a] \in Working /\ pc'[a] \in Working /\ pc'[a] \in Inside
    BY <1>4, <1>13 DEF Store, Goes, Working, Inside
  <2>2. file'[p] = cell[a] /\ p \notin hurt'
    BY <1>13 DEF Store, TypeOK
  <2>3. Stored(p)' = cell[a]
    BY <1>4, <1>6, <2>2, StoredByFile
  <2> QED BY <1>2, <1>3, <1>13, <2>1, <2>2, <2>3 DEF Saved, InHands
<1>14. CASE Record(a) \/ StartWriter(a) \/ Cancel(a)
  <2>1. Ends(a)
    BY <1>14 DEF Record, StartWriter, Cancel, Leaves
  <2>2. UNCHANGED <<file, bak, cache, hurt>>
    BY <1>14 DEF Record, StartWriter, Cancel, diskVars, cacheVars
  <2> QED BY <1>5, <2>1, <2>2
<1>15. CASE DiskFails(a)
  <2>1. UNCHANGED <<file, bak, cache, hurt>>
    BY <1>15 DEF DiskFails, diskVars, cacheVars, history
  <2>2. CASE Leaves(a, FALSE)
    BY <1>5, <2>1, <2>2 DEF Leaves
  <2>3. CASE ~ Leaves(a, FALSE)
    <3>1. /\ on' = on /\ cell' = cell /\ pc[a] \in Working /\ pc'[a] \in Working
          /\ pc'[a] \in Inside
      BY <1>4, <1>15, <2>3 DEF DiskFails, Goes, Working, Inside
    <3> QED BY <1>2, <1>3, <1>5, <2>1, <3>1 DEF Unmoved, InHands
  <2> QED BY <2>2, <2>3
<1>16. CASE a \in Tasks /\ Apply(a)
  <2>1. PICK change \in BOOLEAN :
          LET made == IF change THEN cell[a] \cup {mark[a]} ELSE cell[a] IN
          /\ cell' = [cell EXCEPT ![a] = made]
          /\ cache' = [cache EXCEPT ![p] = IF @ = Absent THEN Absent ELSE made]
    BY <1>16 DEF Apply
  <2>2. /\ on' = on /\ pc[a] \in Working /\ pc'[a] \in Working /\ pc'[a] \in Inside
        /\ UNCHANGED <<file, bak, hurt>>
    BY <1>4, <1>16 DEF Apply, Goes, Working, Inside, diskVars, history
  <2>3. Stored(p)' = Stored(p)
    BY <2>2 DEF Stored
  <2>4. mark[a] \in Updates
    BY <1>16 DEF Apply, NamesInv, Naming
  <2>5. Visible(p) = cell[a] /\ Visible(p)' = cell'[a]
    BY <1>2, <1>3, <2>2 DEF InHands
  <2>6. cell'[a] = cell[a] \/ cell'[a] = cell[a] \cup {mark[a]}
    BY <1>4, <2>1
  <2> QED BY <1>16, <2>2, <2>3, <2>4, <2>5, <2>6 DEF Unmoved, Grown
<1>17. CASE a \in Tasks /\ Mark(a)
  <2>1. /\ on' = on /\ cell' = cell /\ pc[a] \in Working /\ pc'[a] \in Working
        /\ pc'[a] \in Inside /\ UNCHANGED <<file, bak, cache, hurt>>
    BY <1>4, <1>17 DEF Mark, Goes, Working, Inside, diskVars, cacheVars, history
  <2> QED BY <1>2, <1>3, <1>5, <2>1 DEF Unmoved, InHands
<1>18. ~ Enter(a) /\ ~ Begin(a) /\ ~ (a \in Profiles /\ Writes(a))
       /\ ~ (a = Main /\ (Stop \/ Collect \/ FlushNext))
  BY DEF Enter, Begin, Writes, WriterWakes, WriterChecks, Stop, Collect, FlushNext, Inside,
         Loading, Working
<1> QED BY <1>7, <1>8, <1>9, <1>10, <1>11, <1>12, <1>13, <1>14, <1>15, <1>16, <1>17, <1>18
           DEF ActsAs, Persists, Works

\* What happens to a file without an actor is seen of its own profile only.
LEMMA ViewsOfDamage ==
  ASSUME TypeOK, NEW p \in Profiles, Damage(p) \/ Lands(p), NEW q \in Profiles, q # p
  PROVE  /\ Visible(q)' = Visible(q) /\ Stored(q)' = Stored(q)
         /\ stored'[q] = stored[q] /\ told'[q] = told[q] /\ kept'[q] = kept[q]
         /\ (q \in hurt' <=> q \in hurt)
<1>1. UNCHANGED <<cache, lock, pc, cell>> /\ file'[q] = file[q] /\ bak'[q] = bak[q]
  BY Landing DEF Damage, cacheVars, TypeOK
<1>2. Stored(q)' = Stored(q)
  BY <1>1 DEF Stored
<1>3. Visible(q)' = Visible(q)
  BY <1>1, <1>2 DEF Visible
<1>4. Hurts(p) \/ UNCHANGED <<stored, told, kept, hurt>>
  BY Landing DEF Damage
<1> QED BY <1>2, <1>3, <1>4 DEF Hurts, TypeOK

\* A restart shows of each profile what its file has.
LEMMA ViewsOfRestart ==
  ASSUME Fresh, UNCHANGED <<file, bak>>, NEW q \in Profiles
  PROVE  Visible(q)' = Stored(q) /\ Stored(q)' = Stored(q)
<1>1. Stored(q)' = Stored(q)
  BY DEF Stored
<1>2. lock'[q] = Nobody /\ cache'[q] = Absent
  BY DEF Fresh
<1> QED BY <1>1, <1>2 DEF Visible

-------------------------------------------------------------------------------
(* What was promised is seen.                                              *)

\* Every step keeps what the disk has within what was applied.
LEMMA DiskKept ==
  ASSUME TypeInv, TypeOK', LockInv, LockInv', StoreInv, [Next]_vars
  PROVE  DiskInv'
<1> USE DEF TypeInv, StoreInv
<1> SUFFICES ASSUME NEW q \in Profiles
             PROVE  /\ stored'[q] \cup kept'[q] \subseteq Visible(q)'
                    /\ IF q \in hurt' THEN stored'[q] = {} /\ kept'[q] = {}
                       ELSE stored'[q] \cup kept'[q] \subseteq Stored(q)'
  BY DEF DiskInv
<1> DEFINE Goal == /\ stored'[q] \cup kept'[q] \subseteq Visible(q)'
                   /\ IF q \in hurt' THEN stored'[q] = {} /\ kept'[q] = {}
                      ELSE stored'[q] \cup kept'[q] \subseteq Stored(q)'
<1>1. /\ stored[q] \cup kept[q] \subseteq Visible(q)
      /\ IF q \in hurt THEN stored[q] = {} /\ kept[q] = {}
         ELSE stored[q] \cup kept[q] \subseteq Stored(q)
  BY DEF DiskInv
<1>2. ASSUME NEW a \in Actors, ActsAs(a)
      PROVE  Goal
  <2>1. CASE a = Main /\ Collect
    <3>1. pc[a] \notin Inside /\ ~ Insert(a)
      BY <2>1 DEF Collect, Insert, Inside, Loading, Working
    <3>2. Visible(q)' = Visible(q) /\ Stored(q)' = Stored(q)
      BY <1>2, <3>1, ViewOfOutsider, ViewsElsewhere
    <3>3. UNCHANGED <<stored, hurt>>
      BY <2>1 DEF Collect
    <3>4. \/ kept'[q] = stored[q]
          \/ kept'[q] = told[q] /\ ~ Dirty(q) /\ q \notin slipped
      BY <2>1 DEF Collect
    <3> QED BY <1>1, <3>2, <3>3, <3>4 DEF ToldInv
  <2>2. CASE ~ (a = Main /\ Collect)
    <3>1. kept' = kept
      BY <1>2, <2>2
         DEF ActsAs, Persists, Works, Writes, Enter, Load, Repair, Gather, Insert, Take, Backup,
             Store, Record, Begin, Apply, Mark, StartWriter, WriterWakes, WriterChecks, Stop,
             FlushNext, DiskFails, Cancel, history
    <3>2. CASE q # on[a]
      <4>1. stored'[q] = stored[q] /\ (q \in hurt' <=> q \in hurt)
        BY <1>2, <3>2, OthersKeepTheirProfiles
      <4>2. Visible(q)' \in {Visible(q), Stored(q)} /\ Stored(q)' = Stored(q)
        BY <1>2, <3>2, ViewsElsewhere
      <4> QED BY <1>1, <3>1, <4>1, <4>2
    <3>3. CASE q = on[a] /\ Record(a)
      <4>1. \/ stored'[q] = stored[q]
            \/ stored'[q] = stored[q] \cup cell[a] /\ q \notin hurt
        BY <3>3 DEF Record, TypeOK
      <4>2. hurt' = hurt /\ pc[a] = "record" /\ pc[a] \in Inside /\ InHands(a)
        BY <3>3 DEF Record, Inside, Working, InHands
      <4>3. q \notin hurt => Stored(q) = cell[a]
        BY <3>3, <4>2 DEF CellInv, Hands
      <4>4. Unmoved(q) \/ Lost(q)
        BY <1>2, <3>3, <4>2, LeavesViews DEF Record, Leaves, diskVars, cacheVars
      <4>5. Visible(q) = cell[a]
        BY <3>3, <4>2, ViewOfHolder
      <4> QED BY <1>1, <3>1, <4>1, <4>2, <4>3, <4>4, <4>5 DEF Unmoved, Lost
    <3>4. CASE q = on[a] /\ ~ Record(a)
      <4>1. stored' = stored
        BY <1>2, <3>4
           DEF ActsAs, Persists, Works, Writes, Enter, Load, Repair, Gather, Insert, Take, Backup,
               Store, Begin, Apply, Mark, StartWriter, WriterWakes, WriterChecks, Stop, Collect,
               FlushNext, DiskFails, Cancel, history
      <4>2. Unmoved(q) \/ Grown(q, a) \/ Saved(q, a) \/ Lost(q) \/ Worse(q, a)
        BY <1>2, <3>4, OwnViews
      <4> QED BY <1>1, <3>1, <4>1, <4>2 DEF Unmoved, Grown, Saved, Lost, Worse
    <3> QED BY <3>2, <3>3, <3>4
  <2> QED BY <2>1, <2>2
<1>3. ASSUME NEW p \in Profiles, Damage(p)
      PROVE  Goal
  <2>1. CASE q # p
    BY <1>1, <1>3, <2>1, ViewsOfDamage
  <2>2. CASE q = p
    <3>1. q \in hurt' /\ stored'[q] = {} /\ kept'[q] = {}
      BY <1>3, <2>2 DEF Damage, Hurts, TypeOK
    <3> QED BY <3>1
  <2> QED BY <2>1, <2>2
<1>6. ASSUME NEW p \in Profiles, Lands(p)
      PROVE  Goal
  <2>1. CASE q # p
    BY <1>1, <1>6, <2>1, ViewsOfDamage
  <2>2. CASE q = p /\ Hurts(p)
    <3>1. q \in hurt' /\ stored'[q] = {} /\ kept'[q] = {}
      BY <2>2 DEF Hurts, TypeOK
    <3> QED BY <3>1
  <2>3. CASE q = p /\ ~ Hurts(p)
    <3>1. UNCHANGED <<stored, kept, hurt>>
      BY <1>6, <2>3, Landing
    <3>2. Visible(q)' = Visible(q) /\ Stored(q) \subseteq Stored(q)'
      BY <1>6, <2>3, Landing
    <3> QED BY <1>1, <3>1, <3>2
  <2> QED BY <2>1, <2>2, <2>3
<1>4. CASE Exit \/ Crash
  <2>1. Fresh /\ UNCHANGED <<file, bak>> /\ UNCHANGED <<stored, kept, hurt>>
    BY <1>4 DEF Exit, Crash
  <2> QED BY <1>1, <2>1, ViewsOfRestart
<1>5. CASE UNCHANGED vars
  BY <1>1, <1>5 DEF vars, Visible, Stored
<1> QED BY <1>2, <1>3, <1>4, <1>5, <1>6, StepsOfActors

\* The part of ToldInv that is about p.
Told(p) ==
  p \notin slipped =>
    /\ told[p] \subseteq Visible(p)
    /\ IF Dirty(p) THEN cache[p] # Absent
       ELSE IF p \in hurt THEN told[p] = {}
       ELSE told[p] \subseteq Stored(p)

\* Of the profile that an actor is on, by what the step does to the revisions.
LEMMA OwnTold ==
  ASSUME TypeInv, TypeOK', LockInv, LockInv', MarksInv, StoreInv, NEW a \in Actors, ActsAs(a),
         NEW p \in Profiles, p = on[a], p \notin slipped'
  PROVE  Told(p)'
<1> USE DEF TypeInv, StoreInv
<1>1. p \notin slipped
  BY SlipsRemain
<1>2. /\ told[p] \subseteq Visible(p)
      /\ IF Dirty(p) THEN cache[p] # Absent
         ELSE IF p \in hurt THEN told[p] = {} ELSE told[p] \subseteq Stored(p)
  BY <1>1 DEF ToldInv
<1>3. Unmoved(p) \/ Grown(p, a) \/ Saved(p, a) \/ Lost(p) \/ Worse(p, a)
  BY OwnViews
<1>4. told[p] \subseteq Visible(p)'
  BY <1>1, <1>2, <1>3 DEF Unmoved, Grown, Saved, Lost, Worse
<1>5. Hands(a) /\ cell[a] \in SUBSET Updates /\ a \in DOMAIN pc
  BY DEF CellInv, TypeOK
<1>6. pc[a] \in Working => cache[p] = cell[a] /\ cache[p] # Absent /\ Visible(p) = cell[a]
  <2> SUFFICES ASSUME pc[a] \in Working
               PROVE  cache[p] = cell[a] /\ cache[p] # Absent /\ Visible(p) = cell[a]
    OBVIOUS
  <2>1. cache[p] = cell[a]
    BY <1>1, <1>5 DEF Hands
  <2> QED BY <1>5, <2>1, ViewOfHolder, ContentAssumption DEF InHands, Inside
<1>7. CASE a \in Tasks /\ Mark(a)
  <2>1. pc[a] \in Working /\ UNCHANGED <<cache, told, persisted>> /\ revision'[p] = revision[p] + 1
    BY <1>7 DEF Mark, Working, cacheVars, history, TypeOK
  <2>2. Dirty(p)'
    <3>1. persisted[p] \in Nat /\ revision[p] \in Nat /\ persisted[p] <= revision[p]
      BY DEF MarksInv, TypeOK
    <3> QED BY <2>1, <3>1 DEF Dirty
  <2> QED BY <1>4, <1>6, <2>1, <2>2 DEF Told
<1>8. CASE a \in Tasks /\ StartWriter(a)
  <2>1. pc[a] \in Working /\ pc[a] \in Marked /\ UNCHANGED <<cache, revision, persisted>>
    BY <1>8 DEF StartWriter, Working, Marked, cacheVars, dirtyVars
  <2>2. Dirty(p)
    <3>1. persisted[p] \in Nat /\ revision[p] \in Nat /\ persisted[p] < revision[p]
      BY <1>8, <2>1 DEF MarksInv, TypeOK
    <3> QED BY <3>1 DEF Dirty
  <2>3. told'[p] = told[p] \/ told'[p] = told[p] \cup cell[a]
    BY <1>8 DEF StartWriter, TypeOK
  <2>4. cell[a] \subseteq Visible(p)'
    BY <1>1, <1>3, <1>6, <2>1 DEF Unmoved, Grown, Saved, Lost, Worse
  <2> QED BY <1>4, <1>6, <2>1, <2>2, <2>3, <2>4 DEF Told, Dirty
<1>9. CASE Record(a)
  <2>1. /\ pc[a] = "record" /\ pc[a] \in Working /\ UNCHANGED <<cache, hurt, file, bak>>
        /\ told'[p] = told[p] \/ (told'[p] = told[p] \cup cell[a] /\ p \notin hurt)
    BY <1>9 DEF Record, Working, cacheVars, diskVars, TypeOK
  <2>2. cell[a] \subseteq Visible(p)'
    BY <1>1, <1>3, <1>6, <2>1 DEF Unmoved, Grown, Saved, Lost, Worse
  <2>3. IF p \in hurt THEN told[p] = {} ELSE Stored(p) = cell[a]
    BY <1>5, <2>1 DEF Hands
  <2>4. Stored(p)' = Stored(p)
    BY <2>1 DEF Stored
  <2> QED BY <1>2, <1>4, <1>6, <2>1, <2>2, <2>3, <2>4 DEF Told
<1>10. CASE ~ (a \in Tasks /\ (Mark(a) \/ StartWriter(a))) /\ ~ Record(a)
  <2>1. UNCHANGED <<told, revision, persisted>>
    BY <1>10
       DEF ActsAs, Persists, Works, Writes, Enter, Load, Repair, Gather, Insert, Take, Backup,
           Store, Begin, Apply, WriterWakes, WriterChecks, Stop, Collect, FlushNext, DiskFails,
           Cancel, history, dirtyVars
  <2>2. cache'[p] = Absent => cache[p] = Absent
    <3>1. CASE Insert(a)
      BY <1>3, <1>5, <3>1, ContentAssumption
         DEF Insert, Hands, Loading
    <3>2. CASE a \in Tasks /\ Apply(a)
      <4>1. PICK change \in BOOLEAN :
              LET made == IF change THEN cell[a] \cup {mark[a]} ELSE cell[a] IN
              cache' = [cache EXCEPT ![p] = IF @ = Absent THEN Absent ELSE made]
        BY <3>2 DEF Apply
      <4>2. mark[a] \in Updates
        BY <3>2 DEF Apply, NamesInv, Naming
      <4>3. cell[a] \cup {mark[a]} # Absent /\ cell[a] # Absent
        BY <1>5, <4>2, ContentAssumption
      <4> QED BY <4>1, <4>3 DEF TypeOK
    <3>3. CASE ~ Insert(a) /\ ~ (a \in Tasks /\ Apply(a))
      BY <1>10, <3>3
         DEF ActsAs, Persists, Works, Writes, Enter, Load, Repair, Gather, Take, Backup, Store,
             Begin, WriterWakes, WriterChecks, Stop, Collect, FlushNext, DiskFails, Cancel, cacheVars
    <3> QED BY <3>1, <3>2, <3>3
  <2>3. IF p \in hurt' THEN ~ Dirty(p) => told[p] = {}
        ELSE ~ Dirty(p) => told[p] \subseteq Stored(p)'
    BY <1>1, <1>2, <1>3 DEF Unmoved, Grown, Saved, Lost, Worse
  <2> QED BY <1>2, <1>4, <2>1, <2>2, <2>3 DEF Told, Dirty
<1> QED BY <1>7, <1>8, <1>9, <1>10

\* Every step keeps what was promised within what can be seen.
LEMMA ToldKept ==
  ASSUME TypeInv, TypeOK', LockInv, LockInv', MarksInv, StoreInv, [Next]_vars
  PROVE  ToldInv'
<1> USE DEF TypeInv, StoreInv
<1> SUFFICES ASSUME NEW q \in Profiles, q \notin slipped'
             PROVE  Told(q)'
  BY DEF ToldInv, Told
<1>1. Told(q)
  BY DEF ToldInv, Told
<1>2. ASSUME NEW a \in Actors, ActsAs(a)
      PROVE  Told(q)'
  <2>1. CASE q = on[a]
    BY <1>2, <2>1, OwnTold
  <2>2. CASE q # on[a]
    <3>1. /\ told'[q] = told[q] /\ (q \in hurt' <=> q \in hurt)
          /\ revision'[q] = revision[q] /\ persisted'[q] = persisted[q]
      BY <1>2, <2>2, OthersKeepTheirProfiles
    <3>2. q \notin slipped
      BY <1>2, SlipsRemain
    <3> QED BY <1>1, <1>2, <2>2, <3>1, <3>2, ViewsElsewhere DEF Told, Dirty
  <2> QED BY <2>1, <2>2
<1>3. ASSUME NEW p \in Profiles, Damage(p)
      PROVE  Told(q)'
  <2>1. UNCHANGED <<cache, revision, persisted, slipped>>
    BY <1>3 DEF Damage, cacheVars, dirtyVars
  <2>2. CASE q = p
    <3>1. told'[q] = {}
      BY <1>3, <2>2 DEF Damage, Hurts, TypeOK
    <3> QED BY <1>1, <2>1, <3>1 DEF Told, Dirty
  <2>3. CASE q # p
    BY <1>1, <1>3, <2>1, <2>3, ViewsOfDamage DEF Told, Dirty
  <2> QED BY <2>2, <2>3
<1>4. CASE Exit \/ Crash
  <2>1. Fresh /\ UNCHANGED <<file, bak>> /\ hurt' = hurt
    BY <1>4 DEF Exit, Crash
  <2>2. told'[q] = kept[q] \/ told'[q] = stored[q]
    BY <1>4 DEF Exit, Crash
  <2>3. ~ Dirty(q)'
    BY <2>1 DEF Fresh, Dirty
  <2> QED BY <2>1, <2>2, <2>3, ViewsOfRestart DEF Told, DiskInv
<1>6. ASSUME NEW p \in Profiles, Lands(p)
      PROVE  Told(q)'
  <2>1. UNCHANGED <<cache, revision, persisted, slipped>>
    BY <1>6, Landing
  <2>2. CASE q = p /\ Hurts(p)
    <3>1. told'[q] = {}
      BY <2>2 DEF Hurts, TypeOK
    <3> QED BY <1>1, <2>1, <3>1 DEF Told, Dirty
  <2>3. CASE q = p /\ ~ Hurts(p)
    <3>1. UNCHANGED <<told, hurt>>
      BY <1>6, <2>3, Landing
    <3>2. Visible(q)' = Visible(q) /\ Stored(q) \subseteq Stored(q)'
      BY <1>6, <2>3, Landing
    <3> QED BY <1>1, <2>1, <3>1, <3>2 DEF Told, Dirty
  <2>4. CASE q # p
    BY <1>1, <1>6, <2>1, <2>4, ViewsOfDamage DEF Told, Dirty
  <2> QED BY <2>2, <2>3, <2>4
<1>5. CASE UNCHANGED vars
  BY <1>1, <1>5 DEF vars, Told, Dirty, Visible, Stored
<1> QED BY <1>2, <1>3, <1>4, <1>5, <1>6, StepsOfActors

-------------------------------------------------------------------------------
(* A dirty profile has a writer.                                           *)

\* The part of WriterInv that is about p.
Attended(p) ==
  Dirty(p) => \/ pc[p] # "off" \/ p \in stranded
              \/ lock[p] \in Tasks /\ pc[lock[p]] \in Marked

\* A writer ends only when it finds its profile clean.
LEMMA WritersStay ==
  ASSUME TypeInv, NEW p \in Profiles, ActsAs(p), pc'[p] = "off", on[p] = p
  PROVE  ~ Dirty(p)'
<1>1. p \in Actors /\ p \notin Tasks /\ p # Main
  BY Constants
<1>2. CASE WriterChecks(p)
  BY <1>1, <1>2 DEF WriterChecks, Goes, Dirty, dirtyVars, TypeInv, TypeOK
<1>3. CASE ~ WriterChecks(p)
  <2>1. ASSUME NEW fine \in BOOLEAN, Leaves(p, fine)
        PROVE  FALSE
    BY <1>1, <2>1, LeavesLock DEF TypeInv
  <2>2. CASE Take(p) \/ DiskFails(p) \/ Record(p)
    BY <1>1, <2>1, <2>2 DEF Take, DiskFails, Record, Goes, TypeInv, TypeOK
  <2>3. CASE ~ (Take(p) \/ DiskFails(p) \/ Record(p))
    BY <1>1, <1>3, <2>3
       DEF ActsAs, Persists, Writes, Enter, Load, Repair, Gather, Insert, Backup, Store,
           WriterWakes, Goes, TypeInv, TypeOK
  <2> QED BY <2>2, <2>3
<1> QED BY <1>2, <1>3

\* A request that marked its profile leaves it clean, to its writer, or stranded.
LEMMA MarkersStay ==
  ASSUME TypeInv, MarksInv, LockInv, NEW a \in Tasks, ActsAs(a), pc[a] \in Marked,
         NEW p \in Profiles, p = on[a], pc[p] = "off"
  PROVE  Attended(p)'
<1> USE DEF TypeInv
<1>1. a \in Actors /\ p \in Actors /\ a # p /\ a \notin Profiles /\ a # Main /\ lock[p] = a
  BY Constants DEF LockInv, Marked, Inside, Working
<1>2. CASE StartWriter(a)
  BY <1>1, <1>2 DEF StartWriter, Attended, TypeOK
<1>3. CASE Cancel(a)
  BY <1>1, <1>3 DEF Cancel, Attended, Marked
<1>4. CASE Record(a)
  <2>1. mark[a] = revision[p] /\ persisted[p] < revision[p]
    BY <1>4 DEF MarksInv, Marked, Record
  <2>2. persisted[p] \in Nat /\ revision[p] \in Nat
    BY DEF TypeOK
  <2>3. persisted'[p] = revision[p] /\ revision' = revision
    BY <1>4, <2>1, <2>2 DEF Record, Larger, TypeOK
  <2> QED BY <2>3 DEF Attended, Dirty
<1>5. CASE Backup(a) \/ Store(a) \/ DiskFails(a)
  <2>1. pc'[a] \in {"store", "record", "fail"} /\ lock' = lock
    BY <1>1, <1>5 DEF Backup, Store, DiskFails, Goes, Marked, TypeOK
  <2> QED BY <1>1, <2>1 DEF Attended, Marked
<1> QED BY <1>1, <1>2, <1>3, <1>4, <1>5
           DEF ActsAs, Persists, Works, Enter, Load, Repair, Gather, Insert, Take, Begin, Apply,
               Mark, Marked

\* Every step keeps it that a dirty profile has its writer, or one that marked it.
LEMMA WriterKept ==
  ASSUME TypeInv, TypeOK', LockInv, LockInv', MarksInv, WriterInv, [Next]_vars
  PROVE  WriterInv'
<1> USE DEF TypeInv
<1> SUFFICES ASSUME NEW q \in Profiles, Dirty(q)'
             PROVE  Attended(q)'
  BY DEF WriterInv, Attended
<1>1. Attended(q)
  BY DEF WriterInv, Attended
<1>2. ASSUME NEW a \in Actors, ActsAs(a)
      PROVE  Attended(q)'
  <2>1. q \in Actors /\ on[q] = q
    BY Constants DEF LockInv
  <2>2. q # a /\ pc[q] # "off" => pc'[q] # "off"
    BY <1>2, <2>1, OthersKeepTheirs
  <2>3. CASE q = a
    BY <1>2, <2>1, <2>3, WritersStay DEF Attended
  <2>4. CASE q # a /\ pc[q] = "off" /\ ~ Dirty(q)
    <3>1. revision'[q] # revision[q] \/ persisted'[q] # persisted[q]
      BY <2>4 DEF Dirty
    <3>2. q = on[a]
      BY <1>2, <3>1, OthersKeepTheirProfiles
    <3>3. CASE a \in Tasks /\ Mark(a)
      <4>1. pc[a] \in Inside /\ pc'[a] \in {"backup", "start"} /\ lock' = lock
        BY <3>3 DEF Mark, Goes, Inside, Working, TypeOK
      <4> QED BY <3>2, <3>3, <4>1 DEF LockInv, Attended, Marked
    <3>4. CASE Record(a)
      <4>1. persisted[q] = revision[q] /\ persisted[q] \in Nat /\ mark[a] \in Nat
        BY <2>4 DEF Dirty, TypeOK
      <4>2. mark[a] <= revision[q]
        <5>1. CASE a \in Tasks
          BY <3>2, <3>4, <4>1, <5>1 DEF Record, MarksInv, Marked
        <5>2. CASE a \notin Tasks
          BY <3>2, <5>2 DEF MarksInv
        <5> QED BY <5>1, <5>2
      <4>3. persisted'[q] = persisted[q] /\ revision'[q] = revision[q]
        <5>1. Larger(persisted[q], mark[a]) = persisted[q]
          BY <4>1, <4>2 DEF Larger
        <5> QED BY <3>2, <3>4, <5>1 DEF Record, TypeOK
      <4> QED BY <3>1, <4>3
    <3>5. CASE ~ (a \in Tasks /\ Mark(a)) /\ ~ Record(a)
      <4>1. UNCHANGED <<revision, persisted>>
        BY <1>2, <3>5
           DEF ActsAs, Persists, Works, Writes, Enter, Load, Repair, Gather, Insert, Take, Backup,
               Store, Begin, Apply, StartWriter, WriterWakes, WriterChecks, Stop, Collect,
               FlushNext, DiskFails, Cancel, dirtyVars
      <4> QED BY <3>1, <4>1
    <3> QED BY <3>3, <3>4, <3>5
  <2>5. CASE q # a /\ pc[q] = "off" /\ Dirty(q) /\ q \in stranded
    <3>1. CASE q # on[a]
      BY <1>2, <2>5, <3>1, OthersKeepTheirProfiles DEF Attended
    <3>2. CASE q = on[a] /\ a \in Tasks /\ StartWriter(a)
      BY <2>1, <2>5, <3>2, Constants DEF StartWriter, Attended, TypeOK
    <3>3. CASE q = on[a] /\ Record(a)
      <4>1. revision'[q] # persisted'[q] /\ revision' = revision
            /\ persisted'[q] = Larger(persisted[q], mark[a])
        BY <3>3 DEF Record, Dirty, TypeOK
      <4> QED BY <2>5, <3>3, <4>1 DEF Record, Attended
    <3>4. CASE ~ (a \in Tasks /\ StartWriter(a)) /\ ~ Record(a)
      <4>1. stranded \subseteq stranded'
        BY <1>2, <3>4
           DEF ActsAs, Persists, Works, Writes, Enter, Load, Repair, Gather, Insert, Take, Backup,
               Store, Begin, Apply, Mark, WriterWakes, WriterChecks, Stop, Collect, FlushNext,
               DiskFails, Cancel, history
      <4> QED BY <2>5, <4>1 DEF Attended
    <3> QED BY <3>1, <3>2, <3>3, <3>4
  <2>6. CASE q # a /\ pc[q] = "off" /\ lock[q] \in Tasks /\ pc[lock[q]] \in Marked
    <3> DEFINE y == lock[q]
    <3>1. y \in Actors /\ on[y] = q /\ pc[y] \in Inside
      BY <2>6, Constants DEF LockInv
    <3>2. CASE y = a
      BY <1>2, <2>6, <3>1, <3>2, MarkersStay
    <3>3. CASE y # a
      <4>1. pc'[y] = pc[y]
        BY <1>2, <2>6, <3>1, <3>3, OthersKeepTheirs DEF Marked
      <4>2. lock'[q] = y
        BY <1>2, <2>6, <3>1, <3>3, OwnLock, OthersKeepTheirProfiles, Constants
      <4> QED BY <2>6, <4>1, <4>2 DEF Attended
    <3> QED BY <3>2, <3>3
  <2>7. CASE q # a /\ pc[q] # "off"
    BY <2>2, <2>7 DEF Attended
  <2> QED BY <1>1, <2>3, <2>4, <2>5, <2>6, <2>7 DEF Attended
<1>3. ASSUME NEW p \in Profiles, Damage(p) \/ Lands(p)
      PROVE  Attended(q)'
  BY <1>1, <1>3 DEF Damage, Lands, dirtyVars, Attended, Dirty
<1>4. CASE Exit \/ Crash
  BY <1>4 DEF Exit, Crash, Fresh, Dirty
<1>5. CASE UNCHANGED vars
  BY <1>1, <1>5 DEF vars, Attended, Dirty
<1> QED BY <1>2, <1>3, <1>4, <1>5, StepsOfActors

-------------------------------------------------------------------------------
(* The theorems.                                                           *)

\* The invariant holds at first.
LEMMA InitInv == Init => Inv
<1> SUFFICES ASSUME Init PROVE Inv
  OBVIOUS
<1>1. TypeInv
  BY InitType
<1>2. /\ \A a \in Actors : pc[a] \in {"idle", "off"} /\ mark[a] = 0 /\ on[a] \in Profiles
      /\ \A p \in Profiles : on[p] = p
  BY Constants, HomeType DEF Init, Rest, Home
<1>3. \A p \in Profiles : file[p] = Missing /\ revision[p] = 0 /\ persisted[p] = 0
                          /\ lock[p] = Nobody /\ cache[p] = Absent
  BY DEF Init
<1>4. LockInv
  BY <1>2, <1>3 DEF LockInv, Inside, Loading, Working
<1>5. MarksInv
  BY <1>2, <1>3, Constants DEF Init, MarksInv, Marked
<1>6. CellInv /\ HurtInv
  BY <1>2, <1>3, ContentAssumption DEF CellInv, Hands, HurtInv, Loading, Working
<1>7. \A p \in Profiles : Visible(p) = {} /\ Stored(p) = {} /\ ~ Dirty(p)
  BY <1>3, StoredByFile, ViewOfFree DEF Resting, Dirty
<1>8. DiskInv /\ ToldInv
  BY <1>7 DEF Init, DiskInv, ToldInv
<1>9. WriterInv
  BY <1>7 DEF WriterInv
<1> QED BY <1>1, <1>4, <1>5, <1>6, <1>8, <1>9 DEF Inv, StoreInv

\* Every step keeps the invariant.
LEMMA StepInv == Inv /\ [Next]_vars => Inv'
<1> SUFFICES ASSUME Inv, [Next]_vars PROVE Inv'
  OBVIOUS
<1> USE DEF Inv
<1>1. TypeOK' /\ NamesInv'
  BY StepTypes, NamesKept
<1>2. LockInv' /\ MarksInv'
  BY <1>1, LocksKept, MarksKept DEF TypeInv
<1>3. CellInv' /\ HurtInv'
  BY <1>1, CellKept, HurtKept DEF StoreInv, TypeInv
<1>4. DiskInv' /\ ToldInv' /\ WriterInv'
  BY <1>1, <1>2, DiskKept, ToldKept, WriterKept
<1> QED BY <1>1, <1>2, <1>3, <1>4 DEF TypeInv, StoreInv

\* Every reachable state satisfies the inductive invariant.
THEOREM Invariance == Spec => []Inv
BY InitInv, StepInv, PTL DEF Spec

\* Every reachable state is well typed.
THEOREM TypeCorrectness == Spec => []TypeOK
<1>1. Inv => TypeOK
  BY DEF Inv, TypeInv
<1> QED BY <1>1, Invariance, PTL

\* What a client was told is on the disk or on its way there (with_ui_state_write,
\* mark_ui_state_dirty, start_ui_state_writer), and what it was told is on the
\* disk stays there: for every number of profiles and requests, every size of
\* the cache, and through any number of crashes, failures and cancellations, also
\* of requests whose rename goes on without them (write_file_atomically), until
\* such a rename takes back a newer file.
THEOREM NothingToldIsLost == Spec => []SavedOrDirty
<1>1. Inv => SavedOrDirty
  <2> SUFFICES ASSUME Inv PROVE SavedOrDirty
    OBVIOUS
  <2>1. SyncStored
    BY DEF Inv, StoreInv, DiskInv, SyncStored
  <2>2. CleanMeansSaved
    BY DEF Inv, StoreInv, ToldInv, CleanMeansSaved
  <2>3. DirtyHasWriter
    BY Constants DEF Inv, WriterInv, DirtyHasWriter, InUse, Marked, Working
  <2> QED BY <2>1, <2>2, <2>3 DEF SavedOrDirty
<1> QED BY <1>1, Invariance, PTL

-------------------------------------------------------------------------------
(* The refinement.                                                         *)

visible == [p \in Profiles |-> Visible(p)]
durable == [p \in Profiles |-> Stored(p)]

\* The first state shows an empty durable state.
LEMMA InitRefines == Init => Abstract!Init
<1> SUFFICES ASSUME Init PROVE Abstract!Init
  OBVIOUS
<1>1. \A p \in Profiles : file[p] = Missing /\ lock[p] = Nobody /\ cache[p] = Absent
  BY DEF Init
<1>2. \A p \in Profiles : Visible(p) = {} /\ Stored(p) = {}
  BY <1>1, StoredByFile, ViewOfFree DEF Resting
<1> QED BY <1>2 DEF Init, Abstract!Init

\* An eviction takes the content of one profile at most.
LEMMA OneEvicted ==
  ASSUME NEW a \in Actors, Insert(a)
  PROVE  \E v : \A q \in Profiles : q # on[a] /\ q # v => cache'[q] = cache[q]
<1>1. PICK out \in IF Cardinality(Cached) < capacity \/ Victims(a) = {}
                   THEN {{}} ELSE {{v} : v \in Victims(a)} :
        cache' = [q \in Profiles |-> CASE q = on[a] -> cell[a]
                                       [] q \in out -> Absent
                                       [] OTHER     -> cache[q]]
  BY DEF Insert
<1>2. PICK v : out \subseteq {v}
  BY <1>1
<1>3. \A q \in Profiles : q # on[a] /\ q # v => cache'[q] = cache[q]
  BY <1>1, <1>2
<1> QED BY <1>3

\* A step that changes what can be seen of one profile is a step of DurableState.
LEMMA OneProfileMoves ==
  ASSUME TypeInv, TypeOK', NEW p \in Profiles, NEW a \in Actors, capacity' = capacity,
         \A q \in Profiles \ {p} : Unmoved(q),
         \/ Unmoved(p) \/ Grown(p, a) \/ Saved(p, a) \/ Lost(p) \/ Worse(p, a)
         \/ Visible(p)' = Stored(p) /\ Stored(p)' = Stored(p) /\ (p \in hurt' <=> p \in hurt)
            /\ Crowds
  PROVE  [Abstract!Next]_(Abstract!vars)
<1> USE DEF TypeInv
<1>1. hurt \subseteq Profiles /\ hurt' \subseteq Profiles
  BY DEF TypeOK
<1>2. (capacity < Cardinality(Profiles))' = (capacity < Cardinality(Profiles))
  OBVIOUS
<1>3. Stored(p)' \in SUBSET Updates
  BY DEF Stored, TypeOK
<1>4. CASE Unmoved(p)
  <2>1. hurt' = hurt /\ visible' = visible /\ durable' = durable
    BY <1>1, <1>4 DEF Unmoved, visible, durable
  <2> QED BY <1>2, <2>1 DEF Abstract!vars, visible, durable
<1>5. CASE Grown(p, a)
  <2>1. hurt' = hurt /\ durable' = durable
    BY <1>1, <1>5 DEF Grown, Unmoved, durable
  <2>2. visible' = [visible EXCEPT ![p] = @ \cup {mark[a]}]
    BY <1>5 DEF Grown, Unmoved, visible
  <2>3. CASE mark[a] \in visible[p]
    <3>1. visible' = visible
      BY <2>2, <2>3 DEF visible
    <3> QED BY <1>2, <2>1, <3>1 DEF Abstract!vars, visible, durable
  <2>4. CASE mark[a] \notin visible[p]
    <3>1. Abstract!Apply(p)
      BY <1>2, <1>5, <2>1, <2>2, <2>4 DEF Grown, Abstract!Apply, visible, durable
    <3> QED BY <3>1 DEF Abstract!Next
  <2> QED BY <2>3, <2>4
<1>6. CASE Saved(p, a)
  <2>1. hurt' = hurt \ {p} /\ visible' = visible
    BY <1>1, <1>6 DEF Saved, Unmoved, visible
  <2>2. durable' = [durable EXCEPT ![p] = visible[p]]
    BY <1>6 DEF Saved, Unmoved, visible, durable
  <2>3. Abstract!Save(p)
    BY <1>2, <2>1, <2>2 DEF Abstract!Save, visible, durable
  <2> QED BY <2>3 DEF Abstract!Next
<1>7. CASE Visible(p)' = Stored(p) /\ Stored(p)' = Stored(p) /\ (p \in hurt' <=> p \in hurt)
           /\ (Crowds \/ p \in hurt)
  <2>1. hurt' = hurt /\ durable' = durable
    BY <1>1, <1>7 DEF Unmoved, durable
  <2>2. visible' = [visible EXCEPT ![p] = durable[p]]
    BY <1>7 DEF Unmoved, visible, durable
  <2>3. Abstract!Forget(p)
    BY <1>2, <1>7, <2>1, <2>2 DEF Abstract!Forget, Crowds, visible, durable
  <2> QED BY <2>3 DEF Abstract!Next
<1>8. CASE Worse(p, a)
  <2>1. hurt' = hurt \cup {p} /\ visible' = visible
    BY <1>1, <1>8 DEF Worse, Unmoved, visible
  <2>2. durable' = [durable EXCEPT ![p] = Stored(p)']
    BY <1>8 DEF Worse, Unmoved, durable
  <2>3. Abstract!Damage(p)
    BY <1>2, <1>3, <2>1, <2>2 DEF Abstract!Damage, visible, durable
  <2> QED BY <2>3 DEF Abstract!Next
<1> QED BY <1>4, <1>5, <1>6, <1>7, <1>8 DEF Lost

\* Every step of the store maps to a step of DurableState or to none.
LEMMA StepRefines ==
  ASSUME Inv, Inv', [Next]_vars
  PROVE  [Abstract!Next]_(Abstract!vars)
<1> USE DEF Inv, TypeInv, StoreInv
<1>1. ASSUME NEW a \in Actors, ActsAs(a)
      PROVE  [Abstract!Next]_(Abstract!vars)
  <2> DEFINE p == on[a]
  <2>1. p \in Profiles /\ capacity' = capacity
    BY <1>1, SlipsRemain DEF TypeOK
  <2>2. ASSUME NEW q \in Profiles \ {p}, cache'[q] = cache[q]
        PROVE  Unmoved(q)
    <3>1. q \in hurt' <=> q \in hurt
      BY <1>1, OthersKeepTheirProfiles
    <3>2. Stored(q)' = Stored(q) /\ Visible(q)' = Visible(q)
      BY <1>1, <2>2, ViewsElsewhere
    <3> QED BY <3>1, <3>2 DEF Unmoved
  <2>3. CASE ~ Insert(a)
    <3>1. \A q \in Profiles \ {p} : Unmoved(q)
      BY <1>1, <2>2, <2>3, OthersKeepTheirProfiles
    <3>2. PICK r \in Profiles : r = p
      BY <2>1
    <3>3. Unmoved(r) \/ Grown(r, a) \/ Saved(r, a) \/ Lost(r) \/ Worse(r, a)
      BY <1>1, <3>2, OwnViews
    <3> QED BY <2>1, <3>1, <3>2, <3>3, OneProfileMoves
  <2>4. CASE Insert(a)
    <3>1. PICK v : \A q \in Profiles : q # p /\ q # v => cache'[q] = cache[q]
      BY <2>4, OneEvicted
    <3>2. \A q \in Profiles : q = p => Unmoved(q)
      BY <2>4, ViewOfInserted
    <3>3. CASE v \in Profiles /\ v # p
      <4>1. \A q \in Profiles \ {v} : Unmoved(q)
        BY <2>2, <3>1, <3>2
      <4>2. \/ Unmoved(v)
            \/ Visible(v)' = Stored(v) /\ Stored(v)' = Stored(v) /\ (v \in hurt' <=> v \in hurt)
               /\ Crowds
        <5>1. v \in hurt' <=> v \in hurt
          BY <1>1, <3>3, OthersKeepTheirProfiles
        <5> QED BY <1>1, <3>3, <5>1, ViewsElsewhere DEF Unmoved
      <4> QED BY <2>1, <3>3, <4>1, <4>2, OneProfileMoves
    <3>4. CASE ~ (v \in Profiles /\ v # p)
      <4>1. \A q \in Profiles : Unmoved(q)
        BY <2>2, <3>1, <3>2, <3>4
      <4>2. \E q \in Profiles : TRUE
        BY <2>1
      <4> QED BY <2>1, <4>1, <4>2, OneProfileMoves
    <3> QED BY <3>3, <3>4
  <2> QED BY <2>3, <2>4
<1>2. ASSUME NEW p \in Profiles, Damage(p)
      PROVE  [Abstract!Next]_(Abstract!vars)
  <2>1. \A q \in Profiles \ {p} : Visible(q)' = Visible(q) /\ Stored(q)' = Stored(q)
    BY <1>2, ViewsOfDamage
  <2>2. Visible(p)' \in {Visible(p), Stored(p)'}
    BY <1>2 DEF Damage, Visible, cacheVars
  <2>3. Stored(p)' \in SUBSET Updates
    BY DEF Stored, TypeOK
  <2>4. hurt' = hurt \cup {p} /\ capacity' = capacity
    BY <1>2 DEF Damage, Hurts, cacheVars
  <2>5. durable' = [durable EXCEPT ![p] = Stored(p)']
    BY <2>1 DEF durable
  <2>6. visible' = visible \/ visible' = [visible EXCEPT ![p] = Stored(p)']
    BY <2>1, <2>2 DEF visible
  <2>7. (capacity < Cardinality(Profiles))' = (capacity < Cardinality(Profiles))
    BY <2>4
  <2>8. Abstract!Damage(p)
    BY <2>3, <2>4, <2>5, <2>6, <2>7 DEF Abstract!Damage, visible, durable
  <2> QED BY <2>8 DEF Abstract!Next
<1>5. ASSUME NEW p \in Profiles, Lands(p)
      PROVE  [Abstract!Next]_(Abstract!vars)
  <2>1. \A q \in Profiles \ {p} : Visible(q)' = Visible(q) /\ Stored(q)' = Stored(q)
    BY <1>5, ViewsOfDamage
  <2>2. Stored(p)' \in SUBSET Updates /\ capacity' = capacity
    BY <1>5, Landing DEF Stored, TypeOK
  <2>3. (capacity < Cardinality(Profiles))' = (capacity < Cardinality(Profiles))
    BY <2>2
  <2>4. durable' = [durable EXCEPT ![p] = Stored(p)']
    BY <2>1 DEF durable
  <2>5. CASE Hurts(p)
    <3>1. hurt' = hurt \cup {p}
      BY <2>5 DEF Hurts
    <3>2. Visible(p)' \in {Visible(p), Stored(p)'}
      BY <1>5, Landing
    <3>3. visible' = visible \/ visible' = [visible EXCEPT ![p] = Stored(p)']
      BY <2>1, <3>2 DEF visible
    <3>4. Abstract!Damage(p)
      BY <2>2, <2>3, <2>4, <3>1, <3>3 DEF Abstract!Damage, visible, durable
    <3> QED BY <3>4 DEF Abstract!Next
  <2>6. CASE ~ Hurts(p)
    <3>1. /\ hurt' = hurt /\ Visible(p)' = Visible(p)
          /\ Stored(p) \subseteq Stored(p)' /\ Stored(p)' \subseteq Visible(p) \cup Stored(p)
      BY <1>5, <2>6, Landing
    <3>2. visible' = visible
      BY <2>1, <3>1 DEF visible
    <3>3. PICK D \in SUBSET Visible(p) : Stored(p)' = Stored(p) \cup D
      <4>1. Stored(p)' = Stored(p) \cup (Stored(p)' \cap Visible(p))
        BY <3>1
      <4> QED BY <4>1
    <3>4. durable' = [durable EXCEPT ![p] = @ \cup D]
      BY <2>4, <3>3 DEF durable
    <3>5. Abstract!Arrive(p)
      BY <2>3, <3>1, <3>2, <3>3, <3>4 DEF Abstract!Arrive, visible, durable
    <3> QED BY <3>5 DEF Abstract!Next
  <2> QED BY <2>5, <2>6
<1>3. CASE Exit \/ Crash
  <2>1. Fresh /\ UNCHANGED <<file, bak>> /\ hurt' = hurt /\ capacity' = capacity
    BY <1>3 DEF Exit, Crash
  <2>2. visible' = durable /\ durable' = durable
    BY <2>1, ViewsOfRestart DEF visible, durable
  <2>3. Abstract!Restart
    BY <2>1, <2>2 DEF Abstract!Restart, visible, durable
  <2> QED BY <2>3 DEF Abstract!Next
<1>4. CASE UNCHANGED vars
  BY <1>4 DEF vars, Abstract!vars, Visible, Stored
<1> QED BY <1>1, <1>2, <1>3, <1>4, <1>5, StepsOfActors

\* The store implements the state it stands for (DurableState), and so for every
\* number of profiles and requests, every size of the cache and every bound:
\* readers see each update that was made, a save makes exactly that durable, and
\* an update is lost only to a restart, a crowded cache, or a file that was damaged
\* or taken back by the rename of a request that is gone.
THEOREM Refinement == Spec => ImplementsDurableState
<1>1. Inv /\ Inv' /\ [Next]_vars => [Abstract!Next]_(Abstract!vars)
  BY StepRefines
<1> QED BY <1>1, Invariance, InitRefines, PTL DEF Spec, ImplementsDurableState, Abstract!Spec
===============================================================================
