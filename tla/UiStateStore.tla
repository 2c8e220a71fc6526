----------------------------- MODULE UiStateStore -----------------------------
(***************************************************************************)
(* The store of the profiles' state (ui_state_support.rs): one JSON file   *)
(* per profile with a backup one write behind, a bounded cache, a lock per *)
(* profile, and a background writer that runs as long as the profile's     *)
(* revision is ahead of the revision that was persisted.                   *)
(*                                                                         *)
(* The content of a state is the set of updates it has seen.  An actor is  *)
(* a request, the writer of a profile (named by the profile) or the main   *)
(* task, which flushes the store before the gateway ends.                  *)
(***************************************************************************)
EXTENDS Integers, FiniteSets, FiniteSetsExt

CONSTANTS
  Profiles,
  Tasks,        \* requests and handlers that use the store
  Main,         \* the main task
  Nobody,       \* the owner of a free lock
  Absent,       \* not in the cache
  Corrupt, Missing,  \* a file that does not parse, no file
  Capacities,   \* the sizes of the cache that are considered
  Faults, MaxFaults, \* bound: kinds of faults and their number in a behaviour
  MaxOps,       \* bound: updates in a behaviour
  Attempts      \* of the flush

Updates == 1..MaxOps
Actors  == Tasks \cup Profiles \cup {Main}
Unreadable == {Corrupt, Missing}

ASSUME ActorsAssumption ==
  /\ IsFiniteSet(Profiles) /\ Profiles # {}
  /\ Tasks \cap Profiles = {} /\ Main \notin Tasks \cup Profiles
  /\ Nobody \notin Actors
ASSUME ContentAssumption ==
  /\ Corrupt # Missing
  /\ \A S \in SUBSET Updates : S \notin Unreadable /\ S # Absent
ASSUME BoundsAssumption ==
  /\ MaxOps \in Nat /\ MaxFaults \in Nat /\ Attempts \in Nat
  /\ Capacities \subseteq Nat

VARIABLES
  file, bak,    \* the state file and json.bak of each profile
  late, lateBak,  \* what renames that outlive a dropped request will put there
  cache,        \* ui_state_cache
  capacity,     \* UI_STATE_CACHE_MAX_ENTRIES
  lock,         \* ui_state_locks: the owner
  revision, persisted,  \* ui_state_persistence
  pc,           \* where each actor is; a writer is "off" unless writer_running
  on, kind,     \* the profile and the kind of an actor's operation
  cell,         \* the content an actor works with
  mark,         \* the revision an actor is going to record
  seen,         \* the profiles an actor found dirty before it evicts
  todo, round,  \* the main task's flush
  ops, faults,  \* counters for the bounds
  stored, told, \* history: content answered as written, and as accepted
  kept,         \* history: what had been told when the flush found all clean
  stranded,     \* history: marked dirty by a request that was cancelled
  slipped,      \* history: evicted in use, or dirtied since the evictor looked
  hurt          \* history: profiles whose file was damaged or taken back

diskVars  == <<file, bak, late, lateBak>>
cacheVars == <<cache, capacity>>
dirtyVars == <<revision, persisted>>
flushVars == <<todo, round>>
bounds    == <<ops, faults>>
history   == <<stored, told, kept, stranded, slipped, hurt>>
vars == <<file, bak, late, lateBak, cache, capacity, lock, revision, persisted, pc, on,
          kind, cell, mark, seen, todo, round, ops, faults, stored, told, kept, stranded,
          slipped, hurt>>

\* with_ui_state_write, .._debounced, one of them whose closure fails, .._read.
Kinds == {"write", "debounced", "refused", "read"}

\* Where an actor has the content of its profile, which it locked, in its hands.
Loading == {"repair", "gather", "insert"}
Working == {"apply", "mark", "schedule", "start", "backup", "store", "record", "fail"}
Inside  == {"load", "take"} \cup Loading \cup Working

TypeOK ==
  /\ file \in [Profiles -> (SUBSET Updates) \cup Unreadable]
  /\ bak \in [Profiles -> (SUBSET Updates) \cup Unreadable]
  /\ late \in [Profiles -> SUBSET ((SUBSET Updates) \cup {Missing})]
  /\ lateBak \in [Profiles -> SUBSET ((SUBSET Updates) \cup {Corrupt})]
  /\ cache \in [Profiles -> (SUBSET Updates) \cup {Absent}]
  /\ capacity \in Capacities
  /\ lock \in [Profiles -> Actors \cup {Nobody}]
  /\ revision \in [Profiles -> Nat] /\ persisted \in [Profiles -> Nat]
  /\ pc \in [Actors -> Inside \cup {"idle", "off", "sleep", "enter", "check",
                                    "flush", "next", "exit"}]
  /\ on \in [Actors -> Profiles] /\ kind \in [Actors -> Kinds \cup {"persist"}]
  /\ cell \in [Actors -> SUBSET Updates]
  /\ mark \in [Actors -> Nat]
  /\ seen \in [Actors -> SUBSET Profiles]
  /\ todo \in SUBSET (Profiles \X Nat) /\ round \in Nat
  /\ ops \in Nat /\ faults \in Nat
  /\ stored \in [Profiles -> SUBSET Updates]
  /\ told \in [Profiles -> SUBSET Updates]
  /\ kept \in [Profiles -> SUBSET Updates]
  /\ stranded \in SUBSET Profiles /\ slipped \in SUBSET Profiles
  /\ hurt \in SUBSET Profiles

Dirty(p) == revision[p] # persisted[p]

\* What a restart finds of a profile, and what the next reader sees of it.
Stored(p) ==
  CASE file[p] \notin Unreadable -> file[p]
    [] file[p] = Corrupt /\ bak[p] \notin Unreadable -> bak[p]
    [] OTHER -> {}

Visible(p) ==
  IF lock[p] # Nobody /\ pc[lock[p]] \in Loading \cup Working THEN cell[lock[p]]
  ELSE IF cache[p] # Absent THEN cache[p]
  ELSE Stored(p)

\* Between two operations an actor stands for no profile but its own.
Home(a) == IF a \in Profiles THEN a ELSE CHOOSE p \in Profiles : TRUE

Rest == [a \in Actors |-> IF a \in Profiles THEN "off" ELSE "idle"]

\* What a process that just started has in memory.
Fresh ==
  /\ late' = [p \in Profiles |-> {}] /\ lateBak' = [p \in Profiles |-> {}]
  /\ cache' = [p \in Profiles |-> Absent] /\ lock' = [p \in Profiles |-> Nobody]
  /\ revision' = [p \in Profiles |-> 0] /\ persisted' = [p \in Profiles |-> 0]
  /\ pc' = Rest /\ cell' = [a \in Actors |-> {}]
  /\ on' = [a \in Actors |-> Home(a)] /\ kind' = [a \in Actors |-> "persist"]
  /\ mark' = [a \in Actors |-> 0] /\ seen' = [a \in Actors |-> {}]
  /\ todo' = {} /\ round' = 0
  /\ stranded' = {} /\ slipped' = {}

Init ==
  /\ file = [p \in Profiles |-> Missing] /\ bak = [p \in Profiles |-> Missing]
  /\ late = [p \in Profiles |-> {}] /\ lateBak = [p \in Profiles |-> {}]
  /\ cache = [p \in Profiles |-> Absent] /\ capacity \in Capacities
  /\ lock = [p \in Profiles |-> Nobody]
  /\ revision = [p \in Profiles |-> 0] /\ persisted = [p \in Profiles |-> 0]
  /\ pc = Rest
  /\ on = [a \in Actors |-> Home(a)]
  /\ kind = [a \in Actors |-> "persist"]
  /\ cell = [a \in Actors |-> {}] /\ mark = [a \in Actors |-> 0]
  /\ seen = [a \in Actors |-> {}]
  /\ todo = {} /\ round = 0
  /\ ops = 0 /\ faults = 0
  /\ stored = [p \in Profiles |-> {}] /\ told = [p \in Profiles |-> {}]
  /\ kept = [p \in Profiles |-> {}]
  /\ stranded = {} /\ slipped = {} /\ hurt = {}

-------------------------------------------------------------------------------
(* Entering: the lock of the profile and its content.                      *)

Goes(a, l) == pc' = [pc EXCEPT ![a] = l]

\* Where an actor continues once it is through, or was refused.
After(a, fine) ==
  CASE a \in Tasks    -> "idle"
    [] a = Main       -> "next"
    [] a \in Profiles -> IF fine THEN "check" ELSE "sleep"

\* It is through, or dropped: nothing of its operation remains.
Ends(a) ==
  /\ lock' = [lock EXCEPT ![on[a]] = IF @ = a THEN Nobody ELSE @]
  /\ on' = [on EXCEPT ![a] = Home(a)] /\ kind' = [kind EXCEPT ![a] = "persist"]
  /\ cell' = [cell EXCEPT ![a] = {}] /\ mark' = [mark EXCEPT ![a] = 0]

Leaves(a, fine) == Ends(a) /\ Goes(a, After(a, fine))

BeginBug(t) ==
  /\ pc[t] = "idle" /\ ops < MaxOps
  /\ \E p \in Profiles, k \in Kinds :
       /\ on' = [on EXCEPT ![t] = p] /\ kind' = [kind EXCEPT ![t] = k]
  /\ ops' = ops + 1
  /\ mark' = [mark EXCEPT ![t] = ops]   \* the name of the update, until it is made
  /\ Goes(t, "enter")
  /\ UNCHANGED <<diskVars, cacheVars, lock, dirtyVars, cell, seen, flushVars, faults, history>>

Begin(t) ==
  /\ pc[t] = "idle" /\ ops < MaxOps
  /\ \E p \in Profiles, k \in Kinds :
       /\ on' = [on EXCEPT ![t] = p] /\ kind' = [kind EXCEPT ![t] = k]
  /\ ops' = ops + 1
  /\ mark' = [mark EXCEPT ![t] = ops + 1]   \* the name of the update, until it is made
  /\ Goes(t, "enter")
  /\ UNCHANGED <<diskVars, cacheVars, lock, dirtyVars, cell, seen, flushVars, faults, history>>

Enter(a) ==
  /\ pc[a] = "enter" /\ lock[on[a]] = Nobody
  /\ lock' = [lock EXCEPT ![on[a]] = a]
  /\ Goes(a, IF cache[on[a]] = Absent THEN "load" ELSE "take")
  /\ UNCHANGED <<diskVars, cacheVars, dirtyVars, on, kind, cell, mark, seen, flushVars,
                 bounds, history>>

\* A file that does not parse is first moved out of the way.
Load(a) ==
  LET p == on[a] IN
  /\ pc[a] = "load"
  /\ \/ /\ file[p] # Corrupt
        /\ cell' = [cell EXCEPT ![a] = IF file[p] = Missing THEN {} ELSE file[p]]
        /\ Goes(a, "gather")
        /\ UNCHANGED file
     \/ /\ file[p] = Corrupt
        /\ file' = [file EXCEPT ![p] = Missing]
        /\ cell' = [cell EXCEPT ![a] = IF bak[p] \in Unreadable THEN {} ELSE bak[p]]
        /\ Goes(a, "repair")
  /\ UNCHANGED <<bak, late, lateBak, cacheVars, lock, dirtyVars, on, kind, mark, seen,
                 flushVars, bounds, history>>

Repair(a) ==
  /\ pc[a] = "repair"
  /\ file' = [file EXCEPT ![on[a]] = cell[a]]
  /\ hurt' = hurt \ {on[a]}
  /\ Goes(a, "gather")
  /\ UNCHANGED <<bak, late, lateBak, cacheVars, lock, dirtyVars, on, kind, cell, mark, seen,
                 flushVars, bounds, stored, told, kept, stranded, slipped>>

Gather(a) ==
  /\ pc[a] = "gather"
  /\ seen' = [seen EXCEPT ![a] = {p \in Profiles : Dirty(p)}]
  /\ Goes(a, "insert")
  /\ UNCHANGED <<diskVars, cacheVars, lock, dirtyVars, on, kind, cell, mark, flushVars,
                 bounds, history>>

Cached == {p \in Profiles : cache[p] # Absent}
InUse(p) == lock[p] # Nobody /\ pc[lock[p]] \in Working

\* The profiles an insertion may evict: not itself, not one it saw dirty.
Victims(a) == {q \in Cached \ {on[a]} : q \notin seen[a]}
Insert(a) ==
  /\ pc[a] = "insert"
  /\ \E out \in IF Cardinality(Cached) < capacity \/ Victims(a) = {}
                THEN {{}} ELSE {{q} : q \in Victims(a)} :
       /\ cache' = [q \in Profiles |-> CASE q = on[a] -> cell[a]
                                         [] q \in out -> Absent
                                         [] OTHER     -> cache[q]]
       /\ slipped' = slipped \cup {q \in out \ seen[a] : Dirty(q) \/ InUse(q)}
  /\ seen' = [seen EXCEPT ![a] = {}]
  /\ Goes(a, "take")
  /\ UNCHANGED <<diskVars, capacity, lock, dirtyVars, on, kind, cell, mark, flushVars,
                 bounds, stored, told, kept, stranded, hurt>>

\* The entry may have been evicted again since it was found or inserted.
Take(a) ==
  LET p == on[a] IN
  /\ pc[a] = "take"
  /\ \/ /\ cache[p] = Absent \/ kind[a] = "read"
        /\ Leaves(a, FALSE)
     \/ /\ cache[p] # Absent /\ kind[a] # "read"
        /\ cell' = [cell EXCEPT ![a] = cache[p]]
        /\ Goes(a, IF a \in Tasks THEN "apply" ELSE "backup")
        /\ UNCHANGED <<lock, on, kind, mark>>
  /\ UNCHANGED <<diskVars, cacheVars, dirtyVars, seen, flushVars, bounds, history>>

-------------------------------------------------------------------------------
(* The operations of requests.                                             *)

ApplyBug(t) ==
  LET p == on[t] IN
  /\ pc[t] = "apply"
  /\ \E change \in IF kind[t] = "refused" THEN BOOLEAN ELSE {TRUE} :
       LET made == IF change THEN cell[t] \cup {mark[t]} ELSE cell[t] IN
       /\ cell' = [cell EXCEPT ![t] = made]
       /\ cache' = [cache EXCEPT ![p] = IF kind[t] = "write" THEN @ ELSE made]
  /\ Goes(t, IF kind[t] = "write" THEN "mark" ELSE "schedule")
  /\ UNCHANGED <<diskVars, capacity, lock, dirtyVars, on, kind, mark, seen, flushVars,
                 bounds, history>>

\* A closure that fails may have changed the state before it did.
Apply(t) ==
  LET p == on[t] IN
  /\ pc[t] = "apply"
  /\ \E change \in IF kind[t] = "refused" THEN BOOLEAN ELSE {TRUE} :
       LET made == IF change THEN cell[t] \cup {mark[t]} ELSE cell[t] IN
       /\ cell' = [cell EXCEPT ![t] = made]
       /\ cache' = [cache EXCEPT ![p] = IF @ = Absent THEN Absent ELSE made]
  /\ Goes(t, IF kind[t] = "write" THEN "mark" ELSE "schedule")
  /\ UNCHANGED <<diskVars, capacity, lock, dirtyVars, on, kind, mark, seen, flushVars,
                 bounds, history>>

\* mark_ui_state_dirty, before the write of a request that waits for it ...
Mark(t) ==
  /\ pc[t] \in {"mark", "schedule"}
  /\ revision' = [revision EXCEPT ![on[t]] = @ + 1]
  /\ mark' = [mark EXCEPT ![t] = revision[on[t]] + 1]
  /\ Goes(t, IF pc[t] = "mark" THEN "backup" ELSE "start")
  /\ UNCHANGED <<diskVars, cacheVars, lock, persisted, on, kind, cell, seen, flushVars,
                 bounds, history>>

StartWriterBug(t) ==
  LET p == on[t] IN
  /\ pc[t] \in {"start", "fail"}
  /\ Ends(t)
  /\ pc' = [pc EXCEPT ![t] = "idle", ![p] = IF @ = "off" /\ pc[t] = "start" THEN "sleep" ELSE @]
  /\ stranded' = stranded \ {p}
  /\ told' = [told EXCEPT ![p] = IF kind[t] = "debounced" THEN @ \cup cell[t] ELSE @]
  /\ UNCHANGED <<diskVars, cacheVars, dirtyVars, seen, flushVars, bounds, stored, kept,
                 slipped, hurt>>

\* ... and for one that does not, which leaves it to the background writer, as
\* does one whose write failed.
StartWriter(t) ==
  LET p == on[t] IN
  /\ pc[t] \in {"start", "fail"}
  /\ Ends(t)
  /\ pc' = [pc EXCEPT ![t] = "idle", ![p] = IF @ = "off" THEN "sleep" ELSE @]
  /\ stranded' = stranded \ {p}
  /\ told' = [told EXCEPT ![p] = IF kind[t] = "debounced" THEN @ \cup cell[t] ELSE @]
  /\ UNCHANGED <<diskVars, cacheVars, dirtyVars, seen, flushVars, bounds, stored, kept,
                 slipped, hurt>>
-------------------------------------------------------------------------------
(* The write: the old bytes to the backup, the new ones to the file.       *)

Strikes(f) ==
  /\ f \in Faults /\ faults < MaxFaults
  /\ faults' = faults + 1

\* The bytes are copied unread: a damaged file makes a damaged backup.  A file
\* that cannot be read is not copied.
Backup(a) ==
  LET p == on[a] IN
  /\ pc[a] = "backup"
  /\ \/ /\ bak' = [bak EXCEPT ![p] = IF file[p] = Missing THEN @ ELSE file[p]]
        /\ UNCHANGED bounds
     \/ Strikes("fail") /\ UNCHANGED <<bak, ops>>
  /\ Goes(a, "store")
  /\ UNCHANGED <<file, late, lateBak, cacheVars, lock, dirtyVars, on, kind, cell, mark, seen,
                 flushVars, history>>

Store(a) ==
  LET p == on[a] IN
  /\ pc[a] = "store"
  /\ file' = [file EXCEPT ![p] = cell[a]]
  /\ hurt' = hurt \ {p}
  /\ Goes(a, "record")
  /\ UNCHANGED <<bak, late, lateBak, cacheVars, lock, dirtyVars, on, kind, cell, mark, seen,
                 flushVars, bounds, stored, told, kept, stranded, slipped>>

Larger(m, n) == IF m > n THEN m ELSE n

Record(a) ==
  LET p == on[a]
      now == Larger(persisted[p], mark[a])
  IN
  /\ pc[a] = "record"
  /\ persisted' = [persisted EXCEPT ![p] = now]
  /\ IF a \in Tasks /\ p \notin hurt
       THEN /\ stored' = [stored EXCEPT ![p] = @ \cup cell[a]]
            /\ told' = [told EXCEPT ![p] = @ \cup cell[a]]
       ELSE UNCHANGED <<stored, told>>
  /\ stranded' = IF revision[p] = now THEN stranded \ {p} ELSE stranded
  /\ Leaves(a, TRUE)
  /\ UNCHANGED <<diskVars, cacheVars, revision, seen, flushVars, bounds, kept, slipped,
                 hurt>>

-------------------------------------------------------------------------------
(* The background writer of a profile.                                     *)

\* It reads the revision before it has the lock, the content after.
WriterWakes(p) ==
  /\ pc[p] = "sleep"
  /\ mark' = [mark EXCEPT ![p] = revision[p]]
  /\ Goes(p, "enter")
  /\ UNCHANGED <<diskVars, cacheVars, lock, dirtyVars, on, kind, cell, seen, flushVars,
                 bounds, history>>

\* It is running until the moment it sees that nothing is left to write.
WriterChecks(p) ==
  /\ pc[p] = "check"
  /\ Goes(p, IF Dirty(p) THEN "sleep" ELSE "off")
  /\ UNCHANGED <<diskVars, cacheVars, lock, dirtyVars, on, kind, cell, mark, seen,
                 flushVars, bounds, history>>
-------------------------------------------------------------------------------
(* The flush of the main task.  Handlers that run on do not wait for it.   *)

Stop ==
  /\ pc[Main] = "idle"
  /\ Goes(Main, "flush")
  /\ UNCHANGED <<diskVars, cacheVars, lock, dirtyVars, on, kind, cell, mark, seen,
                 flushVars, bounds, history>>

Collect ==
  LET dirty == {p \in Profiles : Dirty(p)}
      more  == round < Attempts
  IN
  /\ pc[Main] = "flush"
  /\ todo' = IF more THEN {<<p, revision[p]>> : p \in dirty} ELSE {}
  /\ kept' = [p \in Profiles |-> IF more /\ dirty = {} /\ p \notin slipped
                                   THEN told[p] ELSE stored[p]]
  /\ Goes(Main, IF more /\ dirty # {} THEN "next" ELSE "exit")
  /\ UNCHANGED <<diskVars, cacheVars, lock, dirtyVars, on, kind, cell, mark, seen, round,
                 bounds, stored, told, stranded, slipped, hurt>>

FlushNext ==
  /\ pc[Main] = "next"
  /\ \/ \E t \in todo :
          /\ todo' = todo \ {t}
          /\ on' = [on EXCEPT ![Main] = t[1]] /\ mark' = [mark EXCEPT ![Main] = t[2]]
          /\ Goes(Main, "enter")
          /\ UNCHANGED round
     \/ /\ todo = {}
        /\ round' = round + 1
        /\ Goes(Main, "flush")
        /\ UNCHANGED <<todo, on, mark>>
  /\ UNCHANGED <<diskVars, cacheVars, lock, dirtyVars, kind, cell, seen, bounds, history>>

\* The gateway ends; the next one starts from the files.
Exit ==
  /\ pc[Main] = "exit"
  /\ Fresh
  /\ told' = kept
  /\ UNCHANGED <<file, bak, capacity, bounds, stored, kept, hurt>>

-------------------------------------------------------------------------------
(* Faults.                                                                 *)

Crash ==
  /\ Strikes("crash")
  /\ Fresh
  /\ told' = stored
  /\ UNCHANGED <<file, bak, capacity, ops, stored, kept, hurt>>

\* A read or a write of the disk fails.  A request whose own write fails still
\* starts the background writer.
DiskFails(a) ==
  /\ Strikes("fail")
  /\ pc[a] \in {"load", "repair", "backup", "store"}
  /\ IF a \in Tasks /\ pc[a] \in {"backup", "store"}
       THEN Goes(a, "fail") /\ UNCHANGED <<lock, on, kind, cell, mark>>
       ELSE Leaves(a, FALSE)
  /\ UNCHANGED <<diskVars, cacheVars, dirtyVars, seen, flushVars, ops, history>>

\* Nothing is promised any more of what the file of a profile held.
Hurts(p) ==
  /\ hurt' = hurt \cup {p}
  /\ stored' = [stored EXCEPT ![p] = {}] /\ told' = [told EXCEPT ![p] = {}]
  /\ kept' = [kept EXCEPT ![p] = {}]

\* Something else damages a file.
Damage(p) ==
  /\ Strikes("corrupt")
  /\ file[p] \notin Unreadable
  /\ file' = [file EXCEPT ![p] = Corrupt]
  /\ Hurts(p)
  /\ UNCHANGED <<bak, late, lateBak, cacheVars, lock, dirtyVars, pc, on, kind, cell, mark,
                 seen, flushVars, ops, stranded, slipped>>

\* What a rename that was started for an actor will put in the place of the file
\* (Missing: it moves a corrupt one away), and of the backup.
OverFile(a) ==
  CASE pc[a] \in {"repair", "store"}              -> {cell[a]}
    [] pc[a] = "load" /\ file[on[a]] = Corrupt -> {Missing}
    [] OTHER -> {}
OverBackup(a) == IF pc[a] = "backup" THEN {file[on[a]]} \ {Missing} ELSE {}

\* The connection of a request is gone: its handler is dropped where it waits.
\* That frees the lock; a rename that was started goes on without it.
Cancel(t) ==
  LET p == on[t] IN
  /\ Strikes("cancel")
  /\ pc[t] # "idle"
  /\ \/ UNCHANGED <<late, lateBak>>
     \/ /\ late' = [late EXCEPT ![p] = @ \cup OverFile(t)]
        /\ lateBak' = [lateBak EXCEPT ![p] = @ \cup OverBackup(t)]
  /\ Ends(t)
  /\ stranded' = IF pc[t] \in {"start", "backup", "store", "record", "fail"} /\ pc[p] = "off"
                   THEN stranded \cup {p} ELSE stranded
  /\ Goes(t, "idle")
  /\ seen' = [seen EXCEPT ![t] = {}]
  /\ UNCHANGED <<file, bak, cacheVars, dirtyVars, flushVars, ops, stored, told,
                 kept, slipped, hurt>>

\* Such a rename takes place, maybe over what was written since.
Lands(p) ==
  /\ \/ \E c \in late[p] :
          /\ file' = [file EXCEPT ![p] = c]
          /\ late' = [late EXCEPT ![p] = @ \ {c}]
          /\ UNCHANGED <<bak, lateBak>>
     \/ \E c \in lateBak[p] :
          /\ bak' = [bak EXCEPT ![p] = c]
          /\ lateBak' = [lateBak EXCEPT ![p] = @ \ {c}]
          /\ UNCHANGED <<file, late>>
  /\ IF Stored(p) \subseteq Stored(p)' /\ Stored(p)' \subseteq Visible(p) \cup Stored(p)
       THEN UNCHANGED <<stored, told, kept, hurt>>
       ELSE Hurts(p)
  /\ UNCHANGED <<cacheVars, lock, dirtyVars, pc, on, kind, cell, mark, seen, flushVars,
                 bounds, stranded, slipped>>

-------------------------------------------------------------------------------
Persists(a) ==
  \/ Enter(a) \/ Load(a) \/ Repair(a) \/ Gather(a) \/ Insert(a) \/ Take(a)
  \/ Backup(a) \/ Store(a) \/ Record(a)

Works(t)  == Apply(t) \/ Mark(t) \/ StartWriter(t)
Writes(p) == WriterWakes(p) \/ WriterChecks(p)
Flushes   == Collect \/ FlushNext \/ Exit

Next ==
  \/ \E a \in Actors : Persists(a) \/ DiskFails(a)
  \/ \E t \in Tasks : Begin(t) \/ Works(t) \/ Cancel(t)
  \/ \E p \in Profiles : Writes(p) \/ Damage(p) \/ Lands(p)
  \/ Stop \/ Flushes \/ Crash

Spec == Init /\ [][Next]_vars

-------------------------------------------------------------------------------
(* Properties.                                                             *)

\* with_ui_state_write (:700): what a request was told to be written is on the
\* disk from then on: after crashes, failed and cancelled writes of others, and
\* evictions, and whoever writes the profile next.  Only damage to the file takes
\* it back, and a rename that outlives the request it was started for (:541).
SyncStored == \A p \in Profiles \ hurt : stored[p] \subseteq Stored(p)

\* The two revisions (:426, :452, :695) are the only record of unsaved work: when
\* they are equal, every content a request was answered with is on the disk.
\* The state of a gateway that ended after a clean flush (:483) is judged the
\* same way by the next one.  The exception is the eviction of a profile that was
\* dirtied after the evictor looked (:356).
CleanMeansSaved ==
  \A p \in Profiles \ (hurt \cup slipped) : Dirty(p) \/ told[p] \subseteq Stored(p)

\* start_ui_state_writer and the end of run_ui_state_writer (:449) leave no gap: as
\* long as a profile is dirty its writer runs, unless the request that marked it
\* is still at work or was cancelled.
DirtyHasWriter ==
  \A p \in Profiles :
    Dirty(p) => \/ pc[p] # "off"
                \/ p \in stranded
                \/ InUse(p) /\ lock[p] \in Tasks

\* What a client was told is on the disk or on its way there, and what it was told
\* is on the disk stays there.
SavedOrDirty == SyncStored /\ CleanMeansSaved /\ DirtyHasWriter

\* The store implements the state it stands for: readers see every update that
\* was made, saving makes exactly that durable, and an update is lost only to a
\* restart, a file damaged or taken back, or a crowded cache.
Abstract == INSTANCE DurableState WITH
  visible <- [p \in Profiles |-> Visible(p)],
  durable <- [p \in Profiles |-> Stored(p)],
  damaged <- hurt,
  crowded <- capacity < Cardinality(Profiles)
ImplementsDurableState == Abstract!Spec
===============================================================================
