----------------------------- MODULE DurableState -----------------------------
(***************************************************************************)
(* What the rest of the gateway may expect of the state of the profiles:   *)
(* each profile has the updates that readers see and the updates that a    *)
(* restart would find again.  UiStateStore implements it.                  *)
(***************************************************************************)
CONSTANTS Profiles, Updates

VARIABLES
  visible,   \* visible[p]: the updates the next reader sees
  durable,   \* durable[p]: the updates a restart finds
  damaged,   \* the profiles whose file was damaged or taken back
  crowded    \* there are more profiles than the store keeps in memory

vars == <<visible, durable, damaged, crowded>>

Init ==
  /\ visible = [p \in Profiles |-> {}]
  /\ durable = [p \in Profiles |-> {}]
  /\ damaged = {}
  /\ crowded \in BOOLEAN

Apply(p) ==
  /\ \E u \in Updates \ visible[p] : visible' = [visible EXCEPT ![p] = @ \cup {u}]
  /\ UNCHANGED <<durable, damaged, crowded>>

\* The file becomes what readers see, all of it; a damaged file is whole again.
Save(p) ==
  /\ durable' = [durable EXCEPT ![p] = visible[p]]
  /\ damaged' = damaged \ {p}
  /\ UNCHANGED <<visible, crowded>>

\* A save that was given up may still arrive: some of what readers see is saved.
Arrive(p) ==
  /\ \E D \in SUBSET visible[p] : durable' = [durable EXCEPT ![p] = @ \cup D]
  /\ UNCHANGED <<visible, damaged, crowded>>

Restart ==
  /\ visible' = durable
  /\ UNCHANGED <<durable, damaged, crowded>>

\* A crowded store may lose an update that was not saved, never a saved one.
Forget(p) ==
  /\ crowded \/ p \in damaged
  /\ visible' = [visible EXCEPT ![p] = durable[p]]
  /\ UNCHANGED <<durable, damaged, crowded>>

\* The file is damaged from outside, or taken back by a save that was given up and
\* arrives late, and an older content or none is left.
Damage(p) ==
  /\ \E D \in SUBSET Updates :
       /\ durable' = [durable EXCEPT ![p] = D]
       /\ visible' = [visible EXCEPT ![p] = D] \/ UNCHANGED visible
  /\ damaged' = damaged \cup {p}
  /\ UNCHANGED crowded

Next ==
  \/ Restart
  \/ \E p \in Profiles : Apply(p) \/ Save(p) \/ Arrive(p) \/ Forget(p) \/ Damage(p)

Spec == Init /\ [][Next]_vars
===============================================================================
