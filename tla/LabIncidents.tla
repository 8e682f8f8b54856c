---------------------------- MODULE LabIncidents -----------------------------
(***************************************************************************)
(* What Orchestrator and Simulator promise together, without handlers and  *)
(* requests: the lab has one incident at a time.  A fault strikes when     *)
(* none is held or believed in, is noted after it has struck and forgotten *)
(* after it is healed.  After overlapping requests, a failure or a restart *)
(* the lab is excused, and it is still only what has struck that is noted. *)
(***************************************************************************)
CONSTANTS Scenario, Asset, Target, None

VARIABLES
  truth,    \* the scenario whose fault each asset has, or None
  unnoted,  \* scenarios that have struck and are still to be noted
  belief,   \* the scenario that is believed active on each asset, or None
  excused   \* requests have overlapped, or something has failed

vars == <<truth, unnoted, belief, excused>>

Nothing == [a \in Asset |-> None]

Init == truth = Nothing /\ unnoted = {} /\ belief = Nothing /\ excused = FALSE

\* An excused lab may have forgotten that it is to note s.
Strike(s) ==
  /\ excused \/ (truth = Nothing /\ unnoted = {} /\ belief = Nothing)
  /\ truth' = [truth EXCEPT ![Target[s]] = s]
  /\ unnoted' = unnoted \cup {s} \/ (excused /\ unnoted' = unnoted)
  /\ UNCHANGED <<belief, excused>>

\* Two requests of an excused lab may each note s.
Note(s) ==
  /\ s \in unnoted
  /\ excused \/ belief = Nothing
  /\ belief' = [belief EXCEPT ![Target[s]] = s]
  /\ unnoted' = unnoted \ {s} \/ (excused /\ unnoted' = unnoted)
  /\ UNCHANGED <<truth, excused>>

Heal(a) ==
  /\ truth' = [truth EXCEPT ![a] = None]
  /\ UNCHANGED <<unnoted, belief, excused>>

Forget(a) ==
  /\ excused \/ truth[a] = None
  /\ belief' = [belief EXCEPT ![a] = None]
  /\ UNCHANGED <<truth, unnoted, excused>>

Excuse ==
  /\ excused' = TRUE
  /\ truth' \in {truth, Nothing} /\ belief' \in {belief, Nothing}
  /\ unnoted' \subseteq unnoted

Next ==
  \/ \E s \in Scenario : Strike(s) \/ Note(s)
  \/ \E a \in Asset : Heal(a) \/ Forget(a)
  \/ Excuse

Spec == Init /\ [][Next]_vars

Named(s) == truth[Target[s]] = s \/ s \in unnoted \/ belief[Target[s]] = s

\* A lab that needs no excuse never has, notes or believes in two incidents.
OneIncident == ~excused => \A s, t \in Scenario : Named(s) /\ Named(t) => s = t
=============================================================================
