---------------------------- MODULE CommitConfirm ----------------------------
(***************************************************************************)
(* What commit-confirm promises an administrator, without saying how: one  *)
(* change at a time is on trial, and until it is kept the way back to the  *)
(* configuration last agreed to stays open and nothing on trial is stored. *)
(* The promise lasts as long as what it is based on.                       *)
(***************************************************************************)
CONSTANT Configs

VARIABLES
  live,    \* the configuration in force
  kept,    \* the configuration last agreed to
  stored,  \* what a power cycle comes back with
  sound    \* nothing that the promise is based on has failed so far

cvars == <<live, kept, stored>>

Agreed == live = kept

Start == live \in Configs /\ kept = live /\ stored = live /\ sound = TRUE

\* A change goes on trial, only over an agreed configuration.
Try(cfg) == Agreed /\ live' = cfg /\ UNCHANGED <<kept, stored>>

\* The change on trial is agreed to.
Keep == kept' = live /\ UNCHANGED <<live, stored>>

\* The change on trial is undone, completely.
Undo == live' = kept /\ UNCHANGED <<kept, stored>>

\* A change made without a trial is agreed to at once.
Adopt(cfg) == Agreed /\ live' = cfg /\ kept' = cfg /\ UNCHANGED stored

\* Only an agreed configuration is stored.
Store == Agreed /\ stored' = live /\ UNCHANGED <<live, kept>>

PowerCycle == live' = stored /\ kept' = stored /\ UNCHANGED stored

Step == \/ \E cfg \in Configs : Try(cfg) \/ Adopt(cfg)
        \/ Keep \/ Undo \/ Store \/ PowerCycle

ConfirmSpec == Start /\ [][sound' => sound /\ [Step]_cvars]_<<cvars, sound>>
=============================================================================
