------------------------------ MODULE Enrollment ------------------------------
(***************************************************************************)
(* Enrollment of the cloud agent (qfagent): the conf-mode owner that runs  *)
(* inside a VyOS commit (commands.rs, commit_inner), the post-commit scrub *)
(* that removes the consumed token from the configuration (scrub_inner),   *)
(* the daemon with its certificate renewal (daemon.rs, control.rs) and     *)
(* `qf identity regenerate`.  They are separate processes that share only  *)
(* files: state.json, the certificate files and the scrub trigger.         *)
(*                                                                         *)
(* state.json and the certificates of an enrollment are named by the token *)
(* that made it; a token stands for its gateway too.                       *)
(***************************************************************************)
EXTENDS Naturals

CONSTANTS
  Tokens,       \* one-time enrollment tokens
  None,
  MaxAttempts,  \* attempts of the scrub to commit (12 in the code)
  MaxKeys       \* bound: device keys generated

ASSUME EnrollmentAssumption == /\ None \notin Tokens
                               /\ MaxAttempts \in Nat \ {0}
                               /\ MaxKeys \in Nat \ {0}

VARIABLES
  active,   \* the enroll-token in the running configuration
  boot,     \* ... in the boot configuration
  sess,     \* ... in the session being committed
  cpc,      \* the owner's progress inside the commit; "idle": lock free
  who,      \* whose commit it is: "user", "boot" or "scrub"
  st,       \* state.json: None, or the token it records as consumed
  cert,     \* the certificate files: the enrollment and the device key
  key,      \* device.key: 0 while there is none
  gens,     \* device keys generated so far
  ckey,     \* the device key the committing owner has loaded
  consumed, \* tokens the controller has consumed
  dpc,      \* the daemon
  dst,      \* the daemon's copy of state.json, read when it started
  spc,      \* the scrub service
  ops,      \* the configuration changes the scrub has decided on
  tries,    \* its failed attempts
  trig,     \* scrub-request was bumped and the path unit has not fired
  done,     \* history: tokens whose enrollment was recorded in state.json
  latest,   \* history: the last of them
  broken    \* history: what went wrong around the agent

config == <<active, boot>>
commit == <<sess, cpc, who, ckey>>
identity == <<key, gens>>
store  == <<st, cert, identity>>
daemon == <<dpc, dst>>
scrub  == <<spc, ops, tries>>
ghosts == <<done, latest>>
vars   == <<config, commit, store, consumed, daemon, scrub, trig, ghosts, broken>>

MaybeToken == Tokens \cup {None}
Cert   == [tok : MaybeToken, key : 0..MaxKeys]
NoCert == [tok |-> None, key |-> 0]

\* "missed": the trigger was bumped while the scrub ran and systemd did not see
\* it.  "gaveup": every attempt of the scrub failed.  "race": the daemon saved
\* a renewal next to an enrolling commit.  "regen": the identity was
\* regenerated next to one.  "power": power was lost or the daemon died between
\* two writes of an enrollment or of a renewal, or two removals of regenerate.
Troubles == {"missed", "gaveup", "race", "regen", "power"}

TypeOK ==
  /\ active \in MaybeToken /\ boot \in MaybeToken /\ sess \in MaybeToken
  /\ cpc \in {"idle", "decide", "rpc", "cert", "bump", "restart", "finish", "fail",
             "state"}
  /\ who \in {"user", "boot", "scrub"}
  /\ st \in MaybeToken /\ cert \in Cert
  /\ key \in 0..MaxKeys /\ gens \in 0..MaxKeys /\ ckey \in 0..MaxKeys
  /\ consumed \subseteq Tokens
  /\ dpc \in {"wiped", "down", "parked", "connecting", "connected", "renew", "rstate"}
  /\ dst \in MaybeToken
  /\ spc \in {"idle", "try", "commit", "save"}
  /\ ops \subseteq {"delete", "set"} /\ tries \in 0..MaxAttempts
  /\ trig \in BOOLEAN
  /\ done \subseteq Tokens /\ latest \in MaybeToken
  /\ broken \subseteq Troubles

Init ==
  /\ active = None /\ boot = None /\ sess = None
  /\ cpc = "idle" /\ who = "user"
  /\ st = None /\ cert = NoCert
  /\ key = 1 /\ gens = 1 /\ ckey = 0
  /\ consumed = {}
  /\ dpc = "parked" /\ dst = None
  /\ spc = "idle" /\ ops = {} /\ tries = 0
  /\ trig = FALSE
  /\ done = {} /\ latest = None /\ broken = {}

Breaks(what, cond) == broken' = IF cond THEN broken \cup {what} ELSE broken

-----------------------------------------------------------------------------
(* The commit and its conf-mode owner                                      *)

\* An operator commits a token, removes one, or changes other settings and
\* leaves it as it is; commits exclude each other.
UserCommit(t) ==
  /\ cpc = "idle"
  /\ cpc' = "decide" /\ who' = "user"
  /\ sess' = t
  /\ UNCHANGED <<config, ckey, store, consumed, daemon, scrub, trig, ghosts, broken>>

\* Mutant: load_or_generate without its look at the key file.
LoadKeyAlways ==
  /\ gens' = gens + 1
  /\ key' = gens + 1

\* load_or_generate: the device key, generated when there is none.
LoadKey ==
  /\ gens' = IF key = 0 THEN gens + 1 ELSE gens
  /\ key' = IF key = 0 THEN gens + 1 ELSE key

\* Mutant: decide looks only at whether there is a token.
DecideAnyToken ==
  /\ cpc = "decide"
  /\ cpc' = IF sess = None THEN "restart" ELSE "rpc"
  /\ IF cpc' = "rpc" THEN LoadKey /\ ckey' = key' ELSE UNCHANGED <<identity, ckey>>
  /\ UNCHANGED <<config, sess, who, st, cert, consumed, daemon, scrub, trig, ghosts, broken>>

\* decide: a consumed token is recognised by the hash in state.json; a fresh
\* one is enrolled with the device key as it is now.
Decide ==
  /\ cpc = "decide"
  /\ cpc' = IF sess = None THEN "restart"
            ELSE IF st = sess THEN "bump" ELSE "rpc"
  /\ IF cpc' = "rpc" THEN LoadKey /\ ckey' = key' ELSE UNCHANGED <<identity, ckey>>
  /\ UNCHANGED <<config, sess, who, st, cert, consumed, daemon, scrub, trig, ghosts, broken>>

\* enroll: refused, unreachable, consumed with the answer lost or too late
\* (90 s), or answered with a certificate for the device key.
Enroll ==
  /\ cpc = "rpc"
  /\ \/ cpc' = "fail" /\ UNCHANGED consumed
     \/ /\ sess \notin consumed
        /\ consumed' = consumed \cup {sess}
        /\ cpc' \in {"cert", "fail"}
  /\ UNCHANGED <<config, sess, who, ckey, store, daemon, scrub, trig, ghosts, broken>>

SaveCertificates ==
  /\ cpc = "cert"
  /\ cert' = [tok |-> sess, key |-> ckey]
  /\ cpc' = "state"
  /\ Breaks("race", dpc = "rstate")
  /\ UNCHANGED <<config, sess, who, ckey, st, identity, consumed, daemon, scrub, trig, ghosts>>

SaveState ==
  /\ cpc = "state"
  /\ st' = sess
  /\ done' = done \cup {sess} /\ latest' = sess
  /\ cpc' = "bump"
  /\ UNCHANGED <<config, sess, who, ckey, cert, identity, consumed, daemon, scrub, trig, broken>>

\* bump_trigger: the path unit may miss a change while its service runs.
BumpTrigger ==
  /\ cpc = "bump"
  /\ \/ trig' = TRUE /\ UNCHANGED broken
     \/ spc # "idle" /\ trig' = trig /\ broken' = broken \cup {"missed"}
  /\ cpc' = "restart"
  /\ UNCHANGED <<config, sess, who, ckey, store, consumed, daemon, scrub, ghosts>>

\* What the daemon does when it starts: it parks unless it is enrolled.
StartDaemon ==
  /\ LoadKey
  /\ dst' = st
  /\ dpc' = IF st = None THEN "parked" ELSE "connecting"

\* `regenerate` has stopped the daemon and has not started it again.
Stopped == dpc \in {"wiped", "down"}

\* Mutant: the daemon is left running as it is.
RestartNothing ==
  /\ cpc = "restart"
  /\ cpc' = "finish"
  /\ UNCHANGED <<config, sess, who, ckey, store, consumed, daemon, scrub, trig, ghosts, broken>>

\* systemctl try-restart waits for the daemon to stop at its next await.
RestartDaemon ==
  /\ cpc = "restart" /\ dpc # "rstate"
  /\ IF Stopped THEN UNCHANGED <<daemon, identity>> ELSE StartDaemon
  /\ cpc' = "finish"
  /\ UNCHANGED <<config, sess, who, ckey, st, cert, consumed, scrub, trig, ghosts, broken>>

\* The owner succeeded: the session becomes the running configuration.
FinishCommit ==
  /\ cpc = "finish"
  /\ active' = sess
  /\ cpc' = "idle"
  /\ spc' = IF who = "scrub" THEN "save" ELSE spc
  /\ UNCHANGED <<boot, sess, who, ckey, store, consumed, daemon, ops, tries, trig, ghosts, broken>>

\* Mutant: the owner's failure does not fail the commit.
AbortCommitKeeps ==
  /\ cpc = "fail"
  /\ active' = sess
  /\ cpc' = "idle"
  /\ UNCHANGED <<boot, sess, who, ckey, store, consumed, daemon, scrub, trig, ghosts, broken>>

\* The owner failed: the commit is aborted and nothing of it becomes active.
AbortCommit ==
  /\ cpc = "fail"
  /\ cpc' = "idle"
  /\ UNCHANGED <<config, sess, who, ckey, store, consumed, daemon, scrub, trig, ghosts, broken>>

UserSave ==
  /\ boot' = active
  /\ UNCHANGED <<active, commit, store, consumed, daemon, scrub, trig, ghosts, broken>>

-----------------------------------------------------------------------------
(* The scrub service                                                       *)

\* What is to be changed is decided from the running configuration and
\* state.json when the service starts, before its first attempt: the commit
\* that bumped the trigger may not have made its token active yet.  Whether the
\* configured gateway and port are those of the recorded token is left open.
ScrubStart ==
  /\ trig /\ spc = "idle"
  /\ trig' = FALSE
  /\ \E set \in {{}} \cup {{"set"} : t \in {st} \ {None}} :
       ops' = set \cup (IF active # None THEN {"delete"} ELSE {})
  /\ tries' = 0
  /\ spc' = IF ops' = {} THEN "idle" ELSE "try"
  /\ UNCHANGED <<config, commit, store, consumed, daemon, ghosts, broken>>

\* An attempt fails under the commit lock, or when there is nothing to delete.
ScrubAttemptFails ==
  /\ spc = "try"
  /\ cpc # "idle" \/ ("delete" \in ops /\ active = None)
  /\ tries' = tries + 1
  /\ spc' = IF tries' = MaxAttempts THEN "idle" ELSE "try"
  /\ Breaks("gaveup", tries' = MaxAttempts)
  /\ UNCHANGED <<config, commit, store, consumed, daemon, ops, trig, ghosts>>

\* Mutant: the scrub's script forgets the deletion.
ScrubCommitKeepsToken ==
  /\ spc = "try" /\ cpc = "idle"
  /\ "delete" \in ops => active # None
  /\ sess' = active
  /\ cpc' = "decide" /\ who' = "scrub" /\ spc' = "commit"
  /\ UNCHANGED <<config, ckey, store, consumed, daemon, ops, tries, trig, ghosts, broken>>

\* my_delete, my_set and my_commit: the commit runs the owner as any other.
ScrubCommit ==
  /\ spc = "try" /\ cpc = "idle"
  /\ "delete" \in ops => active # None
  /\ sess' = IF "delete" \in ops THEN None ELSE active
  /\ cpc' = "decide" /\ who' = "scrub" /\ spc' = "commit"
  /\ UNCHANGED <<config, ckey, store, consumed, daemon, ops, tries, trig, ghosts, broken>>

\* The owner of the scrub's own commit can only fail with a token left in; by
\* the time the scrub notices, somebody else may be committing.
ScrubRetry ==
  /\ spc = "commit"
  /\ cpc = "idle" \/ who # "scrub"
  /\ tries' = tries + 1
  /\ spc' = IF tries' = MaxAttempts THEN "idle" ELSE "try"
  /\ Breaks("gaveup", tries' = MaxAttempts)
  /\ UNCHANGED <<config, commit, store, consumed, daemon, ops, trig, ghosts>>

\* A failed save is only warned about.
ScrubSave ==
  /\ spc = "save"
  /\ boot' \in {active, boot}
  /\ spc' = "idle"
  /\ UNCHANGED <<active, commit, store, consumed, daemon, ops, tries, trig, ghosts, broken>>

-----------------------------------------------------------------------------
(* The daemon                                                              *)

\* The controller of an enrollment accepts its own certificate, and the
\* daemon accepts the controller by the trust anchors saved with it;
\* both are files of save_certificates.
Connect ==
  /\ dpc = "connecting"
  /\ cert = [tok |-> dst, key |-> key]
  /\ dpc' = "connected"
  /\ UNCHANGED <<config, commit, store, consumed, dst, scrub, trig, ghosts, broken>>

\* A lost channel is dialled again, after a backoff.
LoseChannel ==
  /\ dpc = "connected"
  /\ dpc' = "connecting"
  /\ UNCHANGED <<config, commit, store, consumed, dst, scrub, trig, ghosts, broken>>

\* The renewal point has passed: ask over the open channel.
RenewStart ==
  /\ dpc = "connected"
  /\ dpc' = "renew"
  /\ UNCHANGED <<config, commit, store, consumed, dst, scrub, trig, ghosts, broken>>

\* The renewed certificate is for the enrollment the daemon started with.
RenewCert ==
  /\ dpc = "renew"
  /\ \/ /\ cert' = [tok |-> dst, key |-> key]
        /\ dpc' = "rstate"
        /\ Breaks("race", cpc = "state" \/ st # dst)
     \/ dpc' = "connecting" /\ UNCHANGED <<cert, broken>>
  /\ UNCHANGED <<config, commit, st, identity, consumed, dst, scrub, trig, ghosts>>

\* The daemon writes its own copy of the state back, then reconnects.
RenewState ==
  /\ dpc = "rstate"
  /\ st' = dst
  /\ dpc' = "connecting"
  /\ UNCHANGED <<config, commit, cert, identity, consumed, dst, scrub, trig, ghosts, broken>>

-----------------------------------------------------------------------------
(* Lifecycle and power                                                     *)

\* regenerate_inner stops the daemon and wipes the identity, ...
RegenerateWipe ==
  /\ gens < MaxKeys /\ ~Stopped /\ dpc # "rstate"
  /\ dpc' = "wiped" /\ dst' = None
  /\ key' = 0 /\ cert' = NoCert
  /\ Breaks("regen", cpc \in {"rpc", "cert", "state"})
  /\ UNCHANGED <<config, commit, st, gens, consumed, scrub, trig, ghosts>>

\* Mutant: regenerate leaves state.json.
RegenerateKeepsState ==
  /\ dpc = "wiped"
  /\ dpc' = "down" /\ st' = st
  /\ done' = {} /\ latest' = None
  /\ Breaks("regen", st # None /\ cert.tok = st)
  /\ UNCHANGED <<config, commit, cert, identity, consumed, dst, scrub, trig>>

\* ... removes state.json, which an enrollment may have written anew, ...
RegenerateForget ==
  /\ dpc = "wiped"
  /\ dpc' = "down" /\ st' = None
  /\ done' = {} /\ latest' = None
  /\ Breaks("regen", st # None /\ cert.tok = st)
  /\ UNCHANGED <<config, commit, cert, identity, consumed, dst, scrub, trig>>

\* ... and the next key is generated before the daemon starts again.
RegenerateStart ==
  /\ dpc = "down"
  /\ StartDaemon
  /\ UNCHANGED <<config, commit, st, cert, consumed, scrub, trig, ghosts, broken>>

\* The daemon dies and systemd starts it again.
DaemonCrash ==
  /\ ~Stopped
  /\ StartDaemon
  /\ Breaks("power", dpc = "rstate")
  /\ UNCHANGED <<config, commit, st, cert, consumed, scrub, trig, ghosts>>

\* /run is gone; the boot configuration is committed through the owner.
PowerCycle ==
  /\ active' = None
  /\ sess' = boot /\ who' = "boot"
  /\ cpc' = IF boot = None THEN "idle" ELSE "decide"
  /\ StartDaemon
  /\ spc' = "idle" /\ trig' = FALSE
  /\ Breaks("power", cpc = "state" \/ dpc \in {"rstate", "wiped"})
  /\ UNCHANGED <<boot, ckey, st, cert, consumed, ops, tries, ghosts>>
-----------------------------------------------------------------------------
CommitStep == \/ Decide \/ Enroll \/ SaveCertificates \/ SaveState
              \/ BumpTrigger \/ RestartDaemon \/ FinishCommit \/ AbortCommit

ScrubStep == \/ ScrubStart \/ ScrubAttemptFails \/ ScrubCommit \/ ScrubRetry
             \/ ScrubSave

RenewStep == RenewCert \/ RenewState

Next == \/ \E t \in MaybeToken : UserCommit(t)
        \/ UserSave \/ CommitStep \/ ScrubStep
        \/ Connect \/ LoseChannel \/ RenewStart \/ RenewStep
        \/ RegenerateWipe \/ RegenerateForget \/ RegenerateStart
        \/ DaemonCrash \/ PowerCycle

Spec == Init /\ [][Next]_vars

\* Processes that run go on running; operators and power are free.  The stop
\* signal of try-restart stays pending: a daemon that passes an await again and
\* again cannot put the restart off for ever.
FairSpec == /\ Spec
            /\ WF_vars(CommitStep) /\ SF_vars(RestartDaemon)
            /\ WF_vars(ScrubStep) /\ WF_vars(RenewStep)
            /\ WF_vars(RegenerateForget) /\ WF_vars(RegenerateStart)
-----------------------------------------------------------------------------
\* Replay safety: a boot configuration that still carries the token of the
\* last enrollment never starts that enrollment again (decide).
ReplaySafe == broken = {} /\ who = "boot" /\ cpc = "rpc" => sess # latest

BetweenSaves == cpc # "state" /\ dpc \notin {"rstate", "wiped"}

AtRest == cpc = "idle" /\ spc = "idle" /\ ~trig

\* Between saves the certificate, the trust anchors and state.json belong to
\* one enrollment of the present device key, across failed enrollments,
\* renewals, regenerations and restarts.
CertsMatchState ==
  broken \cap {"race", "regen", "power"} = {} /\ BetweenSaves
    => /\ cert.tok = st
       /\ st # None => cert.key = key

\* However scrubs start, fail or are missed, a consumed token that is left in
\* the running configuration of the present identity is the one state.json
\* records: whoever commits or boots with it next does not enroll with it, and
\* arms the scrub again (decide).
LeftoverKnown ==
  broken \cap {"race", "regen", "power"} = {} /\ cpc = "idle" /\ active \in done
    => st = active

\* Outside commits the daemon works from the state on disk, whatever went wrong:
\* no enrollment and no regeneration is left unnoticed.  (What is on disk may be
\* the older of two enrollments: see ReplaySafeThoughRenewing.)
DaemonCurrent == cpc = "idle" /\ ~Stopped => dst = st

\* A token that the scrub has found in the running configuration is deleted,
\* past the commits it has to wait for, unless every attempt fails (FairSpec).
FoundTokenLeaves ==
  spc \in {"try", "commit"} /\ "delete" \in ops ~> active = None \/ "gaveup" \in broken
-----------------------------------------------------------------------------
(* What the documentation promises beyond that: TLC refutes it             *)

\* Once commits and scrubs have come to rest, no consumed token is left in the
\* running configuration; but the scrub may have looked for it too early.
Scrubbed == broken = {} /\ AtRest => active \notin done

\* Replay safety also when the daemon renews its certificate next to an enrollment.
ReplaySafeThoughRenewing ==
  broken \subseteq {"race"} /\ who = "boot" /\ cpc = "rpc" => sess # latest
=============================================================================
