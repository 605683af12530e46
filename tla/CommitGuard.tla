----------------------------- MODULE CommitGuard -----------------------------
(***************************************************************************)
(* The commit-confirm guard of the WebUI backend                           *)
(* (quartzfire-webui/backend/src/infra/guard.rs), the raw configuration    *)
(* proxy beside it (proxy.rs) and the VyOS HTTP API both call (vyos.rs).   *)
(*                                                                         *)
(* A request is served by an async handler; between two awaits of one      *)
(* handler any step of another handler, of an expiry timer or of the VyOS  *)
(* API can run, so a handler is a program counter and every VyOS call, file*)
(* operation and lock region is a step of its own.                         *)
(*                                                                         *)
(* A configuration is the set of changes it holds, plus what its           *)
(* `service https api keys id quartzfire` holds, if it has one: Key, the   *)
(* backend's own API key, or Foreign, the key of another device or of an   *)
(* earlier installation.  Changes leave that subtree alone.                *)
(***************************************************************************)
EXTENDS Naturals

CONSTANTS
  Ops,       \* identities of changes: guarded commits, loads and raw commits
  Requests,  \* HTTP requests that can be in service at the same time
  Key,       \* the key in vyos-api.key, with which VyOS lets the backend in
  Foreign,   \* a key of the same name that is not this backend's
  None       \* no file, no pending change

Keys == {Key, Foreign}

ASSUME GuardAssumption == /\ Key \notin Ops /\ Foreign \notin Ops
                          /\ Key # Foreign
                          /\ None \notin Ops
                          /\ \A cfg \in SUBSET (Ops \cup Keys) : cfg # None

VARIABLES
  running,   \* the live configuration of VyOS
  boot,      \* the boot configuration: what a power cycle comes back with
  archive,   \* the configurations of the commit archive
  snapFile,  \* guard_dir/guard-snapshot.boot, one path for every change
  loadFile,  \* guard_dir/guard-load.boot, one path for every load
  pending,   \* GuardInner.pending: the unconfirmed change, or None
  reverting, \* GuardInner.reverting
  last,      \* GuardInner.last: how the last guarded change ended
  timer,     \* the task spawned by begin_pending, per change
  pc,        \* where each request's handler is
  job,       \* the change a request carries
  tgt,       \* the configuration a restore or rollback loads, None for apply
  used,      \* identities already given out
  accepted,    \* history: the configuration the operator last agreed to
  acceptedEver,\* history: every configuration agreed to so far
  broken       \* history: the assumptions on the environment broken so far

vyos   == <<running, boot, archive>>
files  == <<snapFile, loadFile>>
inner  == <<pending, reverting, last>>
ghosts == <<accepted, acceptedEver>>
vars   == <<vyos, files, inner, timer, pc, job, tgt, used, ghosts, broken>>

Config == SUBSET (Ops \cup Keys)

PCs == {"idle", "lockout", "graft", "rbcheck", "unlink", "save", "stat",
        "configure", "write", "load", "loaded", "loadfail", "arm",
        "cunlink", "csave", "cdone", "rload", "rok", "rfail", "rfin",
        "rawcfg", "rawfile"}

RevertPCs == {"rload", "rok", "rfail", "rfin"}

(***************************************************************************)
(* The assumptions the guard's promise rests on.  "overlap": two requests  *)
(* that write were in service at once.  "dropped": a handler was dropped   *)
(* with its connection between a commit and the step that follows it.      *)
(* "lost": a commit took effect but its answer did not arrive.  "restart": *)
(* the backend process died with a change in flight.  "unreverted": VyOS   *)
(* let the backend in and did not load the snapshot back.  "foreign": a    *)
(* configuration with a foreign key was restored.                          *)
(***************************************************************************)
Assumptions == {"overlap", "dropped", "lost", "restart", "unreverted", "foreign"}

TypeOK ==
  /\ running \in Config /\ boot \in Config /\ archive \subseteq Config
  /\ snapFile \in Config \cup {None} /\ loadFile \in Config \cup {None}
  /\ pending \in Ops \cup {None}
  /\ reverting \in BOOLEAN
  /\ last \in {"none", "confirmed", "reverted", "revert_failed"}
  /\ timer \in [Ops -> {"off", "armed"} \cup RevertPCs]
  /\ pc \in [Requests -> PCs]
  /\ job \in [Requests -> Ops \cup {None}]
  /\ tgt \in [Requests -> Config \cup {None}]
  /\ used \subseteq Ops
  /\ accepted \in Config /\ acceptedEver \subseteq Config
  /\ broken \subseteq Assumptions

Init ==
  /\ running = {Key} /\ boot = {Key} /\ archive = {{Key}}
  /\ snapFile = None /\ loadFile = None
  /\ pending = None /\ reverting = FALSE /\ last = "none"
  /\ timer = [o \in Ops |-> "off"]
  /\ pc = [r \in Requests |-> "idle"]
  /\ job = [r \in Requests |-> None]
  /\ tgt = [r \in Requests |-> None]
  /\ used = {}
  /\ accepted = {Key} /\ acceptedEver = {{Key}}
  /\ broken = {}

-----------------------------------------------------------------------------
\* Mutant: the `reverting` flag is forgotten.
IsPendingNoRevert == pending # None

(* Guard::is_pending: what apply, guarded_load and the proxy ask once,     *)
(* before their first await.                                               *)
IsPending == pending # None \/ reverting

\* VyOS answers the backend only while the configuration holds its key.
ApiUp == Key \in running

Goto(r, l) == pc' = [pc EXCEPT ![r] = l]

\* A request that enters service next to another one breaks "overlap"; b is
\* what it breaks by what it carries.
EnterBreaking(r, l, b) ==
  /\ pc[r] = "idle"
  /\ Goto(r, l)
  /\ broken' = b \cup IF \E q \in Requests \ {r} : pc[q] # "idle"
                      THEN broken \cup {"overlap"} ELSE broken

Enter(r, l) == EnterBreaking(r, l, {})

\* A VyOS commit: the configuration becomes live and is archived.
Commit(cfg) == running' = cfg /\ archive' = archive \cup {cfg}

-----------------------------------------------------------------------------
(* POST /api/guard/apply                                                   *)

ApplyStart(r, o) ==
  /\ o \notin used
  /\ ~IsPending
  /\ Enter(r, "lockout")
  /\ job' = [job EXCEPT ![r] = o]
  /\ tgt' = [tgt EXCEPT ![r] = None]
  /\ used' = used \cup {o}
  /\ UNCHANGED <<vyos, files, inner, timer, ghosts>>

\* lockout_reasons reads the interfaces from VyOS; the change is refused, or
\* it passes (nothing found, not an interface change, or override_lockout).
LockoutCheck(r) ==
  /\ pc[r] = "lockout"
  /\ Goto(r, "idle") \/ Goto(r, "unlink")
  /\ UNCHANGED <<vyos, files, inner, timer, job, tgt, used, ghosts, broken>>

-----------------------------------------------------------------------------
(* save_running_config, shared by apply and guarded_load                   *)

\* Removal of a stale snapshot is best effort, as is every removal below.
UnlinkStale(r) ==
  /\ pc[r] = "unlink"
  /\ snapFile' \in {None, snapFile}
  /\ Goto(r, "save")
  /\ UNCHANGED <<vyos, loadFile, inner, timer, job, tgt, used, ghosts, broken>>

SaveSnapshot(r) ==
  /\ pc[r] = "save"
  /\ \/ ApiUp /\ snapFile' = running /\ Goto(r, "stat")
     \/ snapFile' = snapFile /\ Goto(r, "idle")
  /\ UNCHANGED <<vyos, loadFile, inner, timer, job, tgt, used, ghosts, broken>>

\* A snapshot that is not on disk could never be restored: refuse.
StatSnapshot(r) ==
  /\ pc[r] = "stat"
  /\ Goto(r, IF snapFile = None THEN "idle"
             ELSE IF tgt[r] = None THEN "configure" ELSE "write")
  /\ UNCHANGED <<vyos, files, inner, timer, job, tgt, used, ghosts, broken>>

-----------------------------------------------------------------------------
(* The commit and the arming of the timer                                  *)

Configure(r) ==
  /\ pc[r] = "configure"
  /\ \/ /\ ApiUp
        /\ Commit(running \cup {job[r]})
        /\ \/ Goto(r, "arm") /\ UNCHANGED broken
           \/ Goto(r, "idle") /\ broken' = broken \cup {"lost"}
     \/ Goto(r, "idle") /\ UNCHANGED <<running, archive, broken>>
  /\ UNCHANGED <<boot, files, inner, timer, job, tgt, used, ghosts>>

\* begin_pending replaces whatever was registered and spawns the timer task.
BeginPending(r) ==
  /\ pc[r] = "arm"
  /\ pending' = job[r]
  /\ timer' = [timer EXCEPT ![job[r]] = "armed"]
  /\ Goto(r, "idle")
  /\ UNCHANGED <<vyos, files, reverting, last, job, tgt, used, ghosts, broken>>

-----------------------------------------------------------------------------
(* POST /api/config/restore and POST /api/config/rollback                  *)

\* An upload is any configuration of its own, with no API key or with one;
\* has_webui_api_key looks for the name of the key and not for its value.
RestoreStart(r, o, keys) ==
  /\ o \notin used
  /\ ~IsPending
  /\ EnterBreaking(r, IF keys = {} THEN "graft" ELSE "unlink",
                   IF Foreign \in keys THEN {"foreign"} ELSE {})
  /\ job' = [job EXCEPT ![r] = o]
  /\ tgt' = [tgt EXCEPT ![r] = {o} \cup keys]
  /\ used' = used \cup {o}
  /\ UNCHANGED <<vyos, files, inner, timer, ghosts>>

\* Mutant: an upload without the key is loaded as it is.
GraftNothing(r) ==
  /\ pc[r] = "graft"
  /\ Goto(r, "unlink")
  /\ UNCHANGED <<vyos, files, inner, timer, job, tgt, used, ghosts, broken>>

\* preserve_webui_access: graft the running `service https` subtree, read
\* from revision 0 of the commit archive, into an upload without the key.
Graft(r) ==
  /\ pc[r] = "graft"
  /\ \/ /\ ApiUp
        /\ tgt' = [tgt EXCEPT ![r] = @ \cup (running \cap {Key})]
        /\ Goto(r, "unlink")
     \/ tgt' = tgt /\ Goto(r, "idle")
  /\ UNCHANGED <<vyos, files, inner, timer, job, used, ghosts, broken>>

\* rollback reads the revision before guarded_load asks is_pending.
RollbackStart(r, o, cfg) ==
  /\ o \notin used
  /\ ApiUp
  /\ Enter(r, "rbcheck")
  /\ job' = [job EXCEPT ![r] = o]
  /\ tgt' = [tgt EXCEPT ![r] = cfg]
  /\ used' = used \cup {o}
  /\ UNCHANGED <<vyos, files, inner, timer, ghosts>>

\* Mutant: rollback does not ask is_pending.
RollbackUnchecked(r) ==
  /\ pc[r] = "rbcheck"
  /\ Goto(r, "unlink")
  /\ UNCHANGED <<vyos, files, inner, timer, job, tgt, used, ghosts, broken>>

RollbackCheck(r) ==
  /\ pc[r] = "rbcheck"
  /\ Goto(r, IF IsPending THEN "idle" ELSE "unlink")
  /\ UNCHANGED <<vyos, files, inner, timer, job, tgt, used, ghosts, broken>>

\* load_config_text: write the file, load it, remove it.
WriteLoadFile(r) ==
  /\ pc[r] = "write"
  /\ \/ loadFile' = tgt[r] /\ Goto(r, "load")
     \/ loadFile' = loadFile /\ Goto(r, "idle")
  /\ UNCHANGED <<vyos, snapFile, inner, timer, job, tgt, used, ghosts, broken>>

LoadTarget(r) ==
  /\ pc[r] = "load"
  /\ \/ /\ ApiUp /\ loadFile # None
        /\ Commit(loadFile)
        /\ \/ Goto(r, "loaded") /\ UNCHANGED broken
           \/ Goto(r, "loadfail") /\ broken' = broken \cup {"lost"}
     \/ Goto(r, "loadfail") /\ UNCHANGED <<running, archive, broken>>
  /\ UNCHANGED <<boot, files, inner, timer, job, tgt, used, ghosts>>

\* Mutant: the clean-up after a load removes the snapshot.
RemoveSnapshotToo(r) ==
  /\ pc[r] \in {"loaded", "loadfail"}
  /\ loadFile' = None /\ snapFile' = None
  /\ Goto(r, IF pc[r] = "loaded" THEN "arm" ELSE "idle")
  /\ UNCHANGED <<vyos, inner, timer, job, tgt, used, ghosts, broken>>

RemoveLoadFile(r) ==
  /\ pc[r] \in {"loaded", "loadfail"}
  /\ loadFile' \in {None, loadFile}
  /\ Goto(r, IF pc[r] = "loaded" THEN "arm" ELSE "idle")
  /\ UNCHANGED <<vyos, snapFile, inner, timer, job, tgt, used, ghosts, broken>>

-----------------------------------------------------------------------------
(* POST /api/guard/confirm                                                 *)

\* The confirmation that carries the pending id; any other is answered 409.
ConfirmTake(r) ==
  /\ pending # None
  /\ Enter(r, "cunlink")
  /\ pending' = None
  /\ accepted' = running /\ acceptedEver' = acceptedEver \cup {running}
  /\ UNCHANGED <<vyos, files, reverting, last, timer, job, tgt, used>>

ConfirmUnlink(r) ==
  /\ pc[r] = "cunlink"
  /\ snapFile' \in {None, snapFile}
  /\ Goto(r, "csave")
  /\ UNCHANGED <<vyos, loadFile, inner, timer, job, tgt, used, ghosts, broken>>

\* A failed boot save does not un-confirm.
ConfirmSave(r) ==
  /\ pc[r] = "csave"
  /\ \/ ApiUp /\ boot' = running
     \/ boot' = boot
  /\ Goto(r, "cdone")
  /\ UNCHANGED <<running, archive, files, inner, timer, job, tgt, used, ghosts, broken>>

ConfirmDone(r) ==
  /\ pc[r] = "cdone"
  /\ last' = "confirmed"
  /\ Goto(r, "idle")
  /\ UNCHANGED <<vyos, files, pending, reverting, timer, job, tgt, used, ghosts, broken>>

-----------------------------------------------------------------------------
(* The revert, run by the timer task of a change or by                     *)
(* POST /api/guard/revert (revert_pending)                                 *)

\* Mutant: the timer never recognises its own change.
ExpireNever(o) ==
  /\ timer[o] = "armed"
  /\ timer' = [timer EXCEPT ![o] = "off"]
  /\ UNCHANGED <<vyos, files, inner, pc, job, tgt, used, ghosts, broken>>

\* The timer fires: only if its own change is still the pending one.
Expire(o) ==
  /\ timer[o] = "armed"
  /\ IF pending = o
     THEN /\ pending' = None /\ reverting' = TRUE
          /\ timer' = [timer EXCEPT ![o] = "rload"]
     ELSE /\ UNCHANGED <<pending, reverting>>
          /\ timer' = [timer EXCEPT ![o] = "off"]
  /\ UNCHANGED <<vyos, files, last, pc, job, tgt, used, ghosts, broken>>

RevertTake(r) ==
  /\ pending # None
  /\ Enter(r, "rload")
  /\ pending' = None /\ reverting' = TRUE
  /\ UNCHANGED <<vyos, files, last, timer, job, tgt, used, ghosts>>

\* load_config_file of the snapshot: l is where the task goes with the answer.
LoadSnapshot(l) ==
  \/ /\ ApiUp /\ snapFile # None
     /\ Commit(snapFile)
     /\ \/ l = "rok" /\ UNCHANGED broken
        \/ l = "rfail" /\ broken' = broken \cup {"lost", "unreverted"}
  \/ /\ l = "rfail"
     /\ broken' = IF ApiUp THEN broken \cup {"unreverted"} ELSE broken
     /\ UNCHANGED <<running, archive>>

\* The outcome is recorded under the lock, after the file is gone.
RecordOutcome(l) ==
  /\ last' = IF l = "rfin" THEN "reverted" ELSE "revert_failed"
  /\ reverting' = FALSE

TimerLoad(o) ==
  /\ timer[o] = "rload"
  /\ \E l \in {"rok", "rfail"} :
       /\ LoadSnapshot(l)
       /\ timer' = [timer EXCEPT ![o] = l]
  /\ UNCHANGED <<boot, files, inner, pc, job, tgt, used, ghosts>>

TimerUnlink(o) ==
  /\ timer[o] = "rok"
  /\ snapFile' \in {None, snapFile}
  /\ timer' = [timer EXCEPT ![o] = "rfin"]
  /\ UNCHANGED <<vyos, loadFile, inner, pc, job, tgt, used, ghosts, broken>>

TimerFinish(o) ==
  /\ timer[o] \in {"rfin", "rfail"}
  /\ RecordOutcome(timer[o])
  /\ timer' = [timer EXCEPT ![o] = "off"]
  /\ UNCHANGED <<vyos, files, pending, pc, job, tgt, used, ghosts, broken>>

RevertLoad(r) ==
  /\ pc[r] = "rload"
  /\ \E l \in {"rok", "rfail"} : LoadSnapshot(l) /\ Goto(r, l)
  /\ UNCHANGED <<boot, files, inner, timer, job, tgt, used, ghosts>>

RevertUnlink(r) ==
  /\ pc[r] = "rok"
  /\ snapFile' \in {None, snapFile}
  /\ Goto(r, "rfin")
  /\ UNCHANGED <<vyos, loadFile, inner, timer, job, tgt, used, ghosts, broken>>

RevertFinish(r) ==
  /\ pc[r] \in {"rfin", "rfail"}
  /\ RecordOutcome(pc[r])
  /\ Goto(r, "idle")
  /\ UNCHANGED <<vyos, files, pending, timer, job, tgt, used, ghosts, broken>>

-----------------------------------------------------------------------------
(* The raw proxy: /api/configure and /api/config-file are refused while    *)
(* IsPending, and forwarded after the request body has been read.          *)

\* Mutant: /configure is proxied while a change is pending.
RawConfigureStartUnchecked(r, o) ==
  /\ o \notin used
  /\ Enter(r, "rawcfg")
  /\ job' = [job EXCEPT ![r] = o]
  /\ used' = used \cup {o}
  /\ UNCHANGED <<vyos, files, inner, timer, tgt, ghosts>>

\* Mutant: the request body is not taken along.
RawConfigureStartNoBody(r, o) ==
  /\ o \notin used
  /\ ~IsPending
  /\ Enter(r, "rawcfg")
  /\ used' = used \cup {o}
  /\ UNCHANGED <<vyos, files, inner, timer, job, tgt, ghosts>>

RawConfigureStart(r, o) ==
  /\ o \notin used
  /\ ~IsPending
  /\ Enter(r, "rawcfg")
  /\ job' = [job EXCEPT ![r] = o]
  /\ used' = used \cup {o}
  /\ UNCHANGED <<vyos, files, inner, timer, tgt, ghosts>>

\* An unguarded commit is agreed to the moment it is made.
RawConfigure(r) ==
  /\ pc[r] = "rawcfg"
  /\ \/ /\ ApiUp
        /\ Commit(running \cup {job[r]})
        /\ accepted' = running' /\ acceptedEver' = acceptedEver \cup {running'}
     \/ UNCHANGED <<running, archive, ghosts>>
  /\ Goto(r, "idle")
  /\ UNCHANGED <<boot, files, inner, timer, job, tgt, used, broken>>

\* Mutant: /config-file is proxied while a change is pending.
RawFileStartUnchecked(r) ==
  /\ Enter(r, "rawfile")
  /\ UNCHANGED <<vyos, files, inner, timer, job, tgt, used, ghosts>>

RawFileStart(r) ==
  /\ ~IsPending
  /\ Enter(r, "rawfile")
  /\ UNCHANGED <<vyos, files, inner, timer, job, tgt, used, ghosts>>

\* The body says save, to the boot configuration; or load, of a file that is
\* on the device: the boot configuration.
RawSave(r) ==
  /\ pc[r] = "rawfile"
  /\ \/ ApiUp /\ boot' = running
     \/ boot' = boot
  /\ Goto(r, "idle")
  /\ UNCHANGED <<running, archive, files, inner, timer, job, tgt, used, ghosts, broken>>

\* A load is a commit, and an unguarded one.
RawLoad(r) ==
  /\ pc[r] = "rawfile"
  /\ ApiUp
  /\ Commit(boot)
  /\ accepted' = boot /\ acceptedEver' = acceptedEver \cup {boot}
  /\ Goto(r, "idle")
  /\ UNCHANGED <<boot, files, inner, timer, job, tgt, used, broken>>

-----------------------------------------------------------------------------
(* The environment: dropped connections, a backend crash, a power cycle    *)

\* The handler runs inside its connection's task (main.rs), so it is dropped
\* at an await when the peer closes: the browser leaves, or nginx gives up
\* after its read timeout.  Spawned timer tasks are not affected.
AwaitPCs == {"lockout", "graft", "rbcheck", "save", "stat", "configure", "arm",
             "load", "loaded", "loadfail", "csave", "cdone", "rload", "rok",
             "rfail", "rawcfg", "rawfile"}

\* The points where the dropped handler owed the guard its next step.
OwingPCs == {"arm", "loaded", "rload", "rok", "rfail"}

DropConnection(r) ==
  /\ pc[r] \in AwaitPCs
  /\ Goto(r, "idle")
  /\ broken' = IF pc[r] \in OwingPCs THEN broken \cup {"dropped"} ELSE broken
  /\ UNCHANGED <<vyos, files, inner, timer, job, tgt, used, ghosts>>

\* No change is pending, being reverted or in the hands of a handler.
Quiet == /\ pending = None /\ ~reverting
         /\ \A r \in Requests : pc[r] = "idle"
         /\ \A o \in Ops : timer[o] \notin RevertPCs

\* The guard's state lives in the process only.
Forget ==
  /\ pending' = None /\ reverting' = FALSE /\ last' = "none"
  /\ timer' = [o \in Ops |-> "off"]
  /\ pc' = [r \in Requests |-> "idle"]
  /\ UNCHANGED <<files, job, tgt, used>>

Restart ==
  /\ Forget
  /\ broken' = IF Quiet THEN broken ELSE broken \cup {"restart"}
  /\ UNCHANGED <<vyos, ghosts>>

\* A power cycle comes back with the boot configuration; register-api-key,
\* which runs before it is loaded, finds Key in it (WebUiAccessKept).
PowerCycle ==
  /\ Forget
  /\ Commit(boot)
  /\ accepted' = boot
  /\ UNCHANGED <<boot, acceptedEver, broken>>

-----------------------------------------------------------------------------
\* A handler in service gets the answer, or the error, of a call to VyOS.
Answer(r) ==
  \/ LockoutCheck(r) \/ Graft(r) \/ SaveSnapshot(r) \/ Configure(r)
  \/ LoadTarget(r) \/ ConfirmSave(r) \/ RevertLoad(r)
  \/ RawConfigure(r) \/ RawSave(r) \/ RawLoad(r)

\* A step that a handler in service takes by itself.
Serve(r) ==
  \/ RollbackCheck(r) \/ UnlinkStale(r) \/ StatSnapshot(r) \/ BeginPending(r)
  \/ WriteLoadFile(r) \/ RemoveLoadFile(r)
  \/ ConfirmUnlink(r) \/ ConfirmDone(r) \/ RevertUnlink(r) \/ RevertFinish(r)

\* A step that a timer task takes by itself; TimerLoad awaits VyOS.
Tick(o) == Expire(o) \/ TimerUnlink(o) \/ TimerFinish(o)

\* A request arrives.
Arrive(r) ==
  \/ \E o \in Ops : ApplyStart(r, o)
  \/ \E o \in Ops, keys \in {{}, {Key}, {Foreign}} : RestoreStart(r, o, keys)
  \/ \E o \in Ops, cfg \in archive : RollbackStart(r, o, cfg)
  \/ \E o \in Ops : RawConfigureStart(r, o)
  \/ RawFileStart(r) \/ ConfirmTake(r) \/ RevertTake(r)

Next ==
  \/ \E r \in Requests : Arrive(r) \/ Answer(r) \/ Serve(r) \/ DropConnection(r)
  \/ \E o \in Ops : TimerLoad(o) \/ Tick(o)
  \/ Restart
  \/ PowerCycle

\* Handlers in service and spawned timers are run by the tokio runtime.  That
\* VyOS answers is not promised, and its client has no timeout (main.rs); nor
\* that requests arrive, connections drop or the device restarts.
Fairness == /\ \A r \in Requests : WF_vars(Serve(r))
            /\ \A o \in Ops : WF_vars(Tick(o))

Spec == Init /\ [][Next]_vars

FairSpec == Spec /\ Fairness

\* Every call to VyOS is answered, or fails.
VyosAnswers == /\ \A r \in Requests : WF_vars(Answer(r))
               /\ \A o \in Ops : WF_vars(TimerLoad(o))

-----------------------------------------------------------------------------
(* What the guard promises (guard.rs, module comment; README, "Commit-     *)
(* confirm guard")                                                         *)

RevertInFlight == \/ \E o \in Ops : timer[o] \in RevertPCs
                  \/ \E r \in Requests : pc[r] \in RevertPCs

\* "No confirmation ... and the timer loads the snapshot back": as long as
\* the environment kept its side, a guard at rest (nothing pending, no revert
\* and no handler in flight) leaves the live configuration as the operator
\* last agreed to it, whichever way apply, restore, rollback, confirm,
\* revert, expiry, failures and power cycles followed one another.
Settled == broken = {} /\ Quiet => running = accepted

\* While a change is pending the one shared snapshot file holds exactly the
\* configuration from before the change, and it still does when the revert
\* of that change loads it (begin_pending to revert_pending).
SnapshotIsRevertTarget ==
  broken = {} /\ (pending # None \/ \E o \in Ops : timer[o] = "rload")
    => snapFile = accepted

\* "Only then is the change persisted to the boot config": the boot
\* configuration is always one the operator agreed to, so a power cycle in
\* the window comes back in an agreed state.
BootAccepted == broken = {} => boot \in acceptedEver

\* What a revert loads and what a power cycle comes back with always lets the
\* backend in, whatever was restored, rolled back to, saved or dropped; and as
\* long as no upload came with a foreign key, so do the live configuration,
\* through which confirm and revert reach VyOS, and every archived one that a
\* rollback loads without a graft.
WebUiAccessKept ==
  /\ Key \in boot
  /\ snapFile # None => Key \in snapFile
  /\ "foreign" \notin broken => \A cfg \in archive \cup {running} : Key \in cfg

\* A registered change has its own live timer in every interleaving, also
\* when it superseded another one whose timer is still to fire.
PendingHasTimer == \A o \in Ops : pending = o => timer[o] = "armed"

\* GuardInner.reverting "blocks new applies so a snapshot is never taken of a
\* half-reverted config": without overlapping requests no handler is on its
\* way to a snapshot or a commit while a revert is running.
NoApplyDuringRevert ==
  "overlap" \notin broken /\ RevertInFlight
    => /\ reverting
       /\ \A r \in Requests : pc[r] \in RevertPCs \cup {"idle", "rbcheck"}

\* A live change the operator has not agreed to does not stay: it is
\* confirmed, or reverted by its timer.  TLC refutes this of FairSpec, in which
\* VyOS may leave the load of the snapshot unanswered.
ChangesSettle == running # accepted ~> (running = accepted \/ broken # {})

\* As long as VyOS answers, no unconfirmed change stays live, and a revert in
\* flight ends and unblocks the guard (FairSpec).
UnconfirmedEnds ==
  VyosAnswers => /\ ChangesSettle
                 /\ reverting ~> (~reverting \/ "dropped" \in broken)

Promise == INSTANCE CommitConfirm WITH
             Configs <- Config, live <- running, kept <- accepted, stored <- boot,
             sound <- broken = {}

\* The guard implements commit-confirm: as long as no assumption is broken,
\* every step of handlers, timers and VyOS is a step of CommitConfirm or changes
\* nothing in it; in particular a revert restores exactly what was agreed to, and
\* no commit is made and nothing is saved to boot over a change on trial.
ImplementsCommitConfirm == Promise!ConfirmSpec
-----------------------------------------------------------------------------
(* The same promises without an assumption they rest on: TLC refutes them  *)

\* The revert promise when two administrators, or two tabs, apply at once: at
\* rest, the live configuration is one that somebody agreed to.
AgreedWithOverlap ==
  broken \subseteq {"overlap"} /\ boot \in acceptedEver /\ Quiet
    => running \in acceptedEver

\* The revert promise when a backup of another device, or from before the key
\* was generated anew, is restored and not confirmed: its key has the name the
\* graft looks for, so it is loaded as it is, VyOS refuses the backend from
\* then on, and the timer cannot load the snapshot back.
SettledWithForeign == broken \subseteq {"foreign"} /\ Quiet => running = accepted
=============================================================================
