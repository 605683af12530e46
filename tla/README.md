# QuartzFire: TLA+ models and proofs

QuartzFire is a firewall distribution on VyOS. The image build comes from VyOS;
the programs written for QuartzFire are the WebUI (a Rust backend in front of
the VyOS HTTP API, and a TypeScript frontend), the cloud agent `qfagent`, the
application-control daemon `qfappd`, the device inventory `qfdevd`, and three
conf-mode packages (country blocking, TLS inspection, content filtering).

This directory models the parts whose correctness depends on interleavings,
failures, restarts and stale copies: the commit-confirm guard of the WebUI and
its browser side, the configuration editors and the firewall rules page of the
frontend, the enrollment of the cloud agent, and the verdict path of
application control.

    cd tla
    tlc -workers 2 -config GuardSafety.cfg MCCommitGuard     # and so on, see "Runs"
    tlapm CommitGuardProofs.tla
    tlapm AppControlProofs.tla

## 1. Inventory

| Component | Source | State it keeps | Operations |
|---|---|---|---|
| Commit-confirm guard | `quartzfire-webui/backend/src/infra/guard.rs` | in memory: `pending`, `reverting`, `last`; on disk: one snapshot file, one load file | apply, restore, rollback, confirm, revert, pending, lockout-check; one timer task per change |
| Raw VyOS proxy | `backend/src/infra/proxy.rs`, `vyos.rs` | none | forward `/configure`, `/config-file`, ... unless a change is pending |
| Enrollment | `qfagent/src/commands.rs`, `identity.rs`, `state.rs`, `enroll.rs` | `state.json`, device key, certificates, trigger file | `commit` (conf-mode owner), `scrub`, `identity regenerate`, `prepare-template` |
| Control channel | `qfagent/src/daemon.rs`, `control.rs` | a copy of the enrollment state taken at start | park, connect, renew the certificate, reconnect |
| Application control | `qfappd/crates/*` | the nftables table, one flow table per worker, the policy handle; verdicts live in the conntrack mark | classify a packet, sweep, reload, start, stop |
| Policy delivery | `qfappd/scripts/qfappd-apply`, units | desired state, `policy.json` on tmpfs | validate, publish, reload |
| Device inventory | `qfdevd/src` | an SQLite database; the accountant of live flows | snapshot poll, destroy-event stream, neighbour and lease loops |
| Country blocking, TLS inspection, content filtering | `quartzfire-geoip`, `quartzfire-ssl-inspection`, `quartzfire-content-filtering` | one nftables table or proxy configuration each, and a downloaded data set | conf-mode apply, firewall resync, data update |
| System image job | `backend/src/infra/image.rs` | one job slot, staged upload | upload, install, status |
| Guard and save clients | `frontend/lib/guard.ts`, `bootSave.ts`, `components/dashboard/CommitGuard.tsx`, `SaveIndicator.tsx` | what the banner shows, the expiry timer; one save in flight and one requested | apply, confirm, revert, poll, dismiss; schedule and retry a save |
| Configuration editors | `frontend/lib/{bgp,ospf,isis,mpls,routing,routing-policy,vrrp,virtual-server,config-sync,interfaces,nat,firewall,services,system,ipsec,openvpn,wireguard,l2tp}.ts` and their pages | the page's copy of the configuration, the open form | load, open, edit, save (a diff), delete |
| Firewall rules page | `frontend/lib/firewall.ts`, `rule-services.ts`, `rule-cascade.ts`, `geolocation.ts` | the page's copy, the rule form, an App Control write that follows a commit | save a rule with its services, delete, reorder, IPS, logging, default action, zones, policies |
| Sessions, reboot, monitoring, routing, IPS | rest of `backend/src` | a secret file, trigger files | stateless or read-only endpoints |

How they interact. The browser calls the backend over HTTP. The backend calls
the VyOS HTTP API, which commits configurations. VyOS runs conf-mode owners
inside a commit (`qfagent commit`, `qfappd-apply`, geoip, ...). The owners write
files and restart or signal daemons. The daemons share nothing with them but
files, nftables and systemd.

What is hard:

* **Guard**: handlers are async and check "is a change pending" once, long
  before they commit. All changes share one snapshot file. A handler ends with
  its connection, and the guard's memory with its process. Correct means: a
  change nobody confirms is undone completely, and nothing unconfirmed reaches
  the boot configuration.
* **Enrollment**: a one-time token sits in the configuration until a separate
  service removes it. The owner, that service, the daemon's renewal, the
  operator and the power switch all write the same few files. Correct means: a
  consumed token is not used again and does not stay, and the certificates
  match the state.
* **Application control**: the kernel decides what to queue by one copy of the
  policy and the worker judges by another. Packets wait between them. The flow
  table is bounded and forgets. Correct means: a verdict is final, a block
  takes effect, and a flow is judged by the action that bound it.
* **Guard client**: polls, clicks and applies are in flight together and are
  answered in any order, or not at all; the server's answer to a poll does not
  say that a revert is running. Correct means: what the banner says is true, a
  countdown stays while its change is pending, and the lockout dialog is
  answered by the user alone.
* **Editors**: a form shows a row that others may have changed since, and its
  save is a diff between two rows. Parser and diff are separate code, written
  field by field, for each of some fifty objects. Correct means: a save reads
  back as it was entered, and changes only what its user edited.
* **Firewall rules**: one rule is several copies under one number, in as many
  zone pairs, with groups, bindings and the references of three other features
  hanging on the number. Correct means: they stay consistent over saves, moves,
  deletes and reorders.
* **Not yet modelled**: usage accounting (a dump and an event stream both count
  the same flow), policy delivery (a publication racing daemon start and stop),
  and three writers of one nftables table in geoip.

`PROJECT.json` lists the main hazards at their lines, with the properties that
watch them; section 4 ends with the others.

## 2. Modules

| Module | Models |
|---|---|
| `CommitConfirm` | what commit-confirm promises, abstractly |
| `CommitGuard` | guard, raw proxy, VyOS API, dropped connections, restart, power cycle |
| `CommitGuardProofs` | theorems about `CommitGuard` |
| `Enrollment` | owner, scrub, daemon, regenerate, crash, power cycle |
| `EnrollmentProofs` | theorems about `Enrollment` |
| `AppPolicy` | policy compilation as operators: validity, ACTION_IDs, verdicts |
| `AppControl` | kernel rules, queue, worker, flow table, reload, lifecycle (extends `AppPolicy`) |
| `AppControlProofs` | theorems about `AppPolicy` and `AppControl` |
| `ShellClients` | the guard's and the boot save's browser side, with a server other sessions use |
| `ShellClientsProofs` | theorems about `ShellClients` |
| `ConfigTree` | configurations as sets of paths, command batches, what VyOS does with them |
| `EditorKit` | what all editors share: schemas, reading a row, diffing two rows |
| `EditorKitProofs` | theorems about reading, diffing and committing, for every schema |
| `RoutingEditors`, `HaEditors`, `InterfaceEditors`, `NatEditors`, `FirewallEditors`, `ServiceEditors`, `SystemEditors`, `VpnEditors` | the editors of one part of the console each |
| `Editors` | all 49 editors under one interface |
| `EditorInputs` | starting configurations and the edits users make |
| `Console` | a page, its form, the router and other administrators (composes all of these) |
| `ConsoleProofs` | theorems about `Console`, for every set of editors and inputs |
| `SubnetProofs` | a theorem about `Console` and the ids of the DHCP server's subnets |
| `FirewallRules` | rules over base chains and zone pairs, and what hangs on their numbers |
| `FirewallRulesProofs` | theorems about `FirewallRules` |
| `MCCommitGuard`, `MCEnrollment`, `MCAppControl`, `MCShellClients`, `MCConsole`, `MCFirewallRules` | small instances for TLC |

In the system modules and the editors some operators are marked "Mutant". They are altered copies of the definition that follows them,
with a bug such as a dropped guard. They are not part of any specification;
`PROJECT.json` pairs each with the property it violates.

### History variable `broken`

The three system modules each keep a set `broken` of things that went wrong
around the component. The properties say which of them they tolerate. So a
property of the form `broken = {} => ...` still speaks of every interleaving
and of every failure that is not in the list: refused calls, failed saves,
expiry racing confirmation, power cycles, crashes at rest. What each entry
stands for is stated at `Assumptions` and `Troubles`. Nothing that happens on
the ordinary path is such an entry. Where an entry hides a disagreement with
what the code's comments promise, a run of its own shows it or section 4 names it.
`ShellClients` keeps such a set too (`trouble`), cleared when the page is
loaded anew.

### CommitGuard

A configuration is the set of changes in it plus what its `service https api
keys id quartzfire` holds, if it has one: `Key`, the backend's own API key, or
`Foreign`, a key of the same name from another device or an earlier
installation. VyOS answers the backend only while `Key` is live; the graft of a
restore (`Graft`) looks, as `has_webui_api_key` does, for either. Variables follow the code: `pending`,
`reverting` and `last` are `GuardInner`; `snapFile` and `loadFile` the two
files; `timer[o]` the task that `begin_pending` spawns; `pc[r]` the point a
request's handler has reached. Every await, file operation and lock region is
one step, so other handlers run in between. One action per step:

* `apply`: `ApplyStart`, `LockoutCheck`, then `save_running_config`
  (`UnlinkStale`, `SaveSnapshot`, `StatSnapshot`), `Configure`, `BeginPending`;
* `restore` and `rollback`: `RestoreStart`, `Graft` or `RollbackStart`,
  `RollbackCheck`, the same snapshot steps, `WriteLoadFile`, `LoadTarget`,
  `RemoveLoadFile`, `BeginPending`;
* `confirm`: `ConfirmTake`, `ConfirmUnlink`, `ConfirmSave`, `ConfirmDone`;
* `expire` and `revert`: `Expire` or `RevertTake`, then `revert_pending` in the
  timer task (`TimerLoad`, `TimerUnlink`, `TimerFinish`) or in the handler
  (`RevertLoad`, `RevertUnlink`, `RevertFinish`);
* the raw proxy: `RawConfigureStart`/`RawConfigure`, and `RawFileStart` with
  `RawSave` or `RawLoad`, by what the body of `/config-file` asks for;
* the environment: `DropConnection`, `Restart`, `PowerCycle`.

`accepted` and `acceptedEver` record what the operator agreed to: a confirmed
change, an unguarded commit, or the boot configuration after a power cycle.

Abstracted: the anti-lockout analysis (`check_commands`) passes or refuses
nondeterministically; changes only add to a configuration and leave `service
https` alone, as every page of the frontend does, so `WebUiAccessKept` is about
restore, rollback and revert and not about a client that deletes the subtree by
hand. A raw load is of the boot configuration, the file that is on the device.

A call to VyOS is one step, which may never be taken: the client has no
timeout. `Serve` has the steps of handlers and timers that do not wait for VyOS,
`Answer` those in which it answers a handler, `Tick` a timer that fires, and
`VyosAnswers` says that VyOS answers every call sooner or later.

### Enrollment

`active`, `boot` and `sess` are the token in the running, boot and committing
configuration; `cpc` is the owner's progress in the commit, which also is the
commit lock; `st`, `cert` and `key` are the files; `dpc` and `dst` the daemon
and its copy of the state; `spc`, `ops` and `tries` the scrub. The token names
its enrollment and gateway.

* owner (`commit_inner`): `Decide`, `Enroll`, `SaveCertificates`, `SaveState`,
  `BumpTrigger`, `RestartDaemon`, then VyOS's `FinishCommit` or `AbortCommit`;
* scrub (`scrub_inner`): `ScrubStart`, `ScrubAttemptFails`, `ScrubCommit`,
  `ScrubRetry`, `ScrubSave`;
* daemon: `Connect`, `LoseChannel`, `RenewStart`, `RenewCert`, `RenewState`,
  `DaemonCrash`;
* operator and power: `UserCommit` (a token, none, or other settings beside the
  token that is there), `UserSave`, `PowerCycle`, and `regenerate` in the steps
  of its two removals and its start (`RegenerateWipe`, `RegenerateForget`,
  `RegenerateStart`).

The commit lock excludes commits, not the daemon nor `regenerate`. The scrub's
own commit runs the owner like any other. The owner arms the scrub before its
commit is over, so `ScrubStart`, which reads the running configuration once, may
come before the token is in it: then it has nothing to do, and the token stays
(`enroll_scrub`). What holds on every path is that such a token is the one
`state.json` records (`LeftoverKnown`), and that a token the scrub has found goes
(`FoundTokenLeaves`). Left out: `prepare-template`, the parking on a host
mismatch, telemetry and proxied requests on the stream, and failures of the
agent's own file writes.

### AppPolicy and AppControl

A policy is a record of named actions and a set of bindings; interfaces,
addresses and ports are reduced to the flows a binding matches. `AppPolicy`
gives `ValidPolicy`, `ActionId` (numbered from 1 in binding order, what the
kernel puts into the packet mark), `ActionAt` (the worker's look-up) and
`VerdictOf`.

`AppControl` has the kernel (`rules`, `ct`, `queue`), the worker (`lru`,
`pkts`) and the daemon (`daemon`, `policy`, `reload`, `lastErr`). `Enqueue` is
the chain `forward` with its fast paths; `HandlePacket` one turn of `run_queue`
(`StillClassifying`, `Finalize` with `Persist`, `NotInspected`); `Sweep` the
idle eviction; `ReloadBindings` and `StorePolicy` the two halves of a reload,
`ReloadRejected` its failure; `Start`, `Stop`, `WorkerExit` and `Crash` the
lifecycle; `Close` the end of a connection in conntrack. nDPI may settle on any
application, at any packet. `judge`, `passed` and `leaked` are history.

Workers share only the policy handle and a flow always goes to the same queue,
so one worker stands for all. Left out: TCP resets, events, statistics, the
gRPC service, the bit layout of the mark, and a worker that dies alone.

### ShellClients

`ui` is `GuardState`, `timer` the client's `expiryTimer`, `save` the state of
`bootSave.ts`; `call[s]` holds the calls in flight. A call is sent (`Submit`,
`Click`, `ExpiryTimer`, the banner's mount), served (`ServePoll`, `ServeApply`,
`ServeClick`, `ServeCommit`, `ServeSave`) and delivered (`SyncPending`,
`ApplyAnswered`, `ClickAnswered`, `CommitAnswered`, `SaveAnswered`) in three
steps, or lost (`PollFails`, `Lost`). The server's part is a short form of the
guard, one request at a time: what overlapping requests do is `CommitGuard`'s
subject. The save of a confirmation and the load of a revert take a step of
their own (`ConfirmSaves`, `RevertLoads`), since polls are served meanwhile.
`Others` are the other sessions; `fate` records what became of each change.

### The editors and Console

An editor is data: the node it is kept at, the schema its parser reads, the
schema its diff writes, the fields validation requires, where the `live` row of
its diff comes from (the row the form was opened on, the page's, or a fresh
read), whether it is a modal or a panel of the page, whether an object can be
renamed. `EditorKit` gives the meaning: `Row` is what the parse helpers
(`childStr`, `keysOf`, ...) compute, `Diff` what `leaf`, `flag`, `multi` and the
per-object diffs emit. Where an editor does more than its schema, it has
operators of its own: static routes with several hops, OSPF areas, NAT pairs,
VXLAN with its bridge, aliases and policies with their markers, zones, DHCP,
config-sync, OpenVPN modes and others. `X_Write == X_Read` means that the code's
parser and diff name the same nodes; where they do not, the two differ.
A configuration is a set of paths that is a tree (`Rooted`, part of `TypeOK`);
keywords that the code never addresses apart are one element of a path, joined by
an underscore.

`TypeOK` is about shapes: of a configuration (`IsConfig`: nothing is named by an
empty string but what may be), of an object's key (`IsKey`), of a row, field by
field (`IsRow`), and of the form (`IsForm`: its seed and its entries are rows
too). `IsKnown` is what single editors rely on the configuration for: OpenVPN
modes that they know, and a decimal left for the next subnet id. `Text` is the
set of strings; `TextAssumption` says that it has the strings the code writes
(`Keywords`), `SchemasAssumption` that no two fields share a node and that what
an editor writes is part of what it reads, and `InputsAssumption` that the
starting configurations and the inputs have these shapes. `SubnetsAssumption` is
about the DHCP server: the router starts with subnet ids that are apart
(`IdsApart`; VyOS refuses others), only the four pages of the DHCP server write to
its section, and a range or a mapping is entered under a subnet that is there at
the start (`Homes`), as those pages list ranges and mappings by subnet.

`Console` has the router's `tree`, the copy on the `page`, the `form` and the
outcome of the last save (`toast`). `Load`, `LoadFails`, `Open`, `OpenNew`,
`Edit`, `Cancel`, `Save`, `SaveRefused` and `Delete` are the page; `Other` is
another administrator.

Assumed of VyOS: a batch is applied deletes first, except the deletes the code
sends last, after the sets they may undo; a batch with a delete of an absent
node may be refused as a whole; a node that lost its last child is like an absent one.
Abstracted: the syntax of addresses and names, and the locks on names of
aliases and zones in use. Left out: four shapes of objects that only the
command line makes and that an untouched save alters (see `EditorInputs`; they
are named at the end of section 4).

### FirewallRules

`conf` is the part of the configuration that rules touch: `rule` (by scope and
number), `bound` zone pairs, `zones`, auto-managed `group`s, `geo` and `ssl`
policies, and the baselines. `ac` is App Control's store. `DiffRule` is
`diffRule`, step by step: the scopes a rule leaves (`Dropped`), its group
(`RuleGroup`), the baselines it relies on (`EnsureRule`) and, in every scope,
the leaves that differ from the rule it was opened on (`Changes`). `ApplyRule` and `AcAfter` are
`applyRuleAndServices`; `Delete`, `Reorder` and `AcCascade` are
`rule-cascade.ts`. `Confirm` and `Revert` end a commit's window; `missed` says
that a best-effort read of a cascade or the App Control write failed; a write
whose commit was reverted is no longer `sound`. Every service carries the name of the rule
it was attached to (`of`), which is how the properties know where it belongs.

Rules keep their real numbers, those of the command line at 1 and 2 included.
The code takes rules at these numbers for a baseline it must not touch
(`Low`, `HasBaseline`), so the model derives this from the rules and does not
keep it: deletes, moves and reorders take such rules away like any other, and a
baseline that is seeded takes their place (`SeedBaseline`). `RulesEnforced` asks
for the baselines except after a commit that took a chain's last low rule
(`LowKept`); section 4 says what happens then.

The form reads the three services when it opens, and each read may fail
(`Readings`): it then counts as empty, the form offers nothing of that service,
and the save is computed from nothing (`SubmitAs`). `ServicesKept` says that even
so the other rules keep what they have: ids and bindings that are computed from
an empty reading are never written, because the actions to choose from are gone
with it. The rule itself may keep what it should lose (section 4).

A renamed zone can leave a ruleset behind whose binding went with the old name.
The page does not show its rules, so they miss what is written meanwhile, and
numbers are handed out without regard to them; when the pair is bound again they
come back as copies of a rule, or as rules, under the numbers they had.
`CopiesStayEqual`, `RulesStayDistinct` and `RulesKept` therefore start from
configurations where rulesets and bindings go together (`Enforced`), which
`RulesEnforced` says every commit but such a rename keeps. The attempt to prove
them without this hypothesis failed on these rulesets; TLC then showed each of
the three broken from the start `Leftover`. `ServicesSound` starts from
`Orderly` configurations, where numbers are unique and the copies of a rule have
one name too: a service knows its rule by the number, and the model knows by the
name whose it is. It says that no service comes to apply to another rule;
`ServicesKept` says that none is lost, and that a saved rule has exactly those
its form asked for.

## 3. Properties

| Property | Says |
|---|---|
| `Settled` | guard at rest: the live configuration is the one last agreed to |
| `SnapshotIsRevertTarget` | the snapshot is what the revert must restore, as long as it may be needed |
| `BootAccepted` | the boot configuration was agreed to |
| `WebUiAccessKept` | what a revert loads and what boots lets the backend in; without an upload with a foreign key, so do the live and every archived configuration |
| `PendingHasTimer` | a pending change has its own armed timer (proved; what it is for, `UnconfirmedEnds` checks) |
| `NoApplyDuringRevert` | no snapshot or commit runs into a revert |
| `UnconfirmedEnds` | as long as VyOS answers, an unconfirmed change is confirmed or undone, and a revert ends and unblocks the guard |
| `ImplementsCommitConfirm` | as long as no assumption is broken (`sound`), the guard implements `CommitConfirm` |
| `ReplaySafe` | a boot does not enroll again with the last token |
| `CertsMatchState` | certificate, trust anchors and state are of one enrollment and of the present key |
| `LeftoverKnown` | a consumed token that is left in the running configuration is the one `state.json` records, so it is not used again |
| `FoundTokenLeaves` | a token that the scrub has found leaves the running configuration, unless every attempt fails |
| `DaemonCurrent` | the daemon works from the state on disk |
| `VerdictSticks` | a verdict is final until the connection ends |
| `BlockedIsDropped` | nothing of a blocked flow is forwarded by the worker |
| `JudgedAsBound` | a flow is judged by the action that bound it |
| `TableSound` | the flow table is bounded, without duplicates, with undecided flows only, each within its packet budget |
| `RulesAgree` | kernel and workers have the same policy outside a reload |
| `FlowsGetDecided` | no flow is queued to userspace for ever undecided |
| `NoticesTrue` | a notice says what became of its change |
| `DialogAnswered` | an apply that waits for the user has its dialog on the screen |
| `CountdownShown` | a registered change has its countdown while it is pending, and a countdown does not outlive its change unless a poll failed |
| `ToldHow` | a countdown ends in silence only when its change was confirmed, and otherwise in a notice about it |
| `BootSaveHonest` | an idle save indicator means that the tab's commits are in the boot configuration |
| `SavedAsEntered` | what an editor's diff writes, its parser reads |
| `OnlyEdited` | a save changes what its user edited, whatever others did since the form was opened |
| `AcceptedWhenFresh` | an up to date form sends nothing the router refuses |
| `DeletesOneRow` | a delete takes one row and leaves the others |
| `DistinctSubnetIds` | DHCP subnet ids stay distinct |
| `RulesEnforced` | a zone pair is bound exactly while it holds a rule, and the baselines rules rely on are there |
| `RulesStayDistinct` | no two rules share a number or an auto-managed group |
| `CopiesStayEqual` | the copies of a rule agree |
| `RulesKept` | rules nobody edits are kept, by a reorder with all their leaves |
| `ServicesSound` | no geolocation policy, SSL policy or App Control binding comes to apply to another rule |
| `ServicesKept` | no rule loses a service, and a saved rule has those its form asked for |

Each module also has a `TypeOK`.

## 4. Runs

Passing:

| Run | Instance | Shows |
|---|---|---|
| `guard_safety` | two changes, two requests, symmetry | the guard's five safety properties |
| `guard_promise` | two changes, one request, `FairSpec` | `UnconfirmedEnds`, which has `VyosAnswers` as its premise, and `ImplementsCommitConfirm` |
| `enroll_safety` | two tokens, two scrub attempts, two device keys, `FairSpec` | the four enrollment safety properties, and `FoundTokenLeaves` |
| `app_safety` | two flows, three policies, budget 2, table of 1, queue of 2, `FairSpec` | the five safety properties of application control, and `FlowsGetDecided` |
| `console_safety` | all 49 editors, two objects each, one change by others | the five properties of the editors |
| `rules_safety` | four zone pairs, four starting configurations, reads of the services that all work or all fail, two changes | the six properties of the rules page |
| `client_safety` | two changes, two calls in flight beside the save | the five properties of the browser side |

Runs that end in a counterexample, each a disagreement between the code and
what its comments or documents say:

| Run | Behaviour |
|---|---|
| `guard_overlap` | Two guarded requests pass the pending check before either registers. The second snapshot is taken over the first change, and a revert restores that: a configuration nobody agreed to stays live with nothing pending. |
| `guard_foreign` | A backup that has an API key of the right name and another secret is restored and not confirmed. It is loaded without the graft, VyOS refuses the backend from then on, and the timer cannot load the snapshot back. (A power cycle comes back with the boot configuration, which has the right key.) |
| `enroll_scrub` | The scrub starts inside the commit that armed it, reads a running configuration without the token, finds nothing to do and ends. The retries that are meant for this come after the reading. The consumed token stays. |
| `enroll_race` | A renewal in flight writes the daemon's old state over the one a new enrollment saved. The next boot takes the consumed token for a fresh one. |
| `client_silent` | The tab's poll after the deadline is served while the revert is still loading. Nothing is pending and no outcome is recorded yet: the banner goes away as if another tab had confirmed, and the user is not told that the change was undone. |

More behaviours of this kind follow from the models and have no run of their
own; the properties exempt them by name. Backend and daemons: a connection that drops while
`configure` is awaited takes the handler with it, and the change is live
without a timer (`Settled` under `broken`); a proxied save that overlaps a
guarded apply stores the change before it is confirmed (`BootAccepted`); a
manual revert whose connection drops leaves `reverting` set until the backend
restarts, and so does a revert whose load VyOS never answers (`ChangesSettle`
without the premise of `UnconfirmedEnds`); packets that
wait in the queue when their flow is decided start a second classification,
whose verdict replaces the first (`VerdictSticks`); a packet queued before a
reload is judged by whichever action has its ACTION_ID in the new policy
(`JudgedAsBound`). Editors: `MixesSections` and `SwitchesMode` in `Console`; and
the forms of IPsec peers, WireGuard and L2TP say "Leave blank to keep the
current secret", but are seeded with the secret, so that a blanked field is a
difference and the save deletes it. Rules, each shown by TLC when the exemption
is taken out:

* `LowKept`: rules 1 and 2 of the forward chain were made on the command line,
  so no flow rule is seeded for a rule with IPS; a reorder gives them other
  numbers, and nothing is seeded in their place (`firewall.ts:1915`);
* `ServicesRead`: a form whose reads of the services failed takes them for empty;
  the rule is changed to drop, and its policies stay attached, where the comment
  says that it "detaches any it previously had" (`RuleFormModal.tsx:458`, `541`);
* `SameRepresentative`, `NumbersAgree`: a zone rule moves so that another pair
  comes to represent it; it keeps its number, but is taken for renumbered, and
  its services are written to a number no rule has (`rule-services.ts:283`);
* SSL policies of a reorder: they are not repointed, and apply to the rules that
  took the numbers (`rule-cascade.ts:114`);
* `ZonesKept`: a zone that a rule is in through a pair other than its
  representative counts as unused, and is deleted with that copy of the rule
  (`firewall.ts:1056`);
* `Enforced`, `SharedFields` and `missed`, as section 2 and their comments say.

Clients: `stale`, `crossed`, `lost` and `missed` in `ShellClients`.

What the models do not reach, beside the parts that are not modelled:

* guard: the path prefixes of the anti-lockout analysis (`guard.rs:462`); a
  change that deletes `service https` itself (`proxy.rs:35`); a revision number
  that a commit has shifted since it was shown (`guard.rs:851`);
* enrollment: a crash between `device.key` and `host.json` (`identity.rs:185`);
* application control: a worker that cannot bind its queue beside others that
  can (`daemon.rs:218`);
* clients: a reload forgets the second of two coalesced saves
  (`bootSave.ts:26`); an apply whose answer is lost has no countdown until
  something polls (`guard.ts:204`);
* editors: loads without a sequence number (`routing/bgp/page.tsx:96`); the
  read before the commit of a 1-to-1 NAT mapping (`nat.ts:376`); the bridge
  membership of a deleted VXLAN interface (`interfaces.ts:998`); untouched saves
  of objects made on the command line (`vpn/ipsec/PeerFormModal.tsx:120`,
  `nat/nat44/NatRuleFormModal.tsx:85`, `firewall/zones/ZoneFormModal.tsx:67`,
  `interfaces/vxlan/VxlanFormModal.tsx:50`); the readings of settings that no
  page writes: in BGP `allowas-in` without a number and a remote AS that stands
  at the interface of a neighbor itself (`bgp.ts:190`, `bgp.ts:203`), in DHCP
  the flat options and `mac-address` of VyOS 1.3 (`services.ts:176`), in L2TP
  authentication protocols other than the four of the form (`l2tp.ts`);
* rules: two writers of App Control's store between a read and a write
  (`rule-cascade.ts:140`).

### Bounds

* Two requests are enough for any two handlers to meet at every pair of awaits,
  and two changes for one to supersede the other and for a stale timer to fire.
  Identities of changes are used up, which bounds the commits. `guard_promise`
  has one request: a second adds only the overlap that its properties exempt.
* Two tokens give an old and a new enrollment. `MaxAttempts = 2` (12 in the
  code) has a failed attempt, a retry and giving up. `MaxKeys = 2` allows one
  regeneration. The constraint `OneTrouble` stops following a behaviour once
  two kinds of trouble have happened. The liveness properties are checked under
  it too: what `FoundTokenLeaves` does not see is a scrub at work after two
  other troubles. `FlowsGetDecided` (same constraint in `MCAppControl`) ends its
  obligation with three of the five troubles; what is not followed is a
  behaviour with both a reload and a flow decided while more of its packets are
  queued.
* Two flows and a table of one entry force evictions; a queue of two holds a
  second packet of a flow while the first is decided; a budget of two packets
  has a counted and a deciding packet. `Both` and `One` give ACTION_ID 1 to
  different actions; `Bad` binds an action that does not exist.

* `Console` follows one editor at a time, as editors share nothing but the
  router. Each has an object with every field set and one with the required
  ones, and a second object beside it; a form is edited once for each opening
  (a field set, cleared or changed, a member added or removed, or another key),
  since a diff treats its fields one by one. `MaxOthers = 1`: one change by
  others, at any point, makes a page or a form stale.
* `FirewallRules`: pairs that share a source, a destination or the firewall's
  own zone; four starting configurations, which have a rule over two pairs, two
  rules that share a pair, every service, a command-line rule at number 1, the
  older baseline, a ruleset left behind without its binding, and none of these.
  `FailedReads`: all three services fail together. `MaxCommits = 2`: one change
  prepares a state, the next is checked; the last one is not followed to its
  confirmation. A form changes one entry and is opened between two changes.
* `ShellClients`: two calls in flight are answered in either order; with two
  changes one can be registered while the answer about another is on its way.
  `OneTrouble` as above. A second `Take` waits until the first has finished its
  work, as `is_pending` makes the next change wait for a revert.

### Fairness

* Guard: weak fairness of each handler's own steps (`Serve`) and of each timer
  that fires (`Tick`), as the tokio runtime runs every ready task. Nothing is
  assumed of arrivals, drops, restarts or power, nor of VyOS: the client that
  calls it is built without a timeout (`main.rs:122`) and its calls are awaited
  without one (`vyos.rs:23`). That VyOS answers is the premise `VyosAnswers` of
  `UnconfirmedEnds`; without it TLC shows `ChangesSettle` broken.
* Enrollment: weak fairness of the commit, the scrub, the renewal (which is
  bounded by its own timeout) and the later steps of `regenerate`; strong
  fairness of `RestartDaemon`, because the stop signal stays pending while the
  daemon runs from await to await.
* Application control: weak fairness of `HandlePacket`, the receive loop of the
  worker thread. Traffic is free, so `FlowsGetDecided` is about flows whose
  packets keep coming.

## 5. Proofs

`CommitGuardProofs`, for any sets of changes and requests, from
`GuardAssumption` (key, `None`, changes and configurations are distinct):

1. `TypeInv` is `TypeOK` and "a handler that is going to commit holds a
   change" (`JobHeld`), without which `Configure` could leave the type.
   Theorem `TypeCorrect`.
2. `KeyInv` adds to `WebUiAccessKept` that the load file and every target past
   its graft hold the key, unless a foreign one was uploaded, since each may
   become live. After such an upload the snapshot and the boot file still hold
   it, because VyOS, which writes both, refuses the backend as soon as the key
   is gone. Theorem `AccessKept`. `PendingHasTimer` is inductive with the types.
   Theorem `TimersHeld`. Both hold in every interleaving.
3. `LockInv`, without overlap: one handler at a time; a pending change excludes
   handlers past their check; a revert excludes both and runs once. Theorem
   `RevertAlone`.
4. `AgreeInv`, while no assumption is broken: the snapshot equals `accepted`
   from when it was taken to when it is loaded, and the live configuration
   equals `accepted` unless a change is on trial. It needs `LockInv`, which
   keeps a second writer away from the snapshot. Theorems `RevertPromise`,
   `SnapshotPromise`, `BootPromise`.
5. Theorem `Refinement`: with the same invariants every step that breaks no
   assumption is a step of `CommitConfirm` or leaves its variables alone.

`AppControlProofs`, first about `AppPolicy`, for any policy with finitely many
bindings and numeric ids:

1. `ActionId` counts the bound names that come before a binding's own; the
   count is a cardinality, and a binding with the least id exists by the
   well-founded order of the numbers (`LeastBinding`).
2. Theorem `ActionIdsName`: the number that the kernel's rules give to a
   binding's packets names, in the worker's table, the action of that binding.

and then about `AppControl`, for any flows, policies and bounds, from
`PolicyAssumption` and `ControlAssumption` (policies as the parser leaves them:
finitely many bindings, numeric ids):

1. `Shape`: the queue holds only packets `Enqueue` makes, each with the
   ACTION_ID its policy gives its flow. `Typed` adds the types and that the
   table holds each flow once. Theorem `TypeCorrect`.
2. `ReloadInv`: the bindings chain is the policy of the reload in progress, or
   the workers'. Theorem `Agreement`.
3. `NoneLeft`: unless a flow was decided with more of its packets queued, a
   classified flow has no packet in the queue. `BlockInv`: blocked implies
   classified. Theorems `VerdictFinal` and `BlockPromise`.
4. Theorem `JudgedByBound`: the action a flow was judged by is looked up by the
   number in its packet, which `ActionIdsName` traces to its binding.
5. `OpenInv` (a flow in the table is undecided; it needs `NoneLeft`) and
   `BudgetInv` (an entry has seen fewer packets than the budget and passed no
   more than it has seen; a flow without an entry has passed none, unless it
   was evicted or its connection reused; no daemon, no table). Neither is
   inductive without the other parts of `Typed`. Theorem `TableKept`.

`EnrollmentProofs`, for any tokens and bounds, from the module's assumptions:

1. `TypeInv` adds to `TypeOK` that an owner that enrolls has a token, that a
   missing key leaves one to generate, and that a scrub at work has attempts
   left. Theorem `TypeCorrect`.
2. `DaemonInv`: the daemon's copy may be older than the file only between the
   owner's write of the state and its restart of the daemon. Theorem
   `DaemonFollows`.
3. `CertInv`, as long as no renewal raced an enrollment, nothing was
   regenerated and no power was lost midway: for every point of the owner and
   of a renewal, which of the certificate, the trust anchors and the state are
   already those of the new enrollment (`MidEnroll`, `MidRenew`, `Settled`).
   `CertsMatchState` speaks of the end points only; the induction goes through
   the points between. Theorems `CertificatesMatch` and `NoReplay`.
4. `LeftoverInv`, under the same exemptions: a consumed token in the running
   configuration, or in a commit that is past its owner, is the one that
   `state.json` records. Scrubs may come too early, be missed or give up.
   Theorem `LeftoverRecognised`.

`ShellClientsProofs`, for any changes, sessions and bounds:

1. `TypeInv`: what is in flight in each call has the shape its delivery
   expects. Theorem `TypeCorrect`.
2. `FateInv`, the core: what the server knows (`ServerInv`), what a request in
   flight asks about (`AskInv`), what an answer in flight reports (`AnswerInv`)
   and what the tab shows (`TabInv`) all agree with `fate`, the record of what
   became of each change, and `fate` never changes once it is final
   (`BookStep`). `NoticesTrue` alone is not inductive, as a notice is made
   from an answer that was true when it was given. Theorem `NoticesHonest`.
3. `BootInv`: a commit of this tab that is not in the boot configuration has a
   save wanted, in flight or failed. Theorem `BootSaveTold`.
4. `BusyInv` (theorem `DialogUp`), `WatchInv` and `CountInv` (theorem
   `CountdownHolds`), and with all of them the action property: theorem
   `ToldTruly`.

TLC checked the inductive invariants on the instances of the runs before they
were proved (but for `CallInv` of `ShellClientsProofs`, whose sets of strings
and records together it cannot enumerate).

`EditorKitProofs`, for every schema whose fields are apart, every configuration
(a set of paths over any set of names) and every row; the editors without
operators of their own (32 of the 49) build their batches by exactly these:

1. Paths: `Under` is an order in which the paths above one path are in a row
   (`UnderOrder`), and what is below paths that are apart is apart
   (`StayApart`). `Below`, `ChildrenApart`, `NodeAndValue` and `Values` say how the
   nodes an editor writes lie to each other; `ReadBelow` and `AtAt` what a parser
   sees of them. Theorem `CommitRooted`: a commit of any batch leaves a tree.
2. `FlatParts`, `SubParts` and `DiffParts` say which commands a diff sends.
   `Meets` is the core: a field meets only its own commands, so that neither the
   rest of the batch nor the order of its parts matters to it. `FlatReadsBack`
   follows for the flat fields of any batch that includes their diff (`Setting`),
   and `FlatIncluded` and `SubIncluded` show that the whole diff does, for the
   object and for each of its sub-nodes.
3. `RowMatches`: a parsed row has what the configuration has; `BlankReads` and
   `BlankMatches`: a blank row stands for an object that is not there. Theorems
   `ReadsBack` and `CreateReadsBack` (`ReadsAs`: the fields but for secrets, the
   keys of the sub-nodes, and their fields), and `DeletesWhatIsThere`. They are
   the general form of `SavedAsEntered` and `AcceptedWhenFresh`, for the editors
   that write what they read (28; a BGP peer, a bond and the loopback write other
   fields than they read).
4. Theorem `ChangesOnlyEdits`, the general form of `OnlyEdited`: whatever row
   the diff is taken against and whatever the configuration is by now. The
   hypothesis `NoSecrets` says that the row came from a parser. Theorem
   `SecretsKept` is about the fields that hold passwords and keys.

The hypotheses on a row (`RowOver`) are its types: a flag is a Boolean, a pick
has a value, as its form has no empty choice for it, and a gate has one key.
`SchemasAssumption` of `Console` says that the schemas of all 49 editors have
their fields apart; TLC evaluates it.

`ConsoleProofs`, for any editors among the 49, any names and values, any starting
configurations and inputs of these shapes and any number of changes by others,
from `EdAssumption`, `SchemasAssumption`, `TextAssumption`, `InputsAssumption` and
`BoundsAssumption`:

1. Rows have shapes. What the parsers read from a configuration (`RowTyped`),
   what a form is seeded with and what it becomes by its edits (`EntriesTyped`,
   `FlatEditTyped`), and what is sent of it are rows of their editor, for the
   editors with operators of their own one by one.
2. Batches are good: every path an editor puts is a path of a configuration.
   This is where empty strings matter: a diff that sent a set for a field left
   empty would name a node by nothing (`MadeGood` for each editor that makes its
   own commands, `CommandsGood` for all). A good batch leaves a configuration
   (`GoodCommit`).
3. Batches keep to what editors rely on (`IsKnown`): no editor writes an OpenVPN
   mode it does not know, and the next subnet id is a decimal (`KnownCommit`).
   Theorem `TypeCorrect` follows from these by `TypeStep`. `IsKnown` is part of the
   invariant until the save, after which nothing is read any more; without it and
   the form's shape `TypeOK` is not inductive.
4. Theorem `DeletesOneRowHolds`. `Remaining` says what a delete leaves: what is
   not below one of its nodes, and not an empty node above one. Keys of different
   objects are apart (`KeysApart`), so that what is below the one is not below the
   other (`DeleteApart`), and an object reads the same when its node and what it
   is read from besides are the same (`RowSame`: VXLAN reads the bridges, an alias
   its marker). Rules of NAT and static routes delete in ways of their own
   (`RuleDeleted`, `RouteDeleted`: a route goes only with its last hop, and the
   other hops of a route are rows that must stay).

`SubnetProofs`, which extends `ConsoleProofs`, from the same assumptions and
`SubnetsAssumption`. Theorem `DistinctSubnetIdsHolds`:

1. The ids are apart before a save only because they were all along, so the
   invariant `IdInv` says so of the configuration (`IdsApart`) in every state
   before the save, whoever changes it.
2. A batch is harmless when each place where it changes something is beside the
   subnets (`Beside`: it is neither a subnet nor an id, nor above one, nor
   below a subnet that is not there; `BesideApart`). That holds for every batch
   of the pages of other sections (`CommandsOff`), for a change to a server or
   a subnet that is there, and for a range or a mapping (`DhcpBeside`), but for
   these only if its subnet is there: one saved under a subnet that is gone
   would bring it back without an id, and two such would have the same. `IdInv`
   therefore has that the subnets of ranges and mappings stay, as their pages
   delete none (in `Console` others work at the same page, so one who deletes
   the subnet meanwhile is not modelled). A delete only takes ids away
   (`DeletesApart`).
3. What is left is the one save that adds an id (`NewDhcpApart`): it adds one
   subnet (`Adding`), with an id that `NextFree` shows to be none of those in
   the configuration. `Fresh` matters: from an old page the id may be taken, as
   a hazard says, or the subnet that is changed gone.

`FirewallRulesProofs`, for any zones, pairs, selections, starting
configurations and bounds, from the assumptions that zone rulesets and base
chains have different names and no pair joins a zone to itself
(`PairsAssumption`), that `Order` lists every scope (`OrderAssumption`), and that
the starts have their types (`StartAssumption`):

1. `TypeOK` is inductive. It needs what the numbering rests on: there are
   finitely many rules and groups, so that a greatest number (`MaxIn`) and a
   free name (`NameFree`) exist; a form is open on a row, and keeps its number;
   rows that share a scope and the number are one (`RowsApart`). Each step that
   a commit is built from yields a configuration. Theorem `TypeCorrect`.
2. `CommitStep`: a commit from a page that shows what runs is a save, a delete,
   a reorder or a setting, applied to `conf` itself. For each kind, what it does
   to the rules is spelt out once: `DiffRuleIs`, `DeleteIs`, `ReorderedIs`,
   `SettingsAre`.
3. Theorem `RulesStayEnforced`: a pair is torn down exactly when its last copy
   goes (`DropEnforced`), and every scope that a save writes is bound and seeded
   (`SaveKeeps`). The baseline half is about commits that leave a chain a low
   rule if it had one (`LowKept`); without that TLC shows it broken.
4. The other properties speak of rows, each made of many copies; the proofs
   speak of copies (`KeysAgree`, `KeysUnique`, `KeysOwned`), and `AgreeIs`,
   `UniqueIs` and `OwnedIs` say that this is the same. `LandsWhere` says where a
   saved rule lands: under its own number, or under one no rule has.
   `SavedWhere` and `ReorderWhere` say what is in every place afterwards.
   Theorems `CopiesEqual` and `RulesDistinct`.
5. `RowStaysPut`: a rule whose copies are untouched, and joined by no other, is
   the same row. Theorem `OthersKept`.
6. Theorem `ServicesTrue` of `ServicesSound`, in two halves. Policies in the configuration: the
   rule and its services land on one number (`NumbersSame`; this is where a zone
   rule that changes its representative is left out), a save leaves the copies
   that other policies refer to (`SaveLeaves`), `GeoCommands` and `SslCommands`
   leave no policy of a number or scope the rule is not in (`GeoCommandsIs`,
   `SslCommandsIs`), and deletes and reorders take policies along (`DeleteGeo`,
   `ReorderGeo`). App Control: the write follows the commit in a later step, so
   what it will do must be known in between. `WriteSound` says that a write still
   to come leaves every binding with a rule of its number and name; a commit
   establishes it (`SubmitWrites`, `DeleteWrites`, `ReorderWrites`), and nothing
   but a revert, which makes the write unsound, comes between.

TLC checks the assumptions and `TypeOK` on the run's instance, and checked
`WriteSound` there; it includes
the configurations the hypotheses exclude (`Leftover`).

Only model-checked:

* liveness (`UnconfirmedEnds`, `FoundTokenLeaves`, `FlowsGetDecided`), as fairness
  and `ENABLED` are out of the prover's reach;
* `ServicesKept` of `FirewallRules`: `ServicesTrue` proves that services are not
  misattached, TLC checks that none is lost;
* `SavedAsEntered`, `OnlyEdited` and `AcceptedWhenFresh` of `Console`. What they
  say is proved for every schema (`EditorKitProofs`); the rest is about what 17
  editors do in ways of their own to concrete nodes, of which `ConsoleProofs`
  and `SubnetProofs` have the shapes, the deletes and the subnets;
* the five runs that end in a counterexample, which there is nothing to prove of.

## 6. Not modelled, and the plan

Not modelled, as there is little in them that could go wrong over several
steps: sessions (signed cookies without server state), monitoring, routing and
IPS endpoints and the pages that show them (read-only), the reboot triggers
(one file each), and the image build, which is not the running program. The
settings pages of the security services edit one store each and are left out;
what the rules page does to those stores is in `FirewallRules`.

Not modelled yet:

1. Proofs: `SavedAsEntered` and `OnlyEdited` for the editors with operators of
   their own.
2. `UsageAccounting`: `qfdevd`'s accountant between the conntrack dump and the
   destroy stream, against an abstract count in which every byte counts once.
   A flow destroyed after its line was dumped, and one dropped by `retain_keys`
   before its event arrives, are the cases to watch (`qfdevd/src/daemon.rs:427`).
3. `PolicyDelivery`: desired state, validation, publication on tmpfs, signal
   and inotify against start and stop of `qfappd`; composed with `AppControl`. A
   policy published after the first load and before the watcher and the signal
   handler are in place is loaded and applied nowhere (`daemon.rs:391`).
4. `AntiLockout`: `check_commands` as a pure algorithm against a reference
   definition.
5. `ImageJob`, then the apply pipelines of geoip, TLS inspection and content
   filtering.
