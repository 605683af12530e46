---------------------------- MODULE ShellClients ----------------------------
(***************************************************************************)
(* The two stores a browser tab of the WebUI keeps: the commit-confirm     *)
(* client (frontend/lib/guard.ts with its banner, CommitGuard.tsx) and the *)
(* background boot save (frontend/lib/bootSave.ts, SaveIndicator.tsx).     *)
(*                                                                         *)
(* A call is sent, served and delivered in three steps, so the answers to  *)
(* the tab's calls arrive in any order and may be out of date.  The server *)
(* serves one request at a time here: what overlapping requests do to it   *)
(* is CommitGuard's affair.  Only what takes long enough for others to be  *)
(* served meanwhile, the save of a confirmation and the load of a revert,  *)
(* has a step of its own.  Other sessions use the same server.             *)
(***************************************************************************)
EXTENDS Naturals

CONSTANTS
  Changes,  \* identities of changes, guarded or direct
  Slots,    \* bound: calls in flight at a time, the boot save apart
  None

ASSUME ClientAssumption == None \notin Changes /\ 1 \in Slots

VARIABLES
  running, boot, \* the live and the boot configuration: sets of changes
  snap,          \* the snapshot the pending change reverts to
  pend,          \* GuardInner.pending
  work,          \* the change a running revert, or save of a confirmation, is of
  reverting,     \* GuardInner.reverting
  last,          \* GuardInner.last
  fate,          \* what became of each change
  ui,            \* GuardState
  timer,         \* expiryTimer: the change it was set for
  call,          \* the calls in flight
  save,          \* BootSaveState, `pending` and the save in flight
  mine,          \* history: direct commits the tab was told of since its load
  trouble        \* history: what went wrong with answers since its load

device == <<running, boot, snap>>
guard  == <<pend, work, reverting, last, fate>>
server == <<device, guard>>
tab    == <<ui, timer, call, save, mine, trouble>>
vars   == <<server, tab>>

Shows(phase, c) == [phase |-> phase, c |-> c, busy |-> "no"]
Idle == Shows("idle", None)
Free == [kind |-> "free", c |-> None, at |-> "none", ans |-> None, old |-> FALSE]
Sent(kind, c) == [Free EXCEPT !.kind = kind, !.c = c, !.at = "sent"]
Mounted == [s \in Slots |-> IF s = 1 THEN Sent("poll", None) ELSE Free]
Saved == [status |-> "idle", call |-> "none", again |-> FALSE]
NoOutcome == [outcome |-> "none", c |-> None]

(***************************************************************************)
(* "lost": an answer never arrived.  "stale": a poll sent before the tab   *)
(* registered a change was delivered after.  "midway": a poll was served   *)
(* while a revert, or the save of a confirmation, ran.  "missed": a second *)
(* change was resolved before the tab heard of the first.  "crossed": the  *)
(* answer of one call replaced what the tab showed on behalf of another.   *)
(***************************************************************************)
Troubles == {"lost", "stale", "midway", "missed", "crossed"}

TypeOK ==
  /\ running \subseteq Changes /\ boot \subseteq Changes /\ snap \subseteq Changes
  /\ pend \in Changes \cup {None} /\ work \in Changes \cup {None} /\ reverting \in BOOLEAN
  /\ last \in {NoOutcome} \cup [outcome : {"confirmed", "reverted", "revert_failed"}, c : Changes]
  /\ fate \in [Changes -> {"new", "asked", "live", "direct", "confirmed", "reverted", "revert_failed", "failed"}]
  /\ ui \in [phase : {"idle", "pending", "lockout", "reverted", "revert_failed"},
             c : Changes \cup {None}, busy : {"no", "confirm", "revert"}]
  /\ timer \in Changes \cup {None}
  /\ \A s \in Slots : /\ call[s].kind \in {"free", "poll", "apply", "override", "confirm", "revert", "commit"}
                      /\ call[s].at \in {"none", "sent", "working", "answered", "asking"}
  /\ save \in [status : {"idle", "saving", "error"}, call : {"none", "sent", "ok", "failed"}, again : BOOLEAN]
  /\ mine \subseteq Changes
  /\ trouble \subseteq Troubles

\* The tab has just been loaded, and its banner asks on mount.
Init ==
  /\ running = {} /\ boot = {} /\ snap = {}
  /\ pend = None /\ work = None /\ reverting = FALSE
  /\ last = NoOutcome
  /\ fate = [c \in Changes |-> "new"]
  /\ ui = Idle /\ timer = None /\ call = Mounted
  /\ save = Saved /\ mine = {} /\ trouble = {}

-----------------------------------------------------------------------------
(* The user at the tab.  The lockout dialog is modal: nothing else is      *)
(* clicked while it is up.                                                 *)

Put(s, x) == call' = [call EXCEPT ![s] = x]
Blame(why) == trouble' = trouble \cup why
Becomes(c, x) == fate' = [fate EXCEPT ![c] = x]

\* A call the user's action or a timer sends needs a free slot.
Send(kind, c) == \E s \in Slots : call[s] = Free /\ Put(s, Sent(kind, c))

\* A form is saved: under commit-confirm (guardedCommitAndSave, "apply"), or
\* directly (commitAndSave, "commit").
Submit(c, kind) ==
  /\ fate[c] = "new" /\ ui.phase # "lockout"
  /\ Send(kind, c)
  /\ Becomes(c, "asked")
  /\ UNCHANGED <<device, pend, work, reverting, last, ui, timer, save, mine, trouble>>

\* The dialog's answer resolves the promise the apply waits for.
Decide(proceed) ==
  /\ ui.phase = "lockout"
  /\ \E s \in Slots : /\ call[s].at = "asking" /\ call[s].c = ui.c
                      /\ Put(s, IF proceed THEN Sent("override", ui.c) ELSE Free)
  /\ ui' = Idle
  /\ UNCHANGED <<server, timer, save, mine, trouble>>

\* confirmPending and revertPending; the buttons are disabled while busy.
Click(kind) ==
  /\ ui.phase = "pending" /\ ui.busy = "no"
  /\ ui' = [ui EXCEPT !.busy = kind]
  /\ Send(kind, ui.c)
  /\ UNCHANGED <<server, timer, save, mine, trouble>>

DismissGuardNotice ==
  /\ ui.phase \in {"reverted", "revert_failed"}
  /\ ui' = Idle
  /\ UNCHANGED <<server, timer, call, save, mine, trouble>>

\* A full page load: the stores and the answers of what is in flight are gone,
\* the banner asks again.
Reload ==
  /\ ui # Idle \/ save # Saved
  /\ ui' = Idle /\ timer' = None /\ call' = Mounted
  /\ save' = Saved /\ mine' = {} /\ trouble' = {}
  /\ UNCHANGED server

\* When its own countdown is over the tab asks what happened; how its clock and
\* the server's compare is left open.
ExpiryTimer ==
  /\ timer # None
  /\ timer' = None
  /\ Send("poll", None)
  /\ UNCHANGED <<server, ui, save, mine, trouble>>

-----------------------------------------------------------------------------
(* The server                                                              *)

IsPending == pend # None \/ reverting

Answer(s, x) == Put(s, [call[s] EXCEPT !.at = "answered", !.ans = x])

\* GET /guard/pending: a running revert, or save of a confirmation, is in none
\* of its fields, and `last` keeps one outcome, recent (ago_secs <= 300) or not.
ServePoll(s) ==
  LET missed == ui.phase = "pending" /\ ui.c \notin {pend, last.c}
  IN /\ call[s].kind = "poll" /\ call[s].at = "sent"
     /\ \E recent \in BOOLEAN : Answer(s, [pend |-> pend, last |-> last, recent |-> recent])
     /\ Blame(IF work # None THEN {"midway"} ELSE IF missed THEN {"missed"} ELSE {})
     /\ UNCHANGED <<server, ui, timer, save, mine>>

\* The change is live, and pending over a snapshot.
BeginPending(c) ==
  /\ ~IsPending
  /\ snap' = running /\ running' = running \cup {c}
  /\ pend' = c /\ Becomes(c, "live")
  /\ UNCHANGED <<boot, work, reverting, last>>

\* POST /guard/apply: 409 while a change is pending or with the reasons of the
\* lockout check, an error, or the change is pending.
ServeApply(s) ==
  /\ call[s].kind \in {"apply", "override"} /\ call[s].at = "sent"
  /\ \/ BeginPending(call[s].c) /\ Answer(s, "ok")
     \/ ~IsPending /\ call[s].kind = "apply" /\ Answer(s, "lockout") /\ UNCHANGED server
     \/ Becomes(call[s].c, "failed") /\ Answer(s, "failed")
        /\ UNCHANGED <<device, pend, work, reverting, last>>
  /\ UNCHANGED <<ui, timer, save, mine, trouble>>

\* Confirm or revert takes the pending change.
Take(kind) ==
  /\ pend # None /\ work = None
  /\ pend' = None /\ work' = pend /\ reverting' = (kind = "revert")
  /\ Becomes(pend, IF kind = "confirm" THEN "confirmed" ELSE "live")
  /\ UNCHANGED <<device, last>>

\* POST /guard/confirm and POST /guard/revert, for the pending id only.
ServeClick(s) ==
  /\ call[s].kind \in {"confirm", "revert"} /\ call[s].at = "sent"
  /\ IF pend = call[s].c
     THEN Take(call[s].kind) /\ Put(s, [call[s] EXCEPT !.at = "working"])
     ELSE Answer(s, "failed") /\ UNCHANGED server
  /\ UNCHANGED <<ui, timer, save, mine, trouble>>

\* The work is done; whoever asked for it is answered.
Done(outcome, answer) ==
  /\ work # None
  /\ last' = [outcome |-> outcome, c |-> work]
  /\ Becomes(work, outcome)
  /\ work' = None /\ reverting' = FALSE
  /\ call' = [s \in Slots |-> IF call[s].at = "working" /\ call[s].c = work
                              THEN [call[s] EXCEPT !.at = "answered", !.ans = answer] ELSE call[s]]
  /\ UNCHANGED <<snap, pend, ui, timer, save, mine, trouble>>

\* The save that ends a confirmation may fail.
ConfirmSaves ==
  /\ ~reverting
  /\ \/ boot' = running /\ Done("confirmed", "ok")
     \/ boot' = boot /\ Done("confirmed", "unsaved")
  /\ UNCHANGED running

\* revert_pending: the snapshot is loaded, or cannot be.
RevertLoads ==
  /\ reverting
  /\ \/ running' = snap /\ Done("reverted", "ok")
     \/ running' = running /\ Done("revert_failed", "failed")
  /\ UNCHANGED boot

\* The window of the pending change is over.
Expire == Take("revert") /\ UNCHANGED tab

\* Another session applies a change, or confirms the pending one.  (A revert by
\* another session is to the tab what an expiry is.)
Others ==
  /\ \/ \E c \in Changes : fate[c] = "new" /\ BeginPending(c)
     \/ Take("confirm")
  /\ UNCHANGED tab

\* The proxied /configure and /config-file, refused while a change is pending.
ServeCommit(s) ==
  /\ call[s].kind = "commit" /\ call[s].at = "sent"
  /\ \/ /\ ~IsPending
        /\ running' = running \cup {call[s].c}
        /\ Becomes(call[s].c, "direct") /\ Answer(s, "ok")
     \/ running' = running /\ Becomes(call[s].c, "failed") /\ Answer(s, "failed")
  /\ UNCHANGED <<boot, snap, pend, work, reverting, last, ui, timer, save, mine, trouble>>

ServeSave ==
  /\ save.call = "sent"
  /\ \/ ~IsPending /\ boot' = running /\ save' = [save EXCEPT !.call = "ok"]
     \/ boot' = boot /\ save' = [save EXCEPT !.call = "failed"]
  /\ UNCHANGED <<running, snap, guard, ui, timer, call, mine, trouble>>

-----------------------------------------------------------------------------
(* The answers at the tab                                                  *)

\* A call is over; polls sent before a change was registered are old then.
Over(s, registers) ==
  call' = [r \in Slots |-> IF r = s THEN Free
                           ELSE [call[r] EXCEPT !.old = @ \/ (registers /\ call[r].kind = "poll")]]

\* Mutant: the timer is not set.
RegisterPendingNoTimer(c) == ui' = Shows("pending", c) /\ UNCHANGED timer

\* registerPending: show the countdown and set the timer for its end.
RegisterPending(c) == ui' = Shows("pending", c) /\ timer' = c

\* Mutant: the dialog gives way to a poll.
IgnoresBusy(a) == a.pend # None /\ ui.busy # "no"

\* An answer clobbers neither the lockout dialog nor a click in flight.
Ignores(a) == ui.phase = "lockout" \/ (a.pend # None /\ ui.busy # "no")

\* Mutant: a failed revert is not reported.
ReportsReverted(outcome) == outcome = "reverted"

\* The outcomes a tab that did not end the countdown itself reports.
Reports(outcome) == outcome \in {"reverted", "revert_failed"}

\* syncPending, once its answer is there.
SyncPending(s) ==
  LET a == call[s].ans
      counting == ui.phase = "pending"
      registers == ~Ignores(a) /\ a.pend # None
      resolved == ~Ignores(a) /\ a.pend = None /\ (counting \/ (ui.phase = "idle" /\ a.recent))
  IN /\ call[s].kind = "poll" /\ call[s].at = "answered"
     /\ Over(s, registers)
     /\ IF registers THEN RegisterPending(a.pend)
        ELSE /\ UNCHANGED timer
             /\ ui' = IF resolved /\ Reports(a.last.outcome) THEN Shows(a.last.outcome, a.last.c)
                      ELSE IF resolved /\ counting THEN Idle ELSE ui
     /\ Blame(IF call[s].old THEN {"stale"} ELSE {})
     /\ UNCHANGED <<server, save, mine>>

\* A poll that fails is dropped: no other one is scheduled.
PollFails(s) ==
  /\ call[s].kind = "poll" /\ call[s].at \in {"sent", "answered"}
  /\ Over(s, FALSE)
  /\ Blame({"lost"})
  /\ UNCHANGED <<server, ui, timer, save, mine>>

\* The rest of guardedCommitAndSave.  A lockout refusal opens the dialog.
ApplyAnswered(s) ==
  LET c == call[s].c
      a == call[s].ans
  IN /\ call[s].kind \in {"apply", "override"} /\ call[s].at = "answered"
     /\ CASE a = "ok" -> RegisterPending(c) /\ Over(s, TRUE)
          [] a = "lockout" -> /\ ui' = Shows("lockout", c) /\ UNCHANGED timer
                              /\ Put(s, [call[s] EXCEPT !.at = "asking"])
          [] a = "failed" -> Over(s, FALSE) /\ UNCHANGED <<ui, timer>>
     /\ Blame(IF a # "failed" /\ ui.phase \in {"pending", "lockout"} THEN {"crossed"} ELSE {})
     /\ UNCHANGED <<server, save, mine>>

\* Mutant: an error of a revert goes unnoticed.
AfterErrorBlind(kind, c) == IF kind = "revert" THEN Shows("reverted", c) ELSE Shows("pending", c)

\* An error puts the banner back as it was.
AfterError(kind, c) == Shows("pending", c)

\* The rest of confirmPending and revertPending.  After an error the server is
\* asked, in the slot of the call.
ClickAnswered(s) ==
  LET c == call[s].c
      a == call[s].ans
      kind == call[s].kind
  IN /\ kind \in {"confirm", "revert"} /\ call[s].at = "answered"
     /\ CASE a = "ok" -> Over(s, FALSE) /\ ui' = IF kind = "confirm" THEN Idle ELSE Shows("reverted", c)
          [] a = "unsaved" -> Over(s, FALSE) /\ ui' = Shows("revert_failed", c)
          [] a = "failed" -> Put(s, Sent("poll", None)) /\ ui' = AfterError(kind, c)
     /\ Blame(IF ui # [Shows("pending", c) EXCEPT !.busy = kind] THEN {"crossed"} ELSE {})
     /\ UNCHANGED <<server, timer, save, mine>>

\* The server never saw the call, or its answer is lost: the tab sees an error.
Lost(s) ==
  /\ call[s].kind \notin {"free", "poll"}
  /\ call[s].at \in {"sent", "answered"} /\ call[s].ans # "failed"
  /\ Answer(s, "failed")
  /\ Becomes(call[s].c, IF fate[call[s].c] = "asked" THEN "failed" ELSE fate[call[s].c])
  /\ Blame({"lost"})
  /\ UNCHANGED <<device, pend, work, reverting, last, ui, timer, save, mine>>

\* Mutant: a request while a save runs is dropped.
ScheduleBootSaveOnce ==
  save' = IF save.call # "none" THEN save ELSE [status |-> "saving", call |-> "sent", again |-> FALSE]

\* scheduleBootSave: one save runs, later requests coalesce into one more.
ScheduleBootSave ==
  save' = IF save.call # "none" THEN [save EXCEPT !.again = TRUE]
          ELSE [status |-> "saving", call |-> "sent", again |-> FALSE]

\* The rest of commitAndSave.
CommitAnswered(s) ==
  /\ call[s].kind = "commit" /\ call[s].at = "answered"
  /\ Over(s, FALSE)
  /\ IF call[s].ans = "ok" THEN ScheduleBootSave /\ mine' = mine \cup {call[s].c} ELSE UNCHANGED <<save, mine>>
  /\ UNCHANGED <<server, ui, timer, trouble>>

\* Mutant: the answer of the save is taken for the status.
SaveAnsweredRaw ==
  /\ save.call \in {"ok", "failed"}
  /\ save' = IF save.again THEN [save EXCEPT !.call = "sent", !.again = FALSE]
             ELSE [Saved EXCEPT !.status = save.call]
  /\ UNCHANGED <<server, ui, timer, call, mine, trouble>>

\* run(): once more if a commit landed mid-save, else the last answer counts.
SaveAnswered ==
  /\ save.call \in {"ok", "failed"}
  /\ save' = IF save.again THEN [save EXCEPT !.call = "sent", !.again = FALSE]
             ELSE [Saved EXCEPT !.status = IF save.call = "ok" THEN "idle" ELSE "error"]
  /\ UNCHANGED <<server, ui, timer, call, mine, trouble>>

\* The Retry button of the error pill.
RetryBootSave ==
  /\ save.status = "error"
  /\ ScheduleBootSave
  /\ UNCHANGED <<server, ui, timer, call, mine, trouble>>

-----------------------------------------------------------------------------
User ==
  \/ \E c \in Changes, kind \in {"apply", "commit"} : Submit(c, kind)
  \/ \E proceed \in BOOLEAN : Decide(proceed)
  \/ \E kind \in {"confirm", "revert"} : Click(kind)
  \/ DismissGuardNotice \/ Reload \/ RetryBootSave

Serve(s) == ServePoll(s) \/ ServeApply(s) \/ ServeClick(s) \/ ServeCommit(s)
Deliver(s) == SyncPending(s) \/ ApplyAnswered(s) \/ ClickAnswered(s) \/ CommitAnswered(s)

Next ==
  \/ User \/ ExpiryTimer \/ Others
  \/ \E s \in Slots : Serve(s) \/ Deliver(s) \/ PollFails(s) \/ Lost(s)
  \/ ServeSave \/ SaveAnswered
  \/ Expire \/ ConfirmSaves \/ RevertLoads

Spec == Init /\ [][Next]_vars

-----------------------------------------------------------------------------
\* What a notice says of a change is what became of it: "reverted" is never
\* shown of a change that is live, confirmed or failed to revert, in any order
\* of answers ("revert_failed" also tells of a confirmed change not saved).
NoticesTrue ==
  /\ ui.phase = "reverted" => fate[ui.c] = "reverted"
  /\ ui.phase = "revert_failed" => fate[ui.c] \in {"revert_failed", "confirmed"}

\* "its resolver must fire exactly once, and only from the user's decision"
\* (guard.ts): an apply that waits for the user has its dialog on the screen,
\* whatever polls and timers do meanwhile.
DialogAnswered ==
  \A s \in Slots : call[s].at = "asking" => ui = Shows("lockout", call[s].c) \/ "crossed" \in trouble

\* A countdown gives way to nothing at all only when its change was confirmed,
\* and to a notice only when the notice is about that change.
EndsTruly ==
  ui.phase = "pending" /\ ui' # ui /\ ~Reload
    => /\ ui'.phase = "idle" => fate[ui.c] = "confirmed"
       /\ ui'.phase \in {"reverted", "revert_failed"} => ui'.c = ui.c
ToldHow == [][trouble' \subseteq {"lost"} => EndsTruly]_vars

\* The same when the poll after the deadline is served while the revert runs.
ToldHowMidway == [][trouble' \subseteq {"midway"} => EndsTruly]_vars

\* A tab that registered the change now pending shows its countdown, with the
\* buttons that keep or undo it, until the change is resolved.  And a countdown
\* does not outlive its change: when the change was resolved by the server's
\* timer, by another session or by a call whose answer was lost, the tab has a
\* timer set or a call in flight whose answer makes it look again, unless a poll
\* failed.
CountdownShown ==
  /\ pend # None /\ timer = pend
       => (ui.phase = "pending" /\ ui.c = pend) \/ trouble \cap {"stale", "crossed"} # {}
  /\ ui.phase = "pending" /\ ui.c # pend /\ "lost" \notin trouble
       => timer # None \/ \E s \in Slots : call[s].kind \in {"poll", "confirm", "revert"}

\* A tab without a save running and without an error has every change it
\* committed in the boot configuration: a commit that lands while a save is in
\* flight is not forgotten.
BootSaveHonest == save.status = "idle" => mine \subseteq boot
=============================================================================
