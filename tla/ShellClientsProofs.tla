------------------------- MODULE ShellClientsProofs -------------------------
(***************************************************************************)
(* Proofs about ShellClients, for any set of changes and any number of     *)
(* calls in flight: the notices, the dialog, the countdown, how it ends    *)
(* and the boot save.                                                      *)
(***************************************************************************)
EXTENDS ShellClients, TLAPS

-----------------------------------------------------------------------------
(* Type correctness                                                        *)

MaybeChange == Changes \cup {None}
Outcomes == {NoOutcome} \cup [outcome : {"confirmed", "reverted", "revert_failed"}, c : Changes]
PollAnswers == [pend : MaybeChange, last : Outcomes, recent : BOOLEAN]
Calls == [kind : {"free", "poll", "apply", "override", "confirm", "revert", "commit"},
          c : MaybeChange,
          at : {"none", "sent", "working", "answered", "asking"},
          ans : {None, "ok", "lockout", "unsaved", "failed"} \cup PollAnswers,
          old : BOOLEAN]

Asks == {"apply", "override", "commit"}   \* calls that carry a change of their own
Clicks == {"confirm", "revert"}

\* What is answered to a call of each kind.
Shaped(x) ==
  /\ x.kind = "poll" => x.at \in {"sent", "answered"}
  /\ x.kind = "poll" /\ x.at = "answered" => x.ans \in PollAnswers
  /\ x.kind \in Asks => x.c \in Changes /\ x.at \in {"sent", "answered", "asking"}
  /\ x.kind \in Asks /\ x.at = "answered" => x.ans \in {"ok", "lockout", "failed"}
  /\ x.kind \in Clicks => x.c \in Changes /\ x.at \in {"sent", "working", "answered"}
  /\ x.kind \in Clicks /\ x.at = "answered" => x.ans \in {"ok", "unsaved", "failed"}
  /\ x.kind = "free" => x.at = "none"

CallInv ==
  /\ call \in [Slots -> Calls]
  /\ \A s \in Slots : Shaped(call[s])

UiInv == ui.phase # "idle" => ui.c \in Changes

TypeInv == TypeOK /\ CallInv /\ UiInv

\* A call another call's answer leaves alone: only a poll may become old.
Kept(r) ==
  /\ call'[r].kind = call[r].kind /\ call'[r].c = call[r].c
  /\ call'[r].at = call[r].at /\ call'[r].ans = call[r].ans
  /\ ~call'[r].old => ~call[r].old

\* What a new call is.
LEMMA SentFields ==
  /\ \A kind, c : /\ Sent(kind, c).kind = kind /\ Sent(kind, c).c = c /\ Sent(kind, c).at = "sent"
  /\ Free.kind = "free" /\ Free.at = "none"
BY DEF Free, Sent

\* What a new state of the guard banner is.
LEMMA ShowsFields ==
  /\ \A phase, c : Shows(phase, c).phase = phase /\ Shows(phase, c).c = c /\ Shows(phase, c).busy = "no"
  /\ Idle.phase = "idle" /\ Idle.c = None /\ Idle.busy = "no"
BY DEF Shows, Idle

\* New calls and free slots are calls of their kind.
LEMMA ConstantTypes ==
  /\ Free \in Calls /\ Shaped(Free)
  /\ \A kind \in {"apply", "override", "confirm", "revert", "commit"}, c \in Changes :
       Sent(kind, c) \in Calls /\ Shaped(Sent(kind, c))
  /\ Sent("poll", None) \in Calls /\ Shaped(Sent("poll", None))
<1>1. FALSE \in BOOLEAN
  OBVIOUS
<1>2. Free \in Calls
  BY <1>1 DEF Free, Calls, MaybeChange
<1>3. \A kind, c : /\ Sent(kind, c).kind = kind /\ Sent(kind, c).c = c
                   /\ Sent(kind, c).at = "sent"
  BY DEF Free, Sent
<1>4. \A kind \in {"poll", "apply", "override", "confirm", "revert", "commit"}, c \in MaybeChange :
        Sent(kind, c) \in Calls
  BY <1>2 DEF Sent, Calls
<1>5. \A kind \in {"apply", "override", "confirm", "revert", "commit"}, c \in Changes : Shaped(Sent(kind, c))
  BY <1>3 DEF Shaped, Asks, Clicks
<1>6. Shaped(Sent("poll", None))
  BY <1>3 DEF Shaped, Asks, Clicks
<1>7. Shaped(Free)
  BY DEF Free, Shaped, Asks, Clicks
<1> QED BY <1>2, <1>4, <1>5, <1>6, <1>7 DEF MaybeChange

\* Replacing one call leaves the others alone.
LEMMA PutCalls ==
  ASSUME CallInv, NEW s \in Slots, NEW x \in Calls, Shaped(x), Put(s, x)
  PROVE  /\ CallInv' /\ call'[s] = x
         /\ \A r \in Slots : r # s => call'[r] = call[r]
BY DEF CallInv, Put

\* A call nobody touches is kept.
LEMMA KeptSame ==
  ASSUME NEW r \in Slots, call'[r] = call[r]
  PROVE  Kept(r)
BY DEF Kept

\* The server answers a call with one of the answers of its kind.
LEMMA AnswerCalls ==
  ASSUME CallInv, NEW s \in Slots, NEW x, Answer(s, x),
         \/ call[s].kind = "poll" /\ x \in PollAnswers
         \/ call[s].kind \in Asks /\ x \in {"ok", "lockout", "failed"}
         \/ call[s].kind \in Clicks /\ x \in {"ok", "unsaved", "failed"}
  PROVE  /\ CallInv'
         /\ call'[s] = [call[s] EXCEPT !.at = "answered", !.ans = x]
         /\ call'[s].kind = call[s].kind /\ call'[s].c = call[s].c
         /\ call'[s].at = "answered" /\ call'[s].ans = x
         /\ \A r \in Slots : r # s => call'[r] = call[r]
<1> DEFINE y == [call[s] EXCEPT !.at = "answered", !.ans = x]
<1>1. y \in Calls /\ y.kind = call[s].kind /\ y.c = call[s].c /\ y.at = "answered" /\ y.ans = x
  BY DEF CallInv, Calls, Asks, Clicks
<1>2. Shaped(y)
  BY <1>1 DEF CallInv, Shaped, Asks, Clicks
<1> QED BY <1>1, <1>2, PutCalls DEF Answer

\* A call that is over frees its slot, and outdates the polls in flight where the tab says so.
LEMMA OverCalls ==
  ASSUME CallInv, NEW s \in Slots, NEW b \in BOOLEAN, Over(s, b)
  PROVE  /\ CallInv' /\ call'[s] = Free
         /\ \A r \in Slots : r # s => Kept(r) /\ (b /\ call[r].kind = "poll" => call'[r].old)
<1>1. call' \in [Slots -> Calls]
  <2>1. ASSUME NEW r \in Slots
        PROVE [call[r] EXCEPT !.old = @ \/ (b /\ call[r].kind = "poll")] \in Calls
    <3>1. (call[r].old \/ (b /\ call[r].kind = "poll")) \in BOOLEAN
      BY Zenon
    <3> QED BY <3>1 DEF CallInv, Calls
  <2> QED BY <2>1, ConstantTypes DEF Over
<1>2. call'[s] = Free
  BY DEF Over
<1>3. ASSUME NEW r \in Slots, r # s
      PROVE  Kept(r) /\ (b /\ call[r].kind = "poll" => call'[r].old)
  <2>1. call'[r] = [call[r] EXCEPT !.old = @ \/ (b /\ call[r].kind = "poll")]
    BY <1>3 DEF Over
  <2>2. /\ call'[r].kind = call[r].kind /\ call'[r].c = call[r].c
        /\ call'[r].at = call[r].at /\ call'[r].ans = call[r].ans
    BY <2>1 DEF CallInv, Calls
  <2>3. call'[r].old = (call[r].old \/ (b /\ call[r].kind = "poll"))
    BY <2>1 DEF CallInv, Calls
  <2> QED BY <2>2, <2>3 DEF Kept
<1>4. \A r \in Slots : Shaped(call'[r])
  BY <1>2, <1>3, ConstantTypes DEF CallInv, Shaped, Kept
<1> QED BY <1>1, <1>2, <1>3, <1>4 DEF CallInv

\* A call is sent from a free slot.
LEMMA SendCalls ==
  ASSUME CallInv, NEW kind, NEW c, Send(kind, c),
         \/ kind \in {"apply", "commit", "confirm", "revert"} /\ c \in Changes
         \/ kind = "poll" /\ c = None
  PROVE  /\ CallInv'
         /\ \E s \in Slots : /\ call[s] = Free /\ call'[s] = Sent(kind, c)
                             /\ \A r \in Slots : r # s => call'[r] = call[r]
<1>1. Sent(kind, c) \in Calls /\ Shaped(Sent(kind, c))
  BY ConstantTypes
<1>2. PICK s \in Slots : call[s] = Free /\ Put(s, Sent(kind, c))
  BY DEF Send
<1> QED BY <1>1, <1>2, PutCalls

\* A call of a click, or of a dialog, goes on.
LEMMA GoOnCalls ==
  ASSUME CallInv, NEW s \in Slots, NEW at, Put(s, [call[s] EXCEPT !.at = at]),
         \/ call[s].kind \in Clicks /\ at = "working"
         \/ call[s].kind \in Asks /\ at = "asking"
  PROVE  /\ CallInv'
         /\ call'[s].kind = call[s].kind /\ call'[s].c = call[s].c /\ call'[s].at = at
         /\ \A r \in Slots : r # s => call'[r] = call[r]
<1> DEFINE y == [call[s] EXCEPT !.at = at]
<1>1. y \in Calls /\ y.kind = call[s].kind /\ y.c = call[s].c /\ y.at = at
  BY DEF CallInv, Calls, Asks, Clicks
<1>2. Shaped(y)
  BY <1>1 DEF CallInv, Shaped, Asks, Clicks
<1> QED BY <1>1, <1>2, PutCalls

\* When a confirm or a revert is done, the call it works for is answered.
LEMMA DoneCalls ==
  ASSUME TypeInv, NEW outcome, NEW answer \in {"ok", "unsaved", "failed"}, Done(outcome, answer)
  PROVE  /\ CallInv'
         /\ \A s \in Slots : IF call[s].at = "working" /\ call[s].c = work
              THEN /\ call'[s].kind = call[s].kind /\ call'[s].c = call[s].c
                   /\ call'[s].at = "answered" /\ call'[s].ans = answer
              ELSE call'[s] = call[s]
<1>1. ASSUME NEW s \in Slots, call[s].at = "working" /\ call[s].c = work
      PROVE  /\ call'[s] \in Calls /\ Shaped(call'[s])
             /\ call'[s].kind = call[s].kind /\ call'[s].c = call[s].c
             /\ call'[s].at = "answered" /\ call'[s].ans = answer
  <2>1. call[s] \in Calls /\ Shaped(call[s])
    BY DEF TypeInv, CallInv
  <2>2. call'[s] = [call[s] EXCEPT !.at = "answered", !.ans = answer]
    BY <1>1 DEF Done
  <2>3. /\ call'[s] \in Calls
        /\ call'[s].kind = call[s].kind /\ call'[s].c = call[s].c
        /\ call'[s].at = "answered" /\ call'[s].ans = answer
    BY <2>1, <2>2 DEF Calls
  <2>4. call[s].kind \in Clicks
    BY <1>1, <2>1 DEF Shaped, Calls, Asks, Clicks
  <2> QED BY <2>1, <2>3, <2>4 DEF Shaped, Asks, Clicks
<1>2. ASSUME NEW s \in Slots, ~(call[s].at = "working" /\ call[s].c = work)
      PROVE  call'[s] = call[s] /\ call'[s] \in Calls /\ Shaped(call'[s])
  BY <1>2 DEF Done, TypeInv, CallInv
<1>3. call' \in [Slots -> Calls]
  <2>1. call' = [s \in Slots |-> call'[s]]
    BY DEF Done
  <2> QED BY <1>1, <1>2, <2>1
<1> QED BY <1>1, <1>2, <1>3 DEF CallInv

\* Every step leaves the calls well-formed.
LEMMA NextCalls == TypeInv /\ [Next]_vars => CallInv'
<1> SUFFICES ASSUME TypeInv, [Next]_vars PROVE CallInv'
  OBVIOUS
<1> USE DEF TypeInv
<1>1. ASSUME NEW c \in Changes, NEW kind \in {"apply", "commit"}, Submit(c, kind) PROVE CallInv'
  BY <1>1, SendCalls DEF Submit
<1>2. ASSUME NEW proceed \in BOOLEAN, Decide(proceed) PROVE CallInv'
  BY <1>2, PutCalls, ConstantTypes DEF Decide, UiInv
<1>3. ASSUME NEW kind \in {"confirm", "revert"}, Click(kind) PROVE CallInv'
  BY <1>3, SendCalls DEF Click, UiInv
<1>4. CASE Reload
  BY <1>4, ConstantTypes DEF Reload, Mounted, CallInv
<1>5. CASE ExpiryTimer
  BY <1>5, SendCalls DEF ExpiryTimer
<1>6. ASSUME NEW s \in Slots, ServePoll(s) PROVE CallInv'
  <2>1. PICK recent \in BOOLEAN : Answer(s, [pend |-> pend, last |-> last, recent |-> recent])
    BY <1>6 DEF ServePoll
  <2>2. [pend |-> pend, last |-> last, recent |-> recent] \in PollAnswers
    BY DEF TypeOK, PollAnswers, Outcomes, MaybeChange
  <2> QED BY <1>6, <2>1, <2>2, AnswerCalls DEF ServePoll
<1>7. ASSUME NEW s \in Slots, ServeApply(s) PROVE CallInv'
  BY <1>7, AnswerCalls DEF ServeApply, Asks
<1>8. ASSUME NEW s \in Slots, ServeClick(s) PROVE CallInv'
  BY <1>8, AnswerCalls, GoOnCalls DEF ServeClick, Clicks
<1>9. ASSUME NEW s \in Slots, ServeCommit(s) PROVE CallInv'
  BY <1>9, AnswerCalls DEF ServeCommit, Asks
<1>10. ASSUME NEW s \in Slots, SyncPending(s) PROVE CallInv'
  <2>1. (~Ignores(call[s].ans) /\ call[s].ans.pend # None) \in BOOLEAN
    OBVIOUS
  <2> QED BY <1>10, <2>1, OverCalls DEF SyncPending
<1>11. ASSUME NEW s \in Slots, PollFails(s) PROVE CallInv'
  BY <1>11, OverCalls DEF PollFails
<1>12. ASSUME NEW s \in Slots, ApplyAnswered(s) PROVE CallInv'
  <2>1. call[s].ans \in {"ok", "lockout", "failed"} /\ call[s].kind \in Asks
    BY <1>12 DEF ApplyAnswered, CallInv, Shaped, Asks
  <2>2. CASE call[s].ans = "lockout"
    BY <1>12, <2>1, <2>2, GoOnCalls DEF ApplyAnswered
  <2>3. CASE call[s].ans # "lockout"
    BY <1>12, <2>1, <2>3, OverCalls DEF ApplyAnswered
  <2> QED BY <2>2, <2>3
<1>13. ASSUME NEW s \in Slots, ClickAnswered(s) PROVE CallInv'
  <2>1. call[s].ans \in {"ok", "unsaved", "failed"}
    BY <1>13 DEF ClickAnswered, CallInv, Shaped, Clicks
  <2>2. CASE call[s].ans = "failed"
    BY <1>13, <2>2, PutCalls, ConstantTypes DEF ClickAnswered
  <2>3. CASE call[s].ans # "failed"
    BY <1>13, <2>1, <2>3, OverCalls DEF ClickAnswered
  <2> QED BY <2>2, <2>3
<1>14. ASSUME NEW s \in Slots, CommitAnswered(s) PROVE CallInv'
  BY <1>14, OverCalls DEF CommitAnswered
<1>15. ASSUME NEW s \in Slots, Lost(s) PROVE CallInv'
  <2>1. call[s].kind \in Asks \cup Clicks
    BY <1>15 DEF Lost, CallInv, Calls, Asks, Clicks
  <2> QED BY <1>15, <2>1, AnswerCalls DEF Lost
<1>16. CASE ConfirmSaves \/ RevertLoads
  BY <1>16, DoneCalls DEF ConfirmSaves, RevertLoads
<1>17. CASE \/ DismissGuardNotice \/ RetryBootSave \/ Others \/ ServeSave \/ SaveAnswered \/ Expire
            \/ UNCHANGED vars
  BY <1>17 DEF DismissGuardNotice, RetryBootSave, Others, ServeSave, SaveAnswered, Expire,
               vars, tab, CallInv
<1> QED BY <1>1, <1>2, <1>3, <1>4, <1>5, <1>6, <1>7, <1>8, <1>9, <1>10, <1>11, <1>12, <1>13, <1>14,
           <1>15, <1>16, <1>17 DEF Next, User, Serve, Deliver

ServerTypes ==
  /\ running \subseteq Changes /\ boot \subseteq Changes /\ snap \subseteq Changes
  /\ pend \in MaybeChange /\ work \in MaybeChange /\ last \in Outcomes
  /\ fate \in [Changes -> {"new", "asked", "live", "direct", "confirmed", "reverted", "revert_failed", "failed"}]

TabTypes ==
  /\ ui \in [phase : {"idle", "pending", "lockout", "reverted", "revert_failed"},
             c : MaybeChange, busy : {"no", "confirm", "revert"}]
  /\ timer \in MaybeChange
  /\ mine \subseteq Changes /\ trouble \subseteq Troubles
  /\ UiInv

SaveTypes == save \in [status : {"idle", "saving", "error"}, call : {"none", "sent", "ok", "failed"}, again : BOOLEAN]

\* The types, sorted by who changes them.
LEMMA TypeParts == TypeInv <=> ServerTypes /\ reverting \in BOOLEAN /\ CallInv /\ TabTypes /\ SaveTypes
<1>1. CallInv => \A s \in Slots : /\ call[s].kind \in {"free", "poll", "apply", "override", "confirm", "revert", "commit"}
                                  /\ call[s].at \in {"none", "sent", "working", "answered", "asking"}
  BY DEF CallInv, Calls
<1> QED BY <1>1, Zenon DEF TypeInv, TypeOK, ServerTypes, TabTypes, SaveTypes, Outcomes, MaybeChange

\* The steps that change the server's books keep their types.
LEMMA NextServer == TypeInv /\ [Next]_vars => ServerTypes'
<1> SUFFICES ASSUME TypeInv, [Next]_vars PROVE ServerTypes'
  OBVIOUS
<1>1. ServerTypes /\ CallInv
  BY TypeParts
<1> USE ClientAssumption DEF ServerTypes, Becomes, MaybeChange, device, Outcomes
<1>2. ASSUME NEW c \in Changes, NEW kind \in {"apply", "commit"}, Submit(c, kind) PROVE ServerTypes'
  BY <1>1, <1>2 DEF Submit
<1>3. ASSUME NEW c \in Changes, BeginPending(c) PROVE ServerTypes'
  BY <1>1, <1>3 DEF BeginPending
<1>4. ASSUME NEW s \in Slots, ServeApply(s) PROVE ServerTypes'
  <2>1. call[s].c \in Changes
    BY <1>1, <1>4 DEF ServeApply, CallInv, Shaped, Asks
  <2>2. CASE BeginPending(call[s].c)
    BY <1>3, <2>1, <2>2
  <2>3. CASE UNCHANGED server
    BY <1>1, <2>3 DEF server, guard
  <2>4. CASE Becomes(call[s].c, "failed") /\ UNCHANGED <<device, pend, work, reverting, last>>
    BY <1>1, <2>1, <2>4
  <2> QED BY <1>4, <2>2, <2>3, <2>4 DEF ServeApply
<1>5. ASSUME NEW kind \in Clicks, Take(kind) PROVE ServerTypes'
  BY <1>1, <1>5 DEF Take, Clicks
<1>6. ASSUME NEW s \in Slots, ServeClick(s) PROVE ServerTypes'
  BY <1>1, <1>5, <1>6 DEF ServeClick, Clicks, server, guard
<1>7. ASSUME NEW s \in Slots, ServeCommit(s) PROVE ServerTypes'
  <2>1. call[s].c \in Changes
    BY <1>1, <1>7 DEF ServeCommit, CallInv, Shaped, Asks
  <2> QED BY <1>1, <1>7, <2>1 DEF ServeCommit
<1>8. ASSUME NEW s \in Slots, Lost(s) PROVE ServerTypes'
  <2>1. call[s].c \in Changes
    BY <1>1, <1>8 DEF Lost, CallInv, Calls, Shaped, Asks, Clicks
  <2> QED BY <1>1, <1>8, <2>1 DEF Lost
<1>16. ASSUME NEW outcome \in {"confirmed", "reverted", "revert_failed"}, NEW answer, Done(outcome, answer),
              running' \subseteq Changes, boot' \subseteq Changes
       PROVE  ServerTypes'
  <2>1. /\ work \in Changes /\ work' = None /\ last' = [outcome |-> outcome, c |-> work]
        /\ snap' = snap /\ pend' = pend /\ fate' = [fate EXCEPT ![work] = outcome]
    BY <1>1, <1>16, Zenon DEF Done
  <2> QED BY <1>1, <1>16, <2>1
<1>9. CASE ConfirmSaves
  BY <1>1, <1>9, <1>16 DEF ConfirmSaves
<1>10. CASE RevertLoads
  BY <1>1, <1>10, <1>16 DEF RevertLoads
<1>11. CASE ServeSave
  BY <1>1, <1>11 DEF ServeSave, guard
<1>12. CASE Others \/ Expire
  BY <1>1, <1>3, <1>5, <1>12 DEF Others, Expire, Clicks
<1>13. CASE UNCHANGED server
  BY <1>1, <1>13 DEF server, guard
<1>14. CASE \/ \E proceed \in BOOLEAN : Decide(proceed)
            \/ \E kind \in {"confirm", "revert"} : Click(kind)
            \/ DismissGuardNotice \/ Reload \/ RetryBootSave \/ ExpiryTimer \/ SaveAnswered
            \/ UNCHANGED vars
  BY <1>13, <1>14 DEF Decide, Click, DismissGuardNotice, Reload, RetryBootSave, ExpiryTimer, SaveAnswered, vars
<1>15. ASSUME NEW s \in Slots, ServePoll(s) \/ Deliver(s) \/ PollFails(s) PROVE ServerTypes'
  BY <1>13, <1>15 DEF ServePoll, Deliver, SyncPending, ApplyAnswered, ClickAnswered, CommitAnswered, PollFails
<1> QED BY <1>2, <1>4, <1>6, <1>7, <1>8, <1>9, <1>10, <1>11, <1>12, <1>14, <1>15 DEF Next, User, Serve

\* Every step keeps the type of `reverting`.
LEMMA NextReverting == TypeInv /\ [Next]_vars => reverting' \in BOOLEAN
<1> SUFFICES ASSUME TypeInv, [Next]_vars PROVE reverting' \in BOOLEAN
  OBVIOUS
<1>1. reverting \in BOOLEAN
  BY TypeParts
<1>2. ASSUME NEW kind, Take(kind) PROVE reverting' \in BOOLEAN
  BY <1>2, Zenon DEF Take
<1>3. ASSUME NEW outcome, NEW answer, Done(outcome, answer) PROVE reverting' \in BOOLEAN
  BY <1>3, Zenon DEF Done
<1>4. CASE reverting' = reverting
  BY <1>1, <1>4
<1>5. \/ reverting' = reverting
      \/ \E kind : Take(kind)
      \/ \E outcome, answer : Done(outcome, answer)
  BY Zenon DEF Next, User, Serve, Deliver, Submit, Decide, Click, DismissGuardNotice, Reload, RetryBootSave,
        ExpiryTimer, Others, ServePoll, ServeApply, BeginPending, ServeClick, ServeCommit,
        SyncPending, ApplyAnswered, ClickAnswered, CommitAnswered, PollFails, Lost, ServeSave,
        SaveAnswered, Expire, ConfirmSaves, RevertLoads, vars, server, guard
<1> QED BY <1>2, <1>3, <1>4, <1>5

\* Every step keeps the types of the tab.
LEMMA NextTab == TypeInv /\ [Next]_vars => TabTypes'
<1> SUFFICES ASSUME TypeInv, [Next]_vars PROVE TabTypes'
  OBVIOUS
<1>1. TabTypes /\ ServerTypes /\ CallInv
  BY TypeParts
<1> USE ClientAssumption DEF TabTypes, UiInv, Shows, Idle, MaybeChange, Blame, Troubles, RegisterPending
<1>2. ASSUME NEW proceed \in BOOLEAN, Decide(proceed) PROVE TabTypes'
  BY <1>1, <1>2 DEF Decide
<1>3. ASSUME NEW kind \in {"confirm", "revert"}, Click(kind) PROVE TabTypes'
  BY <1>1, <1>3 DEF Click
<1>4. CASE DismissGuardNotice \/ Reload
  <2>1. ui' = Idle /\ timer' \in {timer, None} /\ mine' \in {mine, {}} /\ trouble' \in {trouble, {}}
    BY <1>4, Zenon DEF DismissGuardNotice, Reload
  <2> QED BY <1>1, <2>1
<1>5. CASE ExpiryTimer
  BY <1>1, <1>5 DEF ExpiryTimer
<1>6. ASSUME NEW s \in Slots, ServePoll(s) PROVE TabTypes'
  BY <1>1, <1>6 DEF ServePoll
<1>7. ASSUME NEW s \in Slots, SyncPending(s) PROVE TabTypes'
  <2> DEFINE a == call[s].ans
  <2>1. a \in PollAnswers
    BY <1>1, <1>7 DEF SyncPending, CallInv, Shaped
  <2>2. a.pend \in MaybeChange /\ a.last \in Outcomes
    BY <2>1 DEF PollAnswers
  <2>3. Reports(a.last.outcome) => a.last.c \in Changes /\ a.last.outcome \in {"reverted", "revert_failed"}
    BY <2>2 DEF Reports, Outcomes, NoOutcome
  <2>4. trouble' \subseteq Troubles /\ mine' = mine
    BY <1>1, <1>7 DEF SyncPending
  <2>5. \/ RegisterPending(a.pend) /\ a.pend # None
        \/ timer' = timer /\ ui' = Shows(a.last.outcome, a.last.c) /\ Reports(a.last.outcome)
        \/ timer' = timer /\ ui' \in {Idle, ui}
    BY <1>7, Zenon DEF SyncPending
  <2> QED BY <1>1, <2>2, <2>3, <2>4, <2>5
<1>8. ASSUME NEW s \in Slots, PollFails(s) PROVE TabTypes'
  BY <1>1, <1>8 DEF PollFails
<1>9. ASSUME NEW s \in Slots, ApplyAnswered(s) PROVE TabTypes'
  <2>1. call[s].ans \in {"ok", "lockout", "failed"} /\ call[s].c \in Changes
    BY <1>1, <1>9 DEF ApplyAnswered, CallInv, Shaped, Asks
  <2>2. \/ ui' = Shows("pending", call[s].c) /\ timer' = call[s].c
        \/ ui' = Shows("lockout", call[s].c) /\ timer' = timer
        \/ UNCHANGED <<ui, timer>>
    BY <1>9, <2>1, Zenon DEF ApplyAnswered
  <2>3. trouble' \subseteq Troubles /\ mine' = mine
    BY <1>1, <1>9 DEF ApplyAnswered
  <2> QED BY <1>1, <2>1, <2>2, <2>3
<1>10. ASSUME NEW s \in Slots, ClickAnswered(s) PROVE TabTypes'
  <2>1. call[s].ans \in {"ok", "unsaved", "failed"} /\ call[s].c \in Changes
    BY <1>1, <1>10 DEF ClickAnswered, CallInv, Shaped, Clicks
  <2>2. \/ ui' = Shows("pending", call[s].c) \/ ui' = Shows("reverted", call[s].c)
        \/ ui' = Shows("revert_failed", call[s].c) \/ ui' = Idle
    BY <1>10, <2>1, Zenon DEF ClickAnswered, AfterError
  <2>3. trouble' \subseteq Troubles /\ timer' = timer /\ mine' = mine
    BY <1>1, <1>10 DEF ClickAnswered
  <2> QED BY <1>1, <2>1, <2>2, <2>3
<1>11. ASSUME NEW s \in Slots, CommitAnswered(s) PROVE TabTypes'
  <2>1. call[s].c \in Changes
    BY <1>1, <1>11 DEF CommitAnswered, CallInv, Shaped, Asks
  <2> QED BY <1>1, <1>11, <2>1 DEF CommitAnswered
<1>12. ASSUME NEW s \in Slots, Lost(s) PROVE TabTypes'
  BY <1>1, <1>12 DEF Lost
<1>13. CASE UNCHANGED <<ui, timer, mine, trouble>>
  BY <1>1, <1>13
<1>14. ASSUME NEW c \in Changes, NEW kind \in {"apply", "commit"}, Submit(c, kind) PROVE TabTypes'
  BY <1>13, <1>14 DEF Submit
<1>15. ASSUME NEW s \in Slots, ServeApply(s) \/ ServeClick(s) \/ ServeCommit(s) PROVE TabTypes'
  BY <1>13, <1>15 DEF ServeApply, ServeClick, ServeCommit
<1>16. CASE \/ RetryBootSave \/ Others \/ ServeSave \/ SaveAnswered \/ Expire
            \/ ConfirmSaves \/ RevertLoads \/ UNCHANGED vars
  BY <1>13, <1>16 DEF RetryBootSave, Others, ServeSave, SaveAnswered, Expire, ConfirmSaves, RevertLoads, Done,
                      vars, tab
<1> QED BY <1>2, <1>3, <1>4, <1>5, <1>6, <1>7, <1>8, <1>9, <1>10, <1>11, <1>12, <1>14, <1>15, <1>16
        DEF Next, User, Serve, Deliver

\* Every step keeps the types of the boot save.
LEMMA NextSave == TypeInv /\ [Next]_vars => SaveTypes'
<1> SUFFICES ASSUME TypeInv, [Next]_vars PROVE SaveTypes'
  OBVIOUS
<1>1. SaveTypes
  BY TypeParts
<1>2. TRUE \in BOOLEAN /\ FALSE \in BOOLEAN
  OBVIOUS
<1> USE DEF SaveTypes
<1>3. CASE ScheduleBootSave
  <2>1. [save EXCEPT !.again = TRUE] \in [status : {"idle", "saving", "error"},
                                          call : {"none", "sent", "ok", "failed"}, again : BOOLEAN]
    BY <1>1, <1>2
  <2>2. [status |-> "saving", call |-> "sent", again |-> FALSE]
           \in [status : {"idle", "saving", "error"}, call : {"none", "sent", "ok", "failed"}, again : BOOLEAN]
    BY <1>2
  <2> QED BY <1>3, <2>1, <2>2 DEF ScheduleBootSave
<1>4. Saved \in [status : {"idle", "saving", "error"}, call : {"none", "sent", "ok", "failed"}, again : BOOLEAN]
  BY <1>2 DEF Saved
<1>5. CASE Reload
  BY <1>4, <1>5 DEF Reload
<1>6. CASE ServeSave
  BY <1>1, <1>6 DEF ServeSave
<1>7. CASE SaveAnswered
  <2>1. [save EXCEPT !.call = "sent", !.again = FALSE]
           \in [status : {"idle", "saving", "error"}, call : {"none", "sent", "ok", "failed"}, again : BOOLEAN]
    BY <1>1, <1>2
  <2>2. \A x \in {"idle", "error"} : [Saved EXCEPT !.status = x]
           \in [status : {"idle", "saving", "error"}, call : {"none", "sent", "ok", "failed"}, again : BOOLEAN]
    BY <1>4
  <2> QED BY <1>7, <2>1, <2>2 DEF SaveAnswered
<1>8. CASE save' = save
  BY <1>1, <1>8
<1>9. \/ ScheduleBootSave \/ Reload \/ ServeSave \/ SaveAnswered \/ save' = save
  BY Zenon DEF Next, User, Serve, Deliver, Submit, Decide, Click, DismissGuardNotice, RetryBootSave,
        ExpiryTimer, Others, ServePoll, ServeApply, ServeClick, ServeCommit,
        SyncPending, ApplyAnswered, ClickAnswered, CommitAnswered, PollFails, Lost,
        Expire, ConfirmSaves, RevertLoads, Done, vars, tab
<1> QED BY <1>3, <1>5, <1>6, <1>7, <1>8, <1>9

\* Every step keeps the types.
LEMMA NextTypes == TypeInv /\ [Next]_vars => TypeInv'
<1>1. TypeInv' <=> (ServerTypes /\ reverting \in BOOLEAN /\ CallInv /\ TabTypes /\ SaveTypes)'
  BY TypeParts, PTL
<1> QED BY <1>1, NextServer, NextReverting, NextCalls, NextTab, NextSave

\* The types hold at the start.
LEMMA InitTypes == Init => TypeInv
<1> SUFFICES ASSUME Init PROVE TypeInv
  OBVIOUS
<1>1. ServerTypes
  BY DEF Init, ServerTypes, MaybeChange, Outcomes
<1>2. reverting \in BOOLEAN
  BY Zenon DEF Init
<1>3. CallInv
  BY ConstantTypes DEF Init, Mounted, CallInv
<1>4. TabTypes
  BY DEF Init, TabTypes, UiInv, Idle, Shows, MaybeChange
<1>5. SaveTypes
  BY DEF Init, SaveTypes, Saved
<1> QED BY <1>1, <1>2, <1>3, <1>4, <1>5, TypeParts

\* The types of the stores, the server's books and the calls in flight, in any
\* order of answers, losses and page loads.
THEOREM TypeCorrect == Spec => []TypeOK
<1>1. TypeInv => TypeOK
  BY DEF TypeInv
<1> QED BY <1>1, InitTypes, NextTypes, PTL DEF Spec

-----------------------------------------------------------------------------
(* What became of the changes                                              *)

Guarded == {"live", "confirmed", "reverted", "revert_failed"}
Final == {"direct", "confirmed", "reverted", "revert_failed", "failed"}

\* The server's own books.
ServerInv ==
  /\ pend # None => fate[pend] = "live"
  /\ work # None => work # pend /\ fate[work] = IF reverting THEN "live" ELSE "confirmed"
  /\ reverting => work # None
  /\ last.c # None => fate[last.c] = last.outcome

\* A call that carries a change is the only one that does, and the change waits
\* for it until it is served.
AskFate(s) ==
  call[s].kind \in Asks =>
    /\ fate[call[s].c] # "new"
    /\ call[s].at \in {"sent", "asking"} => fate[call[s].c] = "asked"
    /\ call[s].at = "answered" /\ call[s].ans = "lockout" => fate[call[s].c] = "asked"
    /\ call[s].at = "answered" /\ call[s].ans = "ok" =>
         IF call[s].kind = "commit" THEN fate[call[s].c] = "direct" ELSE fate[call[s].c] \in Guarded

AskInv ==
  \A s \in Slots :
    /\ AskFate(s)
    /\ \A r \in Slots : call[s].kind \in Asks /\ call[r].kind \in Asks /\ call[r].c = call[s].c => r = s

\* What the answers of the server, and the tab, say of a change.
ClickFate(s) ==
  call[s].kind \in Clicks =>
    /\ fate[call[s].c] \in Guarded
    /\ call[s].at = "working" =>
         work # None /\ call[s].c = work /\ (reverting <=> call[s].kind = "revert")
    /\ call[s].at = "answered" /\ call[s].ans = "ok" =>
         fate[call[s].c] = IF call[s].kind = "confirm" THEN "confirmed" ELSE "reverted"
    /\ call[s].at = "answered" /\ call[s].ans = "unsaved" => fate[call[s].c] = "confirmed"

PollFate(s) ==
  call[s].kind = "poll" /\ call[s].at = "answered" =>
    /\ call[s].ans.pend # None => fate[call[s].ans.pend] \in Guarded
    /\ call[s].ans.last.c # None => fate[call[s].ans.last.c] = call[s].ans.last.outcome

AnswerInv == \A s \in Slots : ClickFate(s) /\ PollFate(s)

TabInv ==
  /\ ui.phase = "pending" => fate[ui.c] \in Guarded
  /\ timer # None => fate[timer] \in Guarded

FateInv == ServerInv /\ AskInv /\ AnswerInv /\ TabInv /\ NoticesTrue

\* What a step does to the server's books.
Books == <<pend, work, reverting, last>>
BookStep ==
  \/ UNCHANGED guard
  \/ \E c \in Changes : fate[c] = "new" /\ Becomes(c, "asked") /\ UNCHANGED Books
  \/ \E c \in Changes, x \in {"failed", "direct"} : fate[c] = "asked" /\ Becomes(c, x) /\ UNCHANGED Books
  \/ \E c \in Changes : fate[c] \in {"new", "asked"} /\ BeginPending(c)
  \/ \E kind \in Clicks : Take(kind)
  \/ \E outcome \in {"reverted", "revert_failed"} : \E answer : reverting /\ Done(outcome, answer)
  \/ \E answer : ~reverting /\ Done("confirmed", answer)

\* What a step does to the books of the server: who is pending, who is worked for, and fates.
LEMMA NextBooks == TypeInv /\ AskInv /\ [Next]_vars => BookStep
<1> SUFFICES ASSUME TypeInv, AskInv, [Next]_vars PROVE BookStep
  OBVIOUS
<1>1. CallInv /\ fate \in [Changes -> {"new", "asked", "live", "direct", "confirmed", "reverted", "revert_failed", "failed"}]
  BY TypeParts DEF ServerTypes
<1> USE DEF BookStep
<1>2. ASSUME NEW c \in Changes, NEW kind \in {"apply", "commit"}, Submit(c, kind) PROVE BookStep
  BY <1>2, Zenon DEF Submit, Books
<1>3. ASSUME NEW s \in Slots, call[s].kind \in Asks, call[s].at = "sent"
      PROVE  call[s].c \in Changes /\ fate[call[s].c] = "asked"
  BY <1>1, <1>3 DEF CallInv, Shaped, AskInv, AskFate
<1>4. ASSUME NEW s \in Slots, ServeApply(s) PROVE BookStep
  <2>1. call[s].c \in Changes /\ fate[call[s].c] = "asked"
    BY <1>3, <1>4 DEF ServeApply, Asks
  <2>2. CASE BeginPending(call[s].c)
    BY <2>1, <2>2
  <2>3. CASE UNCHANGED server
    BY <2>3 DEF server
  <2>4. CASE Becomes(call[s].c, "failed") /\ UNCHANGED <<device, pend, work, reverting, last>>
    BY <2>1, <2>4 DEF Books
  <2> QED BY <1>4, <2>2, <2>3, <2>4 DEF ServeApply
<1>5. ASSUME NEW s \in Slots, ServeClick(s) PROVE BookStep
  BY <1>5 DEF ServeClick, Clicks, server
<1>6. ASSUME NEW s \in Slots, ServeCommit(s) PROVE BookStep
  <2>1. call[s].c \in Changes /\ fate[call[s].c] = "asked"
    BY <1>3, <1>6 DEF ServeCommit, Asks
  <2>2. Becomes(call[s].c, "failed") \/ Becomes(call[s].c, "direct")
    BY <1>6 DEF ServeCommit
  <2>3. UNCHANGED Books
    BY <1>6 DEF ServeCommit, Books
  <2> QED BY <2>1, <2>2, <2>3
<1>7. ASSUME NEW s \in Slots, Lost(s) PROVE BookStep
  <2>1. call[s].c \in Changes
    BY <1>1, <1>7 DEF Lost, CallInv, Calls, Shaped, Asks, Clicks
  <2>2. UNCHANGED Books
    BY <1>7 DEF Lost, Books
  <2>3. CASE fate[call[s].c] = "asked"
    <3>1. Becomes(call[s].c, "failed")
      BY <1>7, <2>3 DEF Lost
    <3> QED BY <2>1, <2>2, <2>3, <3>1
  <2>4. CASE fate[call[s].c] # "asked"
    <3>1. fate' = fate
      BY <1>1, <1>7, <2>1, <2>4 DEF Lost, Becomes
    <3> QED BY <2>2, <3>1 DEF Books, guard
  <2> QED BY <2>3, <2>4
<1>8. CASE ConfirmSaves
  BY <1>8, Zenon DEF ConfirmSaves
<1>9. CASE RevertLoads
  BY <1>9, Zenon DEF RevertLoads
<1>10. CASE Others \/ Expire
  BY <1>10 DEF Others, Expire, Clicks
<1>11. CASE ServeSave
  BY <1>11 DEF ServeSave
<1>12. CASE \/ \E proceed \in BOOLEAN : Decide(proceed)
            \/ \E kind \in {"confirm", "revert"} : Click(kind)
            \/ DismissGuardNotice \/ Reload \/ RetryBootSave \/ ExpiryTimer \/ SaveAnswered
            \/ UNCHANGED vars
  BY <1>12 DEF Decide, Click, DismissGuardNotice, Reload, RetryBootSave, ExpiryTimer, SaveAnswered, vars, server
<1>13. ASSUME NEW s \in Slots, ServePoll(s) \/ Deliver(s) \/ PollFails(s) PROVE BookStep
  BY <1>13 DEF ServePoll, Deliver, SyncPending, ApplyAnswered, ClickAnswered, CommitAnswered, PollFails, server
<1> QED BY <1>2, <1>4, <1>5, <1>6, <1>7, <1>8, <1>9, <1>10, <1>11, <1>12, <1>13 DEF Next, User, Serve

\* A change that was resolved stays so, and one that was pending is not taken
\* for one that was never asked for.
Grows ==
  \A c \in Changes : /\ fate[c] \in Final => fate'[c] = fate[c]
                     /\ fate[c] \in Guarded => fate'[c] \in Guarded
                     /\ fate[c] # "new" => fate'[c] # "new"

\* Fates only move forward, and the server works for one change at a time.
LEMMA BooksKept == TypeInv /\ ServerInv /\ BookStep => Grows /\ ServerInv'
<1> SUFFICES ASSUME TypeInv, ServerInv, BookStep PROVE Grows /\ ServerInv'
  OBVIOUS
<1>1. ServerTypes /\ reverting \in BOOLEAN
  BY TypeParts
<1> USE <1>1, ClientAssumption DEF ServerTypes, MaybeChange, Outcomes, NoOutcome, ServerInv, Grows, Final, Guarded, Becomes
<1>2. CASE UNCHANGED guard
  BY <1>2 DEF guard
<1>3. ASSUME NEW c \in Changes, fate[c] = "new" /\ Becomes(c, "asked") /\ UNCHANGED Books PROVE Grows /\ ServerInv'
  BY <1>3 DEF Books
<1>4. ASSUME NEW c \in Changes, NEW x \in {"failed", "direct"}, fate[c] = "asked", Becomes(c, x), UNCHANGED Books
      PROVE  Grows /\ ServerInv'
  BY <1>4 DEF Books
<1>5. ASSUME NEW c \in Changes, fate[c] \in {"new", "asked"}, BeginPending(c) PROVE Grows /\ ServerInv'
  BY <1>5 DEF BeginPending
<1>6. ASSUME NEW kind \in Clicks, Take(kind) PROVE Grows /\ ServerInv'
  <2>1. /\ pend \in Changes /\ work' = pend /\ pend' = None /\ last' = last
        /\ fate' = [fate EXCEPT ![pend] = IF kind = "confirm" THEN "confirmed" ELSE "live"]
    BY <1>6 DEF Take
  <2>2. reverting' <=> kind = "revert"
    BY <1>6, Zenon DEF Take
  <2> QED BY <2>1, <2>2, <1>6 DEF Clicks
<1>7. ASSUME NEW outcome \in {"reverted", "revert_failed", "confirmed"}, NEW answer, Done(outcome, answer),
             reverting <=> outcome # "confirmed"
      PROVE  Grows /\ ServerInv'
  <2>1. /\ work \in Changes /\ work' = None /\ pend' = pend /\ last' = [outcome |-> outcome, c |-> work]
        /\ fate' = [fate EXCEPT ![work] = outcome]
    BY <1>7, Zenon DEF Done
  <2>2. ~reverting'
    BY <1>7, Zenon DEF Done
  <2> QED BY <2>1, <2>2, <1>7
<1> QED BY <1>2, <1>3, <1>4, <1>5, <1>6, <1>7 DEF BookStep

-----------------------------------------------------------------------------
(* What the step of a call does to the calls                               *)

Alone(s) == CallInv' /\ \A r \in Slots : r # s => Kept(r)
SameCall(s) == call'[s].kind = call[s].kind /\ call'[s].c = call[s].c
Answered(s, x) == Alone(s) /\ SameCall(s) /\ call'[s].at = "answered" /\ call'[s].ans = x

\* A submit puts one call into a free slot.
LEMMA SubmitEffect ==
  ASSUME TypeInv, NEW c \in Changes, NEW kind \in {"apply", "commit"}, Submit(c, kind)
  PROVE  \E s \in Slots : Alone(s) /\ call[s] = Free /\ call'[s] = Sent(kind, c)
BY SendCalls, KeptSame DEF Submit, TypeInv, Alone

\* A click sends one call about the change shown.
LEMMA ClickEffect ==
  ASSUME TypeInv, NEW kind \in {"confirm", "revert"}, Click(kind)
  PROVE  \E s \in Slots : Alone(s) /\ call[s] = Free /\ call'[s] = Sent(kind, ui.c)
BY SendCalls, KeptSame DEF Click, TypeInv, UiInv, Alone

\* The timer of the tab sends one poll.
LEMMA ExpiryEffect ==
  ASSUME TypeInv, ExpiryTimer
  PROVE  \E s \in Slots : Alone(s) /\ call[s] = Free /\ call'[s] = Sent("poll", None)
BY SendCalls, KeptSame DEF ExpiryTimer, TypeInv, Alone

\* The answer of the dialog repeats the call that asks, or ends it.
LEMMA DecideEffect ==
  ASSUME TypeInv, NEW proceed \in BOOLEAN, Decide(proceed)
  PROVE  \E s \in Slots : /\ Alone(s) /\ call[s].at = "asking" /\ call[s].c = ui.c
                          /\ call'[s] = IF proceed THEN Sent("override", ui.c) ELSE Free
<1>1. PICK s \in Slots : /\ call[s].at = "asking" /\ call[s].c = ui.c
                         /\ Put(s, IF proceed THEN Sent("override", ui.c) ELSE Free)
  BY DEF Decide
<1>2. ui.c \in Changes
  BY DEF Decide, TypeInv, UiInv
<1> QED BY <1>1, <1>2, PutCalls, ConstantTypes, KeptSame DEF TypeInv, Alone

\* A poll is answered with what the server knows at that moment.
LEMMA ServePollEffect ==
  ASSUME TypeInv, NEW s \in Slots, ServePoll(s)
  PROVE  \E recent \in BOOLEAN : Answered(s, [pend |-> pend, last |-> last, recent |-> recent])
<1>1. PICK recent \in BOOLEAN : Answer(s, [pend |-> pend, last |-> last, recent |-> recent])
  BY DEF ServePoll
<1>2. [pend |-> pend, last |-> last, recent |-> recent] \in PollAnswers
  BY DEF TypeInv, TypeOK, PollAnswers, Outcomes, MaybeChange
<1> DEFINE x == [pend |-> pend, last |-> last, recent |-> recent]
<1>3. x \in PollAnswers /\ Answer(s, x) /\ call[s].kind = "poll" /\ CallInv
  BY <1>1, <1>2 DEF ServePoll, TypeInv
<1> HIDE DEF x
<1>4. Answered(s, x)
  BY <1>3, AnswerCalls, KeptSame DEF Alone, SameCall, Answered
<1> QED BY <1>4 DEF x

\* An answer changes no other call.
LEMMA AnswerEffect ==
  ASSUME TypeInv, NEW s \in Slots, NEW x, Answer(s, x),
         \/ call[s].kind \in Asks /\ x \in {"ok", "lockout", "failed"}
         \/ call[s].kind \in Clicks /\ x \in {"ok", "unsaved", "failed"}
  PROVE  Answered(s, x)
BY AnswerCalls, KeptSame DEF TypeInv, Alone, SameCall, Answered

\* A call that goes on stays the call it is.
LEMMA GoOnEffect ==
  ASSUME TypeInv, NEW s \in Slots, NEW at, Put(s, [call[s] EXCEPT !.at = at]),
         \/ call[s].kind \in Clicks /\ at = "working"
         \/ call[s].kind \in Asks /\ at = "asking"
  PROVE  Alone(s) /\ SameCall(s) /\ call'[s].at = at
BY GoOnCalls, KeptSame DEF TypeInv, Alone, SameCall

\* A call that is over leaves the others as they are.
LEMMA OverEffect ==
  ASSUME TypeInv, NEW s \in Slots, NEW b \in BOOLEAN, Over(s, b)
  PROVE  /\ Alone(s) /\ call'[s] = Free
         /\ b => \A r \in Slots : call'[r].kind = "poll" => call'[r].old
<1>1. /\ CallInv' /\ call'[s] = Free
      /\ \A r \in Slots : r # s => Kept(r) /\ (b /\ call[r].kind = "poll" => call'[r].old)
  BY OverCalls DEF TypeInv
<1> QED BY <1>1 DEF Alone, Kept, Free

\* A poll is sent again from its own slot.
LEMMA RepollEffect ==
  ASSUME TypeInv, NEW s \in Slots, Put(s, Sent("poll", None))
  PROVE  Alone(s) /\ call'[s] = Sent("poll", None)
BY PutCalls, ConstantTypes, KeptSame DEF TypeInv, Alone

-----------------------------------------------------------------------------
(* The changes that wait for a call                                        *)

\* AskInv of the calls a step does not touch.
LEMMA AskRest ==
  ASSUME TypeInv, AskInv, Grows, NEW S \in SUBSET Slots,
         \A r \in Slots \ S : Kept(r),
         \A r \in Slots \ S : call[r].kind \in Asks /\ fate[call[r].c] = "asked" => fate'[call[r].c] = "asked",
         \A s \in S : call'[s].kind \in Asks => call[s].kind \in Asks /\ call'[s].c = call[s].c /\ AskFate(s)'
  PROVE  AskInv'
<1>1. ASSUME NEW r \in Slots, r \notin S PROVE AskFate(r)'
  <2>1. call[r].kind \in Asks => call[r].c \in Changes
    BY DEF TypeInv, CallInv, Shaped
  <2> QED BY <1>1, <2>1 DEF AskInv, AskFate, Grows, Kept, Guarded, Final
<1>2. ASSUME NEW s \in S PROVE AskFate(s)'
  BY <1>2 DEF AskFate
<1>3. \A s \in Slots : call'[s].kind \in Asks => call[s].kind \in Asks /\ call'[s].c = call[s].c
  BY DEF Kept
<1>4. ASSUME NEW s \in Slots, NEW r \in Slots, call'[s].kind \in Asks, call'[r].kind \in Asks, call'[r].c = call'[s].c
      PROVE  r = s
  BY <1>3, <1>4 DEF AskInv
<1> QED BY <1>1, <1>2, <1>4 DEF AskInv

\* The steps on behalf of no call that carries a change leave those alone.
LEMMA AskedStays ==
  ASSUME TypeInv, ServerInv,
         \/ fate' = fate
         \/ \E kind \in Clicks : Take(kind)
         \/ \E outcome, answer : Done(outcome, answer)
         \/ \E c \in Changes : fate[c] = "new" /\ BeginPending(c),
         NEW c \in Changes, fate[c] = "asked"
  PROVE  fate'[c] = "asked"
<1>1. ServerTypes /\ reverting \in BOOLEAN
  BY TypeParts
<1>2. CASE \E outcome, answer : Done(outcome, answer)
  <2>1. PICK outcome, answer : Done(outcome, answer)
    BY <1>2
  <2>2. work \in Changes /\ fate' = [fate EXCEPT ![work] = outcome] /\ fate[work] # "asked"
    BY <1>1, <2>1, Zenon DEF Done, Becomes, ServerTypes, MaybeChange, ServerInv
  <2> QED BY <1>1, <2>2 DEF ServerTypes
<1>3. CASE \E kind \in Clicks : Take(kind)
  BY <1>1, <1>3 DEF Take, Becomes, ServerTypes, MaybeChange, ServerInv
<1>4. CASE \E d \in Changes : fate[d] = "new" /\ BeginPending(d)
  BY <1>1, <1>4 DEF BeginPending, Becomes, ServerTypes
<1> QED BY <1>2, <1>3, <1>4

\* The answer of an apply or commit tells what became of its change.
LEMMA NextAsk ==
  ASSUME TypeInv, ServerInv, AskInv, AnswerInv, Grows, [Next]_vars
  PROVE  AskInv'
<1>1. CallInv /\ ServerTypes
  BY TypeParts
<1>2. \A s \in Slots : call[s].kind \in Asks => call[s].c \in Changes
  BY <1>1 DEF CallInv, Shaped
<1>3. ASSUME NEW S \in SUBSET Slots, \A r \in Slots \ S : Kept(r),
             \A s \in S : call'[s].kind \notin Asks,
             \/ fate' = fate
             \/ \E kind \in Clicks : Take(kind)
             \/ \E outcome, answer : Done(outcome, answer)
             \/ \E c \in Changes : fate[c] = "new" /\ BeginPending(c)
      PROVE  AskInv'
  <2>1. \A r \in Slots \ S : call[r].kind \in Asks /\ fate[call[r].c] = "asked" => fate'[call[r].c] = "asked"
    BY <1>2, <1>3, AskedStays
  <2> QED BY <1>3, <2>1, AskRest
<1>4. ASSUME NEW s \in Slots, Alone(s), call'[s].kind \notin Asks,
             fate' = fate \/ (\E kind \in Clicks : Take(kind))
      PROVE  AskInv'
  <2>1. {s} \in SUBSET Slots /\ \A r \in Slots \ {s} : Kept(r)
    BY <1>4 DEF Alone
  <2> QED BY <1>3, <1>4, <2>1
\* The step of a call that carries a change is about no other such call.
<1>5. ASSUME NEW s \in Slots, Alone(s), call[s].kind \in Asks, NEW x, Becomes(call[s].c, x) \/ fate' = fate,
             call'[s].kind \in Asks => call'[s].c = call[s].c /\ AskFate(s)'
      PROVE  AskInv'
  <2>1. {s} \in SUBSET Slots /\ \A r \in Slots \ {s} : Kept(r)
    BY <1>5 DEF Alone
  <2>2. ASSUME NEW r \in Slots \ {s}, call[r].kind \in Asks, fate[call[r].c] = "asked"
        PROVE  fate'[call[r].c] = "asked"
    <3>1. call[r].c # call[s].c
      BY <1>5, <2>2 DEF AskInv
    <3> QED BY <1>1, <1>2, <1>5, <2>2, <3>1 DEF Becomes, ServerTypes
  <2> QED BY <1>5, <2>1, <2>2, AskRest
<1>6. ASSUME NEW c \in Changes, NEW kind \in {"apply", "commit"}, Submit(c, kind) PROVE AskInv'
  <2>1. PICK s \in Slots : Alone(s) /\ call[s] = Free /\ call'[s] = Sent(kind, c)
    BY <1>6, SubmitEffect
  <2>2. /\ call'[s].kind = kind /\ call'[s].c = c /\ call'[s].at = "sent"
        /\ call[s].kind = "free"
    BY <2>1 DEF Sent, Free
  <2>3. fate[c] = "new" /\ fate' = [fate EXCEPT ![c] = "asked"]
    BY <1>6 DEF Submit, Becomes
  <2>4. ASSUME NEW r \in Slots, r # s
        PROVE /\ Kept(r) /\ (call[r].kind \in Asks => call[r].c # c) /\ AskFate(r)'
    <3>1. Kept(r)
      BY <2>1, <2>4 DEF Alone
    <3>2. call[r].kind \in Asks => call[r].c # c /\ fate'[call[r].c] = fate[call[r].c]
      BY <1>1, <1>2, <2>3 DEF AskInv, AskFate, ServerTypes
    <3> QED BY <3>1, <3>2 DEF AskInv, AskFate, Kept
  <2>5. AskFate(s)'
    BY <1>1, <2>2, <2>3 DEF AskFate, ServerTypes
  <2> QED BY <2>2, <2>4, <2>5 DEF AskInv, Kept
<1>7. ASSUME NEW proceed \in BOOLEAN, Decide(proceed) PROVE AskInv'
  <2>1. PICK s \in Slots : /\ Alone(s) /\ call[s].at = "asking" /\ call[s].c = ui.c
                           /\ call'[s] = IF proceed THEN Sent("override", ui.c) ELSE Free
    BY <1>7, DecideEffect
  <2>2. call[s].kind \in Asks
    BY <1>1, <2>1 DEF CallInv, Calls, Shaped, Asks, Clicks
  <2>3. fate' = fate
    BY <1>7 DEF Decide, server, guard
  <2>4. fate[call[s].c] = "asked"
    BY <2>1, <2>2 DEF AskInv, AskFate
  <2>5. CASE proceed
    <3>1. call'[s].kind = "override" /\ call'[s].c = call[s].c /\ call'[s].at = "sent"
      BY <2>1, <2>5 DEF Sent, Free
    <3>2. AskFate(s)'
      BY <2>3, <2>4, <3>1 DEF AskFate
    <3> QED BY <1>5, <2>1, <2>2, <2>3, <3>1, <3>2
  <2>6. CASE ~proceed
    BY <1>4, <2>1, <2>3, <2>6 DEF Free, Asks
  <2> QED BY <2>5, <2>6
<1>8. ASSUME NEW kind \in {"confirm", "revert"}, Click(kind) PROVE AskInv'
  <2>1. PICK s \in Slots : Alone(s) /\ call[s] = Free /\ call'[s] = Sent(kind, ui.c)
    BY <1>8, ClickEffect
  <2>2. call'[s].kind \notin Asks
    BY <2>1 DEF Sent, Free, Asks
  <2> QED BY <1>4, <1>8, <2>1, <2>2 DEF Click, server, guard
<1>9. CASE Reload
  BY <1>9 DEF Reload, Mounted, Sent, Free, AskInv, AskFate, Asks
<1>10. CASE ExpiryTimer
  <2>1. PICK s \in Slots : Alone(s) /\ call[s] = Free /\ call'[s] = Sent("poll", None)
    BY <1>10, ExpiryEffect
  <2>2. call'[s].kind \notin Asks
    BY <2>1 DEF Sent, Free, Asks
  <2> QED BY <1>4, <1>10, <2>1, <2>2 DEF ExpiryTimer, server, guard
<1>11. ASSUME NEW s \in Slots, ServePoll(s) PROVE AskInv'
  BY <1>4, <1>11, ServePollEffect DEF ServePoll, Answered, SameCall, Asks, server, guard
<1>12. ASSUME NEW s \in Slots, ServeApply(s) PROVE AskInv'
  <2>1. /\ call[s].kind \in {"apply", "override"} /\ call[s].kind \in Asks /\ call[s].kind # "commit"
        /\ fate[call[s].c] = "asked" /\ call[s].c \in Changes
    BY <1>2, <1>12 DEF ServeApply, Asks, AskInv, AskFate
  <2>2. CASE BeginPending(call[s].c) /\ Answer(s, "ok")
    <3>1. Answered(s, "ok")
      BY <2>1, <2>2, AnswerEffect
    <3>2. Becomes(call[s].c, "live")
      BY <2>2 DEF BeginPending
    <3>3. AskFate(s)'
      BY <1>1, <2>1, <3>1, <3>2 DEF AskFate, Answered, SameCall, Becomes, ServerTypes, Guarded
    <3> QED BY <1>5, <2>1, <3>1, <3>2, <3>3 DEF Answered, SameCall
  <2>3. CASE Answer(s, "lockout") /\ UNCHANGED server
    <3>1. Answered(s, "lockout")
      BY <2>1, <2>3, AnswerEffect
    <3>2. fate' = fate
      BY <2>3 DEF server, guard
    <3>3. AskFate(s)'
      BY <1>1, <2>1, <3>1, <3>2 DEF AskFate, Answered, SameCall
    <3> QED BY <1>5, <2>1, <3>1, <3>2, <3>3 DEF Answered, SameCall
  <2>4. CASE Becomes(call[s].c, "failed") /\ Answer(s, "failed")
    <3>1. Answered(s, "failed")
      BY <2>1, <2>4, AnswerEffect
    <3>3. AskFate(s)'
      BY <1>1, <2>1, <2>4, <3>1 DEF AskFate, Answered, SameCall, Becomes, ServerTypes
    <3> QED BY <1>5, <2>1, <2>4, <3>1, <3>3 DEF Answered, SameCall
  <2> QED BY <1>12, <2>2, <2>3, <2>4 DEF ServeApply
<1>13. ASSUME NEW s \in Slots, ServeClick(s) PROVE AskInv'
  <2>1. CASE Take(call[s].kind) /\ Put(s, [call[s] EXCEPT !.at = "working"])
    <3>1. Alone(s) /\ SameCall(s)
      BY <1>13, <2>1, GoOnEffect DEF ServeClick, Clicks
    <3> QED BY <1>4, <1>13, <2>1, <3>1 DEF ServeClick, SameCall, Asks, Clicks
  <2>2. CASE Answer(s, "failed") /\ UNCHANGED server
    <3>1. Answered(s, "failed")
      BY <1>13, <2>2, AnswerEffect DEF ServeClick, Clicks
    <3> QED BY <1>4, <1>13, <2>2, <3>1 DEF ServeClick, Answered, SameCall, Asks, Clicks, server, guard
  <2> QED BY <1>13, <2>1, <2>2 DEF ServeClick
<1>14. ASSUME NEW s \in Slots, ServeCommit(s) PROVE AskInv'
  <2>1. call[s].kind = "commit" /\ call[s].kind \in Asks /\ call[s].c \in Changes
    BY <1>2, <1>14 DEF ServeCommit, Asks
  <2>2. CASE Becomes(call[s].c, "direct") /\ Answer(s, "ok")
    <3>1. Answered(s, "ok")
      BY <2>1, <2>2, AnswerEffect
    <3>2. AskFate(s)'
      BY <1>1, <2>1, <2>2, <3>1 DEF AskFate, Answered, SameCall, Becomes, ServerTypes
    <3> QED BY <1>5, <2>1, <2>2, <3>1, <3>2 DEF Answered, SameCall
  <2>3. CASE Becomes(call[s].c, "failed") /\ Answer(s, "failed")
    <3>1. Answered(s, "failed")
      BY <2>1, <2>3, AnswerEffect
    <3>2. AskFate(s)'
      BY <1>1, <2>1, <2>3, <3>1 DEF AskFate, Answered, SameCall, Becomes, ServerTypes
    <3> QED BY <1>5, <2>1, <2>3, <3>1, <3>2 DEF Answered, SameCall
  <2> QED BY <1>14, <2>2, <2>3 DEF ServeCommit
<1>15. ASSUME NEW s \in Slots, NEW b \in BOOLEAN, Over(s, b), UNCHANGED server PROVE AskInv'
  BY <1>4, <1>15, OverEffect DEF Free, Asks, server, guard
<1>16. ASSUME NEW s \in Slots, SyncPending(s) PROVE AskInv'
  <2>1. (~Ignores(call[s].ans) /\ call[s].ans.pend # None) \in BOOLEAN
    OBVIOUS
  <2> QED BY <1>15, <1>16, <2>1 DEF SyncPending
<1>17. ASSUME NEW s \in Slots, PollFails(s) \/ CommitAnswered(s) PROVE AskInv'
  BY <1>15, <1>17 DEF PollFails, CommitAnswered
<1>18. ASSUME NEW s \in Slots, ApplyAnswered(s) PROVE AskInv'
  <2>1. call[s].ans \in {"ok", "lockout", "failed"} /\ call[s].kind \in Asks /\ call[s].at = "answered"
    BY <1>1, <1>18 DEF ApplyAnswered, CallInv, Shaped, Asks
  <2>2. CASE call[s].ans = "lockout"
    <3>1. Alone(s) /\ SameCall(s) /\ call'[s].at = "asking"
      BY <1>18, <2>1, <2>2, GoOnEffect DEF ApplyAnswered
    <3>2. fate' = fate
      BY <1>18 DEF ApplyAnswered, server, guard
    <3>3. AskFate(s)'
      BY <2>1, <2>2, <3>1, <3>2 DEF AskInv, AskFate, SameCall
    <3> QED BY <1>5, <2>1, <3>1, <3>2, <3>3 DEF SameCall
  <2>3. CASE call[s].ans # "lockout"
    BY <1>15, <1>18, <2>1, <2>3 DEF ApplyAnswered
  <2> QED BY <2>2, <2>3
<1>19. ASSUME NEW s \in Slots, ClickAnswered(s) PROVE AskInv'
  <2>1. call[s].ans \in {"ok", "unsaved", "failed"}
    BY <1>1, <1>19 DEF ClickAnswered, CallInv, Shaped, Clicks
  <2>2. CASE call[s].ans = "failed"
    <3>1. Alone(s) /\ call'[s] = Sent("poll", None)
      BY <1>19, <2>2, RepollEffect DEF ClickAnswered
    <3>2. call'[s].kind \notin Asks
      BY <3>1 DEF Sent, Free, Asks
    <3> QED BY <1>4, <1>19, <3>1, <3>2 DEF ClickAnswered, server, guard
  <2>3. CASE call[s].ans # "failed"
    BY <1>15, <1>19, <2>1, <2>3 DEF ClickAnswered
  <2> QED BY <2>2, <2>3
<1>20. ASSUME NEW s \in Slots, Lost(s) PROVE AskInv'
  <2>1. call[s].kind \in Asks \cup Clicks
    BY <1>1, <1>20 DEF Lost, CallInv, Calls, Asks, Clicks
  <2>2. Answered(s, "failed")
    BY <1>20, <2>1, AnswerEffect DEF Lost
  <2>3. CASE call[s].kind \in Asks
    <3>1. call[s].c \in Changes
      BY <1>2, <2>3
    <3>2. Becomes(call[s].c, IF fate[call[s].c] = "asked" THEN "failed" ELSE fate[call[s].c])
      BY <1>20 DEF Lost
    <3>3. AskFate(s)'
      BY <1>1, <2>2, <2>3, <3>1, <3>2 DEF AskInv, AskFate, Answered, SameCall, Becomes, ServerTypes
    <3> QED BY <1>5, <2>2, <2>3, <3>2, <3>3 DEF Answered, SameCall
  <2>4. CASE call[s].kind \in Clicks
    <3>1. call'[s].kind \notin Asks
      BY <2>2, <2>4 DEF Answered, SameCall, Asks, Clicks
    <3>2. call[s].c \in Changes
      BY <1>1, <2>4 DEF CallInv, Shaped
    <3>3. fate[call[s].c] # "asked"
      BY <2>4 DEF AnswerInv, ClickFate, Guarded
    <3>4. fate' = fate
      BY <1>1, <1>20, <3>2, <3>3 DEF Lost, Becomes, ServerTypes
    <3> QED BY <1>4, <2>2, <3>1, <3>4 DEF Answered
  <2> QED BY <2>1, <2>3, <2>4
<1>21. CASE ConfirmSaves \/ RevertLoads
  <2>1. PICK outcome \in {"confirmed", "reverted", "revert_failed"}, answer \in {"ok", "unsaved", "failed"} :
          Done(outcome, answer)
    BY <1>21 DEF ConfirmSaves, RevertLoads
  <2> DEFINE S == {s \in Slots : call[s].at = "working" /\ call[s].c = work}
  <2>2. /\ \A r \in Slots \ S : Kept(r)
        /\ \A s \in S : call'[s].kind = call[s].kind
    BY <2>1, DoneCalls, KeptSame
  <2>3. \A s \in S : call'[s].kind \notin Asks
    BY <1>1, <2>2 DEF CallInv, Shaped, Asks
  <2>4. \E o, a : Done(o, a)
    BY <2>1
  <2> QED BY <1>3, <2>2, <2>3, <2>4
<1>22. CASE Others
  <2>1. {} \in SUBSET Slots /\ (\A r \in Slots \ {} : Kept(r)) /\ \A s \in {} : call'[s].kind \notin Asks
    BY <1>22, KeptSame DEF Others, tab
  <2>2. \/ \E c \in Changes : fate[c] = "new" /\ BeginPending(c)
        \/ \E kind \in Clicks : Take(kind)
    BY <1>22 DEF Others, Clicks
  <2> QED BY <1>3, <2>1, <2>2
<1>23. CASE Expire
  <2>1. {} \in SUBSET Slots /\ (\A r \in Slots \ {} : Kept(r)) /\ \A s \in {} : call'[s].kind \notin Asks
    BY <1>23, KeptSame DEF Expire, tab
  <2>2. \E kind \in Clicks : Take(kind)
    BY <1>23 DEF Expire, Clicks
  <2> QED BY <1>3, <2>1, <2>2
<1>24. CASE DismissGuardNotice \/ RetryBootSave \/ ServeSave \/ SaveAnswered \/ UNCHANGED vars
  <2>1. call' = call /\ fate' = fate
    BY <1>24 DEF DismissGuardNotice, RetryBootSave, ServeSave, SaveAnswered, vars, server, guard, tab
  <2> QED BY <2>1 DEF AskInv, AskFate
<1> QED BY <1>6, <1>7, <1>8, <1>9, <1>10, <1>11, <1>12, <1>13, <1>14, <1>16, <1>17, <1>18, <1>19, <1>20, <1>21,
           <1>22, <1>23, <1>24 DEF Next, User, Serve, Deliver

-----------------------------------------------------------------------------
(* What the answers say                                                    *)

\* AnswerInv of the calls a step does not touch.
LEMMA AnswerRest ==
  ASSUME TypeInv, AnswerInv, Grows, NEW S \in SUBSET Slots,
         \A r \in Slots \ S : Kept(r),
         \A r \in Slots \ S : call[r].kind \in Clicks /\ call[r].at = "working"
                                => work' = work /\ (reverting' <=> reverting),
         \A s \in S : ClickFate(s)' /\ PollFate(s)'
  PROVE  AnswerInv'
<1>1. CallInv
  BY DEF TypeInv
<1>2. ASSUME NEW r \in Slots, r \notin S PROVE ClickFate(r)'
  <2>1. call[r].kind \in Clicks => call[r].c \in Changes
    BY <1>1 DEF CallInv, Shaped
  <2> QED BY <1>2, <2>1 DEF AnswerInv, ClickFate, Grows, Kept, Guarded, Final
<1>3. ASSUME NEW r \in Slots, r \notin S PROVE PollFate(r)'
  <2>1. SUFFICES ASSUME call'[r].kind = "poll", call'[r].at = "answered"
                 PROVE  /\ call'[r].ans.pend # None => fate'[call'[r].ans.pend] \in Guarded
                        /\ call'[r].ans.last.c # None => fate'[call'[r].ans.last.c] = call'[r].ans.last.outcome
    BY DEF PollFate
  <2> DEFINE a == call[r].ans
  <2>2. call'[r].ans = a /\ call[r].kind = "poll" /\ call[r].at = "answered"
    BY <1>3, <2>1 DEF Kept
  <2>3. a \in PollAnswers
    BY <1>1, <2>2 DEF CallInv, Shaped
  <2>4. /\ a.pend \in MaybeChange
        /\ a.last.c # None => a.last.c \in Changes /\ a.last.outcome \in Final
    BY <2>3 DEF PollAnswers, Outcomes, NoOutcome, MaybeChange, Final
  <2>5. /\ a.pend # None => fate[a.pend] \in Guarded
        /\ a.last.c # None => fate[a.last.c] = a.last.outcome
    BY <2>2 DEF AnswerInv, PollFate
  <2> QED BY <2>2, <2>4, <2>5 DEF Grows, MaybeChange
<1> QED BY <1>2, <1>3 DEF AnswerInv

\* The answers of clicks and polls tell what became of a change.
LEMMA NextAnswer ==
  ASSUME TypeInv, ServerInv, AnswerInv, TabInv, Grows, [Next]_vars
  PROVE  AnswerInv'
<1>1. CallInv /\ ServerTypes
  BY TypeParts
<1>2. ASSUME NEW S \in SUBSET Slots, \A r \in Slots \ S : Kept(r),
             work = None \/ (work' = work /\ reverting' = reverting),
             \A s \in S : ClickFate(s)' /\ PollFate(s)'
      PROVE  AnswerInv'
  <2>1. \A r \in Slots \ S : call[r].kind \in Clicks /\ call[r].at = "working"
                               => work' = work /\ (reverting' <=> reverting)
    BY <1>2, Zenon DEF AnswerInv, ClickFate
  <2> QED BY <1>2, <2>1, AnswerRest
<1>3. ASSUME NEW s \in Slots, Alone(s), work = None \/ (work' = work /\ reverting' = reverting),
             ClickFate(s)', PollFate(s)'
      PROVE  AnswerInv'
  <2>1. {s} \in SUBSET Slots /\ \A r \in Slots \ {s} : Kept(r)
    BY <1>3 DEF Alone
  <2> QED BY <1>2, <1>3, <2>1
<1>4. ASSUME NEW s \in Slots, call'[s].kind \notin Clicks, call'[s].kind # "poll" \/ call'[s].at # "answered"
      PROVE  ClickFate(s)' /\ PollFate(s)'
  BY <1>4 DEF ClickFate, PollFate
<1>5. ASSUME UNCHANGED server PROVE work' = work /\ reverting' = reverting /\ fate' = fate
  BY <1>5 DEF server, guard
<1>6. ASSUME NEW s \in Slots, Alone(s), call'[s].kind \notin Clicks, call'[s].kind # "poll" \/ call'[s].at # "answered",
             work' = work /\ reverting' = reverting
      PROVE  AnswerInv'
  BY <1>3, <1>4, <1>6
<1>7. ASSUME NEW c \in Changes, NEW kind \in {"apply", "commit"}, Submit(c, kind) PROVE AnswerInv'
  <2>1. PICK s \in Slots : Alone(s) /\ call[s] = Free /\ call'[s] = Sent(kind, c)
    BY <1>7, SubmitEffect
  <2>2. call'[s].kind \notin Clicks /\ call'[s].at # "answered"
    BY <2>1 DEF Sent, Free, Clicks
  <2> QED BY <1>6, <1>7, <2>1, <2>2 DEF Submit
<1>8. ASSUME NEW proceed \in BOOLEAN, Decide(proceed) PROVE AnswerInv'
  <2>1. PICK s \in Slots : /\ Alone(s)
                           /\ call'[s] = IF proceed THEN Sent("override", ui.c) ELSE Free
    BY <1>8, DecideEffect
  <2>2. call'[s].kind \notin Clicks /\ call'[s].at # "answered"
    BY <2>1 DEF Sent, Free, Clicks
  <2> QED BY <1>5, <1>6, <1>8, <2>1, <2>2 DEF Decide
<1>9. ASSUME NEW kind \in {"confirm", "revert"}, Click(kind) PROVE AnswerInv'
  <2>1. PICK s \in Slots : Alone(s) /\ call[s] = Free /\ call'[s] = Sent(kind, ui.c)
    BY <1>9, ClickEffect
  <2>2. call'[s].kind \in Clicks /\ call'[s].at = "sent" /\ call'[s].c = ui.c
    BY <2>1 DEF Sent, Free, Clicks
  <2>3. fate' = fate /\ fate[ui.c] \in Guarded
    BY <1>5, <1>9 DEF Click, TabInv
  <2>4. ClickFate(s)' /\ PollFate(s)'
    BY <2>2, <2>3 DEF ClickFate, PollFate, Clicks
  <2> QED BY <1>3, <1>5, <1>9, <2>1, <2>4 DEF Click
<1>10. CASE Reload
  BY <1>10 DEF Reload, Mounted, Sent, Free, AnswerInv, ClickFate, PollFate, Clicks
<1>11. CASE ExpiryTimer
  <2>1. PICK s \in Slots : Alone(s) /\ call[s] = Free /\ call'[s] = Sent("poll", None)
    BY <1>11, ExpiryEffect
  <2>2. call'[s].kind \notin Clicks /\ call'[s].at # "answered"
    BY <2>1 DEF Sent, Free, Clicks
  <2> QED BY <1>5, <1>6, <1>11, <2>1, <2>2 DEF ExpiryTimer
<1>12. ASSUME NEW s \in Slots, ServePoll(s) PROVE AnswerInv'
  <2>1. PICK recent \in BOOLEAN : Answered(s, [pend |-> pend, last |-> last, recent |-> recent])
    BY <1>12, ServePollEffect
  <2>2. Alone(s) /\ call'[s].kind = "poll" /\ call'[s].ans.pend = pend /\ call'[s].ans.last = last
    BY <1>12, <2>1 DEF Answered, SameCall, ServePoll
  <2>3. UNCHANGED server
    BY <1>12 DEF ServePoll
  <2>4. ClickFate(s)' /\ PollFate(s)'
    BY <1>5, <2>2, <2>3 DEF ClickFate, PollFate, Clicks, ServerInv, Guarded
  <2> QED BY <1>3, <1>5, <2>2, <2>3, <2>4
<1>13. ASSUME NEW s \in Slots, ServeApply(s) PROVE AnswerInv'
  <2>1. call[s].kind \in Asks
    BY <1>13 DEF ServeApply, Asks
  <2>2. \E x : Answered(s, x)
    BY <1>13, <2>1, AnswerEffect DEF ServeApply
  <2>3. work' = work /\ reverting' = reverting
    BY <1>5, <1>13 DEF ServeApply, BeginPending
  <2> QED BY <1>6, <2>1, <2>2, <2>3 DEF Answered, SameCall, Asks, Clicks
<1>14. ASSUME NEW s \in Slots, call[s].kind \in Clicks, Answered(s, "failed"), work' = work /\ reverting' = reverting
       PROVE AnswerInv'
  <2>1. call[s].c \in Changes
    BY <1>1, <1>14 DEF CallInv, Shaped
  <2>2. ClickFate(s)' /\ PollFate(s)'
    BY <1>14, <2>1 DEF Answered, SameCall, ClickFate, PollFate, AnswerInv, Grows, Clicks
  <2> QED BY <1>3, <1>14, <2>2 DEF Answered
<1>15. ASSUME NEW s \in Slots, ServeClick(s) PROVE AnswerInv'
  <2>1. CASE pend = call[s].c /\ Take(call[s].kind) /\ Put(s, [call[s] EXCEPT !.at = "working"])
    <3>1. Alone(s) /\ SameCall(s) /\ call'[s].at = "working"
      BY <1>15, <2>1, GoOnEffect DEF ServeClick, Clicks
    <3>2. work = None /\ work' = pend /\ pend # None /\ fate' = [fate EXCEPT ![pend] = IF call[s].kind = "confirm" THEN "confirmed" ELSE "live"]
      BY <2>1 DEF Take, Becomes
    <3>3. reverting' <=> call[s].kind = "revert"
      BY <2>1, Zenon DEF Take
    <3>4. ClickFate(s)' /\ PollFate(s)'
      BY <1>1, <1>15, <2>1, <3>1, <3>2, <3>3 DEF ServeClick, ClickFate, PollFate, SameCall, Guarded, ServerTypes, MaybeChange
    <3> QED BY <1>3, <3>1, <3>2, <3>4
  <2>2. CASE Answer(s, "failed") /\ UNCHANGED server
    <3>1. Answered(s, "failed")
      BY <1>15, <2>2, AnswerEffect DEF ServeClick, Clicks
    <3> QED BY <1>5, <1>14, <1>15, <2>2, <3>1 DEF ServeClick, Clicks
  <2> QED BY <1>15, <2>1, <2>2 DEF ServeClick
<1>16. ASSUME NEW s \in Slots, ServeCommit(s) PROVE AnswerInv'
  <2>1. call[s].kind \in Asks
    BY <1>16 DEF ServeCommit, Asks
  <2>2. \E x : Answered(s, x)
    BY <1>16, <2>1, AnswerEffect DEF ServeCommit
  <2>3. work' = work /\ reverting' = reverting
    BY <1>16 DEF ServeCommit
  <2> QED BY <1>6, <2>1, <2>2, <2>3 DEF Answered, SameCall, Asks, Clicks
<1>17. ASSUME NEW s \in Slots, NEW b \in BOOLEAN, Over(s, b), UNCHANGED server PROVE AnswerInv'
  <2>1. Alone(s) /\ call'[s].kind = "free"
    BY <1>17, OverEffect DEF Free
  <2> QED BY <1>5, <1>6, <1>17, <2>1 DEF Clicks
<1>18. ASSUME NEW s \in Slots, SyncPending(s) PROVE AnswerInv'
  <2>1. (~Ignores(call[s].ans) /\ call[s].ans.pend # None) \in BOOLEAN
    OBVIOUS
  <2> QED BY <1>17, <1>18, <2>1 DEF SyncPending
<1>19. ASSUME NEW s \in Slots, PollFails(s) \/ CommitAnswered(s) PROVE AnswerInv'
  BY <1>17, <1>19 DEF PollFails, CommitAnswered
<1>20. ASSUME NEW s \in Slots, ApplyAnswered(s) PROVE AnswerInv'
  <2>1. call[s].ans \in {"ok", "lockout", "failed"} /\ call[s].kind \in Asks
    BY <1>1, <1>20 DEF ApplyAnswered, CallInv, Shaped, Asks
  <2>2. CASE call[s].ans = "lockout"
    <3>1. Alone(s) /\ SameCall(s)
      BY <1>20, <2>1, <2>2, GoOnEffect DEF ApplyAnswered
    <3> QED BY <1>5, <1>6, <1>20, <2>1, <3>1 DEF ApplyAnswered, SameCall, Asks, Clicks
  <2>3. CASE call[s].ans # "lockout"
    BY <1>17, <1>20, <2>1, <2>3 DEF ApplyAnswered
  <2> QED BY <2>2, <2>3
<1>21. ASSUME NEW s \in Slots, ClickAnswered(s) PROVE AnswerInv'
  <2>1. call[s].ans \in {"ok", "unsaved", "failed"}
    BY <1>1, <1>21 DEF ClickAnswered, CallInv, Shaped, Clicks
  <2>2. CASE call[s].ans = "failed"
    <3>1. Alone(s) /\ call'[s] = Sent("poll", None)
      BY <1>21, <2>2, RepollEffect DEF ClickAnswered
    <3>2. call'[s].kind \notin Clicks /\ call'[s].at # "answered"
      BY <3>1 DEF Sent, Free, Clicks
    <3> QED BY <1>5, <1>6, <1>21, <3>1, <3>2 DEF ClickAnswered
  <2>3. CASE call[s].ans # "failed"
    BY <1>17, <1>21, <2>1, <2>3 DEF ClickAnswered
  <2> QED BY <2>2, <2>3
<1>22. ASSUME NEW s \in Slots, Lost(s) PROVE AnswerInv'
  <2>1. call[s].kind \in Asks \cup Clicks
    BY <1>1, <1>22 DEF Lost, CallInv, Calls, Asks, Clicks
  <2>2. Answered(s, "failed") /\ work' = work /\ reverting' = reverting
    BY <1>22, <2>1, AnswerEffect DEF Lost
  <2>3. CASE call[s].kind \in Asks
    BY <1>6, <2>2, <2>3 DEF Answered, SameCall, Asks, Clicks
  <2> QED BY <1>14, <2>1, <2>2, <2>3
<1>23. ASSUME NEW outcome \in {"confirmed", "reverted", "revert_failed"}, NEW answer \in {"ok", "unsaved", "failed"},
              Done(outcome, answer), reverting \/ outcome = "confirmed", ~reverting \/ outcome # "confirmed",
              answer = "ok" => outcome # "revert_failed", answer = "unsaved" => outcome = "confirmed"
       PROVE  AnswerInv'
  <2> DEFINE S == {s \in Slots : call[s].at = "working" /\ call[s].c = work}
  <2>1. /\ \A r \in Slots \ S : Kept(r)
        /\ \A s \in S : call'[s].kind = call[s].kind /\ call'[s].c = work /\ call'[s].at = "answered" /\ call'[s].ans = answer
    BY <1>23, DoneCalls, KeptSame
  <2>2. work \in Changes /\ fate' = [fate EXCEPT ![work] = outcome]
    BY <1>1, <1>23, Zenon DEF Done, Becomes, ServerTypes, MaybeChange
  <2>3. fate'[work] = outcome
    BY <1>1, <2>2 DEF ServerTypes
  <2>4. ASSUME NEW s \in S PROVE ClickFate(s)' /\ PollFate(s)'
    <3>1. call[s].kind \in Clicks
      BY <1>1, <2>4 DEF CallInv, Calls, Shaped, Asks, Clicks
    <3>2. reverting <=> call[s].kind = "revert"
      BY <2>4, <3>1 DEF AnswerInv, ClickFate
    <3> QED BY <1>23, <2>1, <2>3, <3>1, <3>2 DEF ClickFate, PollFate, Clicks, Guarded
  <2>5. \A r \in Slots \ S : ~(call[r].kind \in Clicks /\ call[r].at = "working")
    BY DEF AnswerInv, ClickFate
  <2> HIDE DEF S
  <2>6. S \in SUBSET Slots
    BY DEF S
  <2> QED BY <2>1, <2>4, <2>5, <2>6, AnswerRest
<1>24. CASE ConfirmSaves
  BY <1>23, <1>24 DEF ConfirmSaves
<1>25. CASE RevertLoads
  BY <1>23, <1>25 DEF RevertLoads
<1>26. CASE Others \/ Expire
  <2>1. {} \in SUBSET Slots /\ (\A r \in Slots \ {} : Kept(r)) /\ \A s \in {} : ClickFate(s)' /\ PollFate(s)'
    BY <1>26, KeptSame DEF Others, Expire, tab
  <2>2. work = None \/ (work' = work /\ reverting' = reverting)
    BY <1>26 DEF Others, Expire, Take, BeginPending
  <2> QED BY <1>2, <2>1, <2>2
<1>27. CASE DismissGuardNotice \/ RetryBootSave \/ ServeSave \/ SaveAnswered \/ UNCHANGED vars
  <2>1. {} \in SUBSET Slots /\ (\A r \in Slots \ {} : Kept(r)) /\ \A s \in {} : ClickFate(s)' /\ PollFate(s)'
    BY <1>27, KeptSame DEF DismissGuardNotice, RetryBootSave, ServeSave, SaveAnswered, vars, tab
  <2>2. work' = work /\ reverting' = reverting
    BY <1>5, <1>27 DEF DismissGuardNotice, RetryBootSave, ServeSave, SaveAnswered, vars, guard
  <2> QED BY <1>2, <2>1, <2>2
<1> QED BY <1>7, <1>8, <1>9, <1>10, <1>11, <1>12, <1>13, <1>15, <1>16, <1>18, <1>19, <1>20, <1>21, <1>22, <1>24,
           <1>25, <1>26, <1>27 DEF Next, User, Serve, Deliver

-----------------------------------------------------------------------------
(* What the tab shows                                                      *)

\* What an answered poll makes of the banner and the timer.
LEMMA SyncEffect ==
  ASSUME TypeInv, NEW s \in Slots, SyncPending(s)
  PROVE  /\ call[s].ans.pend \in MaybeChange /\ call[s].ans.last \in Outcomes
         /\ \/ /\ RegisterPending(call[s].ans.pend) /\ call[s].ans.pend # None /\ ui.phase # "lockout"
               /\ \A r \in Slots : call'[r].kind = "poll" => call'[r].old
            \/ /\ timer' = timer /\ call[s].ans.pend = None /\ Reports(call[s].ans.last.outcome)
               /\ call[s].ans.last.c \in Changes
               /\ ui.phase \in {"idle", "pending"}
               /\ ui' = Shows(call[s].ans.last.outcome, call[s].ans.last.c)
            \/ /\ timer' = timer /\ call[s].ans.pend = None /\ ~Reports(call[s].ans.last.outcome)
               /\ ui.phase = "pending" /\ ui' = Idle
            \/ timer' = timer /\ ui' = ui /\ (ui.phase = "pending" => ui.busy # "no" /\ call[s].ans.pend # None)
<1> DEFINE a == call[s].ans
<1>1. a \in PollAnswers
  BY DEF SyncPending, TypeInv, CallInv, Shaped
<1>2. a.pend \in MaybeChange /\ a.last \in Outcomes
  BY <1>1 DEF PollAnswers
<1>3. Reports(a.last.outcome) => a.last.c \in Changes
  BY <1>2 DEF Reports, Outcomes, NoOutcome
<1>4. CASE ~Ignores(a) /\ a.pend # None
  <2>1. RegisterPending(a.pend) /\ Over(s, ~Ignores(a) /\ a.pend # None)
    BY <1>4, Zenon DEF SyncPending
  <2>2. \A r \in Slots : call'[r].kind = "poll" => call'[r].old
    BY <1>4, <2>1, OverEffect
  <2>3. ui.phase # "lockout"
    BY <1>4, Zenon DEF Ignores
  <2> QED BY <1>2, <1>4, <2>1, <2>2, <2>3
<1>5. CASE ~(~Ignores(a) /\ a.pend # None)
  BY <1>2, <1>3, <1>5 DEF SyncPending, Ignores
<1> QED BY <1>4, <1>5

\* The three things the tab does with the answer to an apply.
LEMMA ApplyEffect ==
  ASSUME TypeInv, NEW s \in Slots, ApplyAnswered(s)
  PROVE  /\ call[s].kind \in Asks /\ call[s].kind # "commit" /\ call[s].c \in Changes /\ call[s].at = "answered"
         /\ \/ call[s].ans = "ok" /\ RegisterPending(call[s].c) /\ Over(s, TRUE)
            \/ call[s].ans = "lockout" /\ ui' = Shows("lockout", call[s].c) /\ timer' = timer
               /\ Alone(s) /\ SameCall(s) /\ call'[s].at = "asking"
            \/ call[s].ans = "failed" /\ ui' = ui /\ timer' = timer /\ Over(s, FALSE)
<1>1. /\ call[s].ans \in {"ok", "lockout", "failed"} /\ call[s].kind \in Asks /\ call[s].at = "answered"
      /\ call[s].kind # "commit" /\ call[s].c \in Changes
  BY DEF ApplyAnswered, TypeInv, CallInv, Shaped, Asks
<1>2. CASE call[s].ans = "lockout"
  BY <1>1, <1>2, GoOnEffect DEF ApplyAnswered
<1>3. CASE call[s].ans # "lockout"
  BY <1>1, <1>3 DEF ApplyAnswered
<1> QED BY <1>1, <1>2, <1>3

\* The three things the tab does with the answer to a click.
LEMMA ClickedEffect ==
  ASSUME TypeInv, NEW s \in Slots, ClickAnswered(s)
  PROVE  /\ call[s].kind \in Clicks /\ call[s].c \in Changes /\ call[s].at = "answered" /\ timer' = timer
         /\ \/ call[s].ans = "ok" /\ call[s].kind = "confirm" /\ ui' = Idle /\ Over(s, FALSE)
            \/ call[s].ans = "ok" /\ call[s].kind = "revert" /\ ui' = Shows("reverted", call[s].c) /\ Over(s, FALSE)
            \/ call[s].ans = "unsaved" /\ ui' = Shows("revert_failed", call[s].c) /\ Over(s, FALSE)
            \/ call[s].ans = "failed" /\ ui' = Shows("pending", call[s].c)
               /\ Alone(s) /\ call'[s] = Sent("poll", None)
<1>1. /\ call[s].ans \in {"ok", "unsaved", "failed"} /\ call[s].kind \in Clicks /\ call[s].at = "answered"
      /\ call[s].c \in Changes /\ timer' = timer
  BY DEF ClickAnswered, TypeInv, CallInv, Shaped, Clicks
<1>2. CASE call[s].ans = "failed"
  BY <1>1, <1>2, RepollEffect DEF ClickAnswered, AfterError
<1>3. CASE call[s].ans # "failed"
  BY <1>1, <1>3, Zenon DEF ClickAnswered, Clicks
<1> QED BY <1>1, <1>2, <1>3

\* The same, field by field.
LEMMA ApplyShows ==
  ASSUME TypeInv, NEW s \in Slots, ApplyAnswered(s)
  PROVE  \/ /\ call[s].ans = "ok" /\ ui'.phase = "pending" /\ ui'.c = call[s].c /\ ui'.busy = "no" /\ timer' = call[s].c
            /\ \A r \in Slots : call'[r].kind = "poll" => call'[r].old
         \/ call[s].ans = "lockout" /\ ui'.phase = "lockout" /\ ui'.c = call[s].c /\ ui'.busy = "no" /\ timer' = timer
         \/ call[s].ans = "failed" /\ ui' = ui /\ timer' = timer
<1>1. CASE call[s].ans = "ok" /\ RegisterPending(call[s].c) /\ Over(s, TRUE)
  <2>1. \A r \in Slots : call'[r].kind = "poll" => call'[r].old
    BY <1>1, OverEffect
  <2>2. ui' = Shows("pending", call[s].c) /\ timer' = call[s].c
    BY <1>1 DEF RegisterPending
  <2>3. ui'.phase = "pending" /\ ui'.c = call[s].c /\ ui'.busy = "no"
    BY <2>2, ShowsFields
  <2> QED BY <1>1, <2>1, <2>2, <2>3
<1>2. CASE call[s].ans = "lockout" /\ ui' = Shows("lockout", call[s].c) /\ timer' = timer
  BY <1>2, ShowsFields
<1> QED BY <1>1, <1>2, ApplyEffect

\* What the banner shows after a click was answered.
LEMMA ClickedShows ==
  ASSUME TypeInv, NEW s \in Slots, ClickAnswered(s)
  PROVE  /\ ui'.busy = "no"
         /\ \/ call[s].ans = "ok" /\ call[s].kind = "confirm" /\ ui'.phase = "idle"
            \/ call[s].ans = "ok" /\ call[s].kind = "revert" /\ ui'.phase = "reverted" /\ ui'.c = call[s].c
            \/ call[s].ans = "unsaved" /\ ui'.phase = "revert_failed" /\ ui'.c = call[s].c
            \/ call[s].ans = "failed" /\ ui'.phase = "pending" /\ ui'.c = call[s].c /\ call'[s].kind = "poll"
<1>1. CASE ui' = Idle /\ call[s].ans = "ok" /\ call[s].kind = "confirm"
  BY <1>1, ShowsFields
<1>2. CASE ui' = Shows("reverted", call[s].c) /\ call[s].ans = "ok" /\ call[s].kind = "revert"
  BY <1>2, ShowsFields
<1>3. CASE ui' = Shows("revert_failed", call[s].c) /\ call[s].ans = "unsaved"
  BY <1>3, ShowsFields
<1>4. CASE ui' = Shows("pending", call[s].c) /\ call[s].ans = "failed" /\ call'[s] = Sent("poll", None)
  BY <1>4, ShowsFields, SentFields
<1> QED BY <1>1, <1>2, <1>3, <1>4, ClickedEffect

\* The banner shows a change as it is, and notices are true.
LEMMA NextShown ==
  ASSUME TypeInv, AskInv, AnswerInv, TabInv, NoticesTrue, Grows, [Next]_vars
  PROVE  TabInv' /\ NoticesTrue'
<1>1. CallInv /\ ServerTypes /\ TabTypes
  BY TypeParts
<1> USE ClientAssumption DEF TabInv, NoticesTrue, Shows, Idle, RegisterPending
<1>2. ASSUME UNCHANGED server PROVE fate' = fate
  BY <1>2 DEF server, guard
<1>3. CASE UNCHANGED <<ui, timer>>
  BY <1>1, <1>3 DEF Grows, Guarded, Final, TabTypes, UiInv, MaybeChange
<1>4. ASSUME NEW proceed \in BOOLEAN, Decide(proceed) PROVE TabInv' /\ NoticesTrue'
  BY <1>2, <1>4 DEF Decide
<1>5. ASSUME NEW kind \in {"confirm", "revert"}, Click(kind) PROVE TabInv' /\ NoticesTrue'
  <2>1. ui' = [ui EXCEPT !.busy = kind] /\ ui.phase = "pending" /\ timer' = timer /\ fate' = fate
    BY <1>2, <1>5 DEF Click
  <2>2. ui'.phase = "pending" /\ ui'.c = ui.c
    BY <1>1, <2>1 DEF TabTypes
  <2> QED BY <2>1, <2>2
<1>6. CASE DismissGuardNotice
  BY <1>2, <1>6 DEF DismissGuardNotice
<1>7. CASE Reload
  BY <1>2, <1>7 DEF Reload
<1>8. CASE ExpiryTimer
  BY <1>2, <1>8 DEF ExpiryTimer
<1>9. ASSUME NEW s \in Slots, SyncPending(s) PROVE TabInv' /\ NoticesTrue'
  <2>1. fate' = fate /\ PollFate(s) /\ call[s].kind = "poll" /\ call[s].at = "answered"
    BY <1>2, <1>9 DEF SyncPending, AnswerInv
  <2> QED BY <1>9, <2>1, SyncEffect DEF PollFate, Reports
<1>10. ASSUME NEW s \in Slots, ApplyAnswered(s) PROVE TabInv' /\ NoticesTrue'
  <2>1. fate' = fate /\ AskFate(s)
    BY <1>2, <1>10 DEF ApplyAnswered, AskInv
  <2>2. \/ ui' = Shows("pending", call[s].c) /\ timer' = call[s].c /\ fate[call[s].c] \in Guarded
        \/ ui' = Shows("lockout", call[s].c) /\ timer' = timer
        \/ ui' = ui /\ timer' = timer
    <3> HIDE DEF Shows, Idle
    <3> QED BY <1>10, <2>1, ApplyEffect DEF AskFate
  <2> QED BY <2>1, <2>2
<1>11. ASSUME NEW s \in Slots, ClickAnswered(s) PROVE TabInv' /\ NoticesTrue'
  <2>1. fate' = fate /\ ClickFate(s)
    BY <1>2, <1>11 DEF ClickAnswered, AnswerInv
  <2>2. /\ timer' = timer
        /\ \/ ui' = Idle
           \/ ui' = Shows("reverted", call[s].c) /\ fate[call[s].c] = "reverted"
           \/ ui' = Shows("revert_failed", call[s].c) /\ fate[call[s].c] = "confirmed"
           \/ ui' = Shows("pending", call[s].c) /\ fate[call[s].c] \in Guarded
    <3> HIDE DEF Shows, Idle
    <3> QED BY <1>11, <2>1, ClickedEffect DEF ClickFate
  <2> QED BY <2>1, <2>2
<1>12. \/ UNCHANGED <<ui, timer>>
       \/ \E proceed \in BOOLEAN : Decide(proceed)
       \/ \E kind \in {"confirm", "revert"} : Click(kind)
       \/ DismissGuardNotice \/ Reload \/ ExpiryTimer
       \/ \E s \in Slots : SyncPending(s) \/ ApplyAnswered(s) \/ ClickAnswered(s)
  BY Zenon DEF Next, User, Serve, Deliver, Submit, RetryBootSave,
        Others, ServePoll, ServeApply, ServeClick, ServeCommit,
        CommitAnswered, PollFails, Lost, ServeSave, SaveAnswered,
        Expire, ConfirmSaves, RevertLoads, Done, vars, tab
<1> QED BY <1>3, <1>4, <1>5, <1>6, <1>7, <1>8, <1>9, <1>10, <1>11, <1>12

\* The inductive invariant of the changes' fates.
LEMMA NextFate == TypeInv /\ FateInv /\ [Next]_vars => FateInv' /\ Grows
<1> SUFFICES ASSUME TypeInv, FateInv, [Next]_vars PROVE FateInv' /\ Grows
  OBVIOUS
<1>1. ServerInv /\ AskInv /\ AnswerInv /\ TabInv /\ NoticesTrue
  BY DEF FateInv
<1>2. Grows /\ ServerInv'
  BY <1>1, NextBooks, BooksKept
<1>3. AskInv'
  BY <1>1, <1>2, NextAsk
<1>4. AnswerInv'
  BY <1>1, <1>2, NextAnswer
<1>5. TabInv' /\ NoticesTrue'
  BY <1>1, <1>2, NextShown
<1> QED BY <1>2, <1>3, <1>4, <1>5 DEF FateInv

\* Nothing has happened at the start.
LEMMA InitFate == Init => FateInv
<1> SUFFICES ASSUME Init PROVE FateInv
  OBVIOUS
<1>1. ServerInv
  BY DEF Init, ServerInv, NoOutcome
<1>2. \A s \in Slots : call[s].kind \in {"free", "poll"} /\ call[s].at # "answered"
  BY DEF Init, Mounted, Sent, Free
<1>3. AskInv /\ AnswerInv
  BY <1>2 DEF AskInv, AskFate, AnswerInv, ClickFate, PollFate, Asks, Clicks
<1>4. TabInv /\ NoticesTrue
  BY DEF Init, Idle, Shows, TabInv, NoticesTrue
<1> QED BY <1>1, <1>3, <1>4 DEF FateInv

\* A notice tells the truth about its change, whatever the order of answers, the
\* losses, the page loads and the other sessions.
THEOREM NoticesHonest == Spec => []NoticesTrue
<1>1. FateInv => NoticesTrue
  BY DEF FateInv
<1> QED BY <1>1, InitTypes, NextTypes, InitFate, NextFate, PTL DEF Spec

-----------------------------------------------------------------------------
(* The boot save                                                           *)

\* What was committed directly is live, and in the snapshot a pending change
\* reverts to.
Direct == {c \in Changes : fate[c] = "direct"}
DirectInv == Direct \subseteq running /\ (IsPending => Direct \subseteq snap)

\* A save that was answered "ok", with no commit since, saved everything.
SaveInv ==
  /\ save.call = "none" <=> save.status # "saving"
  /\ save.call = "ok" /\ ~save.again => mine \subseteq boot
  /\ BootSaveHonest

BootInv == DirectInv /\ mine \subseteq Direct /\ SaveInv

\* No revert takes away what was committed directly.
LEMMA NextDirect ==
  ASSUME TypeInv, FateInv, DirectInv, [Next]_vars
  PROVE  DirectInv'
<1>1. ServerTypes /\ reverting \in BOOLEAN /\ CallInv /\ Grows
  BY TypeParts, NextFate
<1> USE DEF DirectInv, Direct, IsPending
<1>2. ASSUME fate' = fate \/ (\E c \in Changes : \E x : x # "direct" /\ Becomes(c, x)) PROVE Direct' \subseteq Direct
  BY <1>1, <1>2 DEF Becomes, ServerTypes
<1>3. ASSUME Direct' \subseteq Direct, UNCHANGED <<running, snap, pend, reverting>> PROVE DirectInv'
  BY <1>3, Zenon
<1>4. ASSUME UNCHANGED server PROVE DirectInv'
  BY <1>2, <1>3, <1>4 DEF server, device, guard
<1>5. ASSUME NEW c \in Changes, NEW kind \in {"apply", "commit"}, Submit(c, kind) PROVE DirectInv'
  BY <1>2, <1>3, <1>5 DEF Submit, device
<1>6. ASSUME NEW c \in Changes, BeginPending(c) PROVE DirectInv'
  <2>1. snap' = running /\ running' = running \cup {c}
    BY <1>6 DEF BeginPending
  <2>2. Direct' \subseteq Direct
    BY <1>2, <1>6 DEF BeginPending
  <2> HIDE DEF Direct
  <2> QED BY <2>1, <2>2
<1>7. ASSUME NEW kind \in Clicks, Take(kind) PROVE DirectInv'
  <2>1. snap' = snap /\ running' = running /\ pend # None
    BY <1>7 DEF Take, device
  <2>2. Direct' \subseteq Direct
    BY <1>1, <1>2, <1>7 DEF Take, ServerTypes, MaybeChange
  <2> HIDE DEF Direct
  <2> QED BY <2>1, <2>2
<1>8. ASSUME NEW s \in Slots, ServeApply(s) PROVE DirectInv'
  <2>1. call[s].c \in Changes
    BY <1>1, <1>8 DEF ServeApply, CallInv, Shaped, Asks
  <2>2. CASE Becomes(call[s].c, "failed") /\ UNCHANGED <<device, pend, work, reverting, last>>
    BY <1>2, <1>3, <2>1, <2>2 DEF device
  <2> QED BY <1>4, <1>6, <1>8, <2>1, <2>2 DEF ServeApply
<1>9. ASSUME NEW s \in Slots, ServeClick(s) PROVE DirectInv'
  BY <1>4, <1>7, <1>9 DEF ServeClick, Clicks
<1>10. ASSUME NEW s \in Slots, ServeCommit(s) PROVE DirectInv'
  <2>1. call[s].c \in Changes
    BY <1>1, <1>10 DEF ServeCommit, CallInv, Shaped, Asks
  <2>2. snap' = snap /\ pend' = pend /\ reverting' = reverting
    BY <1>10 DEF ServeCommit
  <2>3. CASE ~IsPending /\ running' = running \cup {call[s].c} /\ Becomes(call[s].c, "direct")
    <3>1. Direct' \subseteq Direct \cup {call[s].c}
      BY <1>1, <2>1, <2>3 DEF Becomes, ServerTypes
    <3>2. ~IsPending'
      BY <2>2, <2>3, Zenon
    <3> HIDE DEF Direct, IsPending
    <3> QED BY <2>3, <3>1, <3>2
  <2>4. CASE running' = running /\ Becomes(call[s].c, "failed")
    BY <1>2, <1>3, <2>1, <2>2, <2>4
  <2> QED BY <1>10, <2>3, <2>4 DEF ServeCommit
<1>11. ASSUME NEW s \in Slots, Lost(s) PROVE DirectInv'
  <2>1. call[s].c \in Changes
    BY <1>1, <1>11 DEF Lost, CallInv, Calls, Shaped, Asks, Clicks
  <2>2. Direct' \subseteq Direct
    BY <1>1, <1>11, <2>1 DEF Lost, Becomes, ServerTypes
  <2>3. UNCHANGED <<running, snap, pend, reverting>>
    BY <1>11 DEF Lost, device
  <2> QED BY <1>3, <2>2, <2>3
<1>12. ASSUME NEW outcome \in {"confirmed", "reverted", "revert_failed"}, NEW answer, Done(outcome, answer),
              running' = running \/ (reverting /\ running' = snap)
       PROVE  DirectInv'
  <2>1. snap' = snap /\ pend' = pend /\ work \in Changes /\ Becomes(work, outcome)
    BY <1>1, <1>12, Zenon DEF Done, ServerTypes, MaybeChange
  <2>2. Direct' \subseteq Direct
    BY <1>2, <1>12, <2>1
  <2>3. IsPending' => pend # None
    BY <1>12, Zenon DEF Done
  <2>4. pend # None \/ reverting => Direct \subseteq snap
    BY Zenon
  <2>5. Direct \subseteq running
    BY Zenon
  <2> HIDE DEF Direct, IsPending
  <2> QED BY <1>12, <2>1, <2>2, <2>3, <2>4, <2>5
<1>13. CASE ConfirmSaves
  BY <1>12, <1>13 DEF ConfirmSaves
<1>14. CASE RevertLoads
  BY <1>12, <1>14 DEF RevertLoads
<1>15. CASE Others \/ Expire
  BY <1>6, <1>7, <1>15 DEF Others, Expire, Clicks
<1>16. CASE ServeSave
  BY <1>2, <1>3, <1>16 DEF ServeSave, guard
<1>17. CASE \/ \E proceed \in BOOLEAN : Decide(proceed)
            \/ \E kind \in {"confirm", "revert"} : Click(kind)
            \/ DismissGuardNotice \/ Reload \/ RetryBootSave \/ ExpiryTimer \/ SaveAnswered
            \/ UNCHANGED vars
  BY <1>4, <1>17 DEF Decide, Click, DismissGuardNotice, Reload, RetryBootSave, ExpiryTimer, SaveAnswered, vars
<1>18. ASSUME NEW s \in Slots, ServePoll(s) \/ Deliver(s) \/ PollFails(s) PROVE DirectInv'
  BY <1>4, <1>18 DEF ServePoll, Deliver, SyncPending, ApplyAnswered, ClickAnswered, CommitAnswered, PollFails
<1> QED BY <1>5, <1>8, <1>9, <1>10, <1>11, <1>13, <1>14, <1>15, <1>16, <1>17, <1>18 DEF Next, User, Serve

\* The commits the tab counts as its own were committed directly.
LEMMA NextMine ==
  ASSUME TypeInv, FateInv, mine \subseteq Direct, [Next]_vars
  PROVE  mine' \subseteq Direct'
<1>1. ServerTypes /\ CallInv /\ Grows
  BY TypeParts, NextFate
<1>2. Direct \subseteq Direct'
  BY <1>1 DEF Direct, Grows, Final
<1>3. CASE mine' = mine \/ Reload
  BY <1>2, <1>3 DEF Reload
<1>4. ASSUME NEW s \in Slots, CommitAnswered(s), mine' # mine PROVE mine' \subseteq Direct'
  <2>1. call[s].ans = "ok" /\ mine' = mine \cup {call[s].c} /\ call[s].kind = "commit" /\ call[s].at = "answered"
    BY <1>4 DEF CommitAnswered
  <2>2. call[s].c \in Direct
    BY <1>1, <2>1 DEF FateInv, AskInv, AskFate, Asks, CallInv, Shaped, Direct
  <2> QED BY <1>2, <2>1, <2>2
<1>5. mine' = mine \/ Reload \/ \E s \in Slots : CommitAnswered(s)
  BY Zenon DEF Next, User, Serve, Deliver, Submit, Decide, Click, DismissGuardNotice, RetryBootSave,
        ExpiryTimer, Others, ServePoll, ServeApply, ServeClick, ServeCommit,
        SyncPending, ApplyAnswered, ClickAnswered, PollFails, Lost, ServeSave, SaveAnswered,
        Expire, ConfirmSaves, RevertLoads, Done, vars, tab
<1> QED BY <1>3, <1>4, <1>5

\* An idle save indicator has nothing left to save.
LEMMA NextBoot == TypeInv /\ FateInv /\ BootInv /\ [Next]_vars => BootInv'
<1> SUFFICES ASSUME TypeInv, FateInv, BootInv, [Next]_vars PROVE BootInv'
  OBVIOUS
<1>1. DirectInv' /\ mine' \subseteq Direct'
  BY NextDirect, NextMine DEF BootInv
<1> SUFFICES SaveInv'
  BY <1>1 DEF BootInv
<1>2. mine \subseteq running
  BY DEF BootInv, DirectInv
<1>3. SaveTypes
  BY TypeParts
<1> USE DEF BootInv, SaveInv, BootSaveHonest, SaveTypes
<1>4. CASE save' = save /\ mine' = mine /\ (boot' = boot \/ boot' = running)
  BY <1>2, <1>4
<1>5. CASE Reload
  <2>1. save'.call = "none" /\ save'.status = "idle" /\ mine' = {}
    BY <1>5 DEF Reload, Saved
  <2> QED BY <2>1
<1>6. ASSUME ScheduleBootSave, boot' = boot PROVE SaveInv'
  <2>1. CASE save.call # "none"
    <3>1. save' = [save EXCEPT !.again = TRUE]
      BY <1>6, <2>1 DEF ScheduleBootSave
    <3>2. save'.call = save.call /\ save'.status = save.status /\ save'.again = TRUE
      BY <1>3, <3>1
    <3>3. save'.status = "saving" /\ save'.call # "none" /\ save'.again
      BY <2>1, <3>2
    <3> QED BY <3>3
  <2>2. CASE save.call = "none"
    <3>1. save'.status = "saving" /\ save'.call = "sent"
      BY <1>6, <2>2 DEF ScheduleBootSave
    <3> QED BY <3>1
  <2> QED BY <2>1, <2>2
<1>7. ASSUME NEW s \in Slots, CommitAnswered(s) PROVE SaveInv'
  <2>1. boot' = boot /\ (ScheduleBootSave \/ (save' = save /\ mine' = mine))
    BY <1>7 DEF CommitAnswered, server, device
  <2> QED BY <1>4, <1>6, <2>1
<1>8. CASE RetryBootSave
  BY <1>6, <1>8 DEF RetryBootSave, server, device
<1>9. CASE ServeSave
  <2>1. mine' = mine /\ save.call = "sent" /\ save.status = "saving"
    BY <1>9 DEF ServeSave
  <2>2. CASE boot' = running /\ save' = [save EXCEPT !.call = "ok"]
    BY <1>2, <1>3, <2>1, <2>2
  <2>3. CASE boot' = boot /\ save' = [save EXCEPT !.call = "failed"]
    BY <1>3, <2>1, <2>3
  <2> QED BY <1>9, <2>2, <2>3 DEF ServeSave
<1>10. CASE SaveAnswered
  <2>1. mine' = mine /\ boot' = boot /\ save.call \in {"ok", "failed"} /\ save.status = "saving"
    BY <1>10 DEF SaveAnswered, server, device
  <2>2. CASE save.again
    <3>1. save' = [save EXCEPT !.call = "sent", !.again = FALSE]
      BY <1>10, <2>2 DEF SaveAnswered
    <3>2. save'.call = "sent" /\ save'.status = "saving"
      BY <1>3, <2>1, <3>1
    <3> QED BY <3>2
  <2>3. CASE ~save.again
    <3>1. save' = [Saved EXCEPT !.status = IF save.call = "ok" THEN "idle" ELSE "error"]
      BY <1>10, <2>3 DEF SaveAnswered
    <3>2. save'.call = "none" /\ save'.status = IF save.call = "ok" THEN "idle" ELSE "error"
      BY <3>1 DEF Saved
    <3> QED BY <2>1, <2>3, <3>2
  <2> QED BY <2>2, <2>3
<1>11. \/ save' = save /\ mine' = mine /\ (boot' = boot \/ boot' = running)
       \/ Reload \/ RetryBootSave \/ ServeSave \/ SaveAnswered
       \/ \E s \in Slots : CommitAnswered(s)
  BY Zenon DEF Next, User, Serve, Deliver, Submit, Decide, Click, DismissGuardNotice,
        ExpiryTimer, Others, ServePoll, ServeApply, BeginPending, ServeClick, Take, ServeCommit,
        SyncPending, ApplyAnswered, ClickAnswered, PollFails, Lost,
        Expire, ConfirmSaves, RevertLoads, Done, vars, server, device, tab
<1> QED BY <1>4, <1>5, <1>7, <1>8, <1>9, <1>10, <1>11

\* While the indicator shows neither a save nor an error, what the tab committed
\* is in the boot configuration: coalesced requests, a commit that lands while a
\* save runs, retries, reverts and confirmations included.
THEOREM BootSaveTold == Spec => []BootSaveHonest
<1>1. Init => BootInv
  BY DEF Init, BootInv, DirectInv, Direct, IsPending, SaveInv, BootSaveHonest, Saved
<1>2. BootInv => BootSaveHonest
  BY DEF BootInv, SaveInv
<1> QED BY <1>1, <1>2, InitTypes, NextTypes, InitFate, NextFate, NextBoot, PTL DEF Spec

-----------------------------------------------------------------------------
(* What a step does to any one call                                        *)

CallStep(r) ==
  \/ Kept(r)
  \/ call[r].kind = "free" /\ call'[r].at = "sent"
  \/ call[r].kind \in Asks /\ call'[r].at \in {"none", "sent"}
  \/ call[r].kind # "poll" /\ SameCall(r) /\ call'[r].at \in {"working", "answered"}
  \/ ServePoll(r) /\ \E recent \in BOOLEAN : Answered(r, [pend |-> pend, last |-> last, recent |-> recent])
  \/ ApplyAnswered(r) /\ call[r].ans = "lockout" /\ SameCall(r) /\ call'[r].at = "asking"
  \/ (Deliver(r) \/ PollFails(r)) /\ call'[r].at \in {"none", "sent"}

\* The ways a call can change, unless the page is loaded anew.
LEMMA CallMoves ==
  ASSUME TypeInv, [Next]_vars, ~Reload, NEW r \in Slots
  PROVE  CallStep(r)
<1>1. CallInv
  BY DEF TypeInv
<1> USE DEF CallStep
<1>2. ASSUME NEW s \in Slots, Alone(s), r # s PROVE CallStep(r)
  BY <1>2 DEF Alone
<1>3. ASSUME NEW c \in Changes, NEW kind \in {"apply", "commit"}, Submit(c, kind) PROVE CallStep(r)
  BY <1>2, <1>3, SubmitEffect, SentFields
<1>4. ASSUME NEW proceed \in BOOLEAN, Decide(proceed) PROVE CallStep(r)
  <2>1. PICK s \in Slots : /\ Alone(s) /\ call[s].at = "asking" /\ call[s].c = ui.c
                           /\ call'[s] = IF proceed THEN Sent("override", ui.c) ELSE Free
    BY <1>4, DecideEffect
  <2>2. call[s].kind \in Asks /\ call'[s].at \in {"none", "sent"}
    BY <1>1, <2>1 DEF CallInv, Calls, Shaped, Asks, Clicks, Sent, Free
  <2> QED BY <1>2, <2>1, <2>2
<1>5. ASSUME NEW kind \in {"confirm", "revert"}, Click(kind) PROVE CallStep(r)
  BY <1>2, <1>5, ClickEffect, SentFields
<1>6. CASE ExpiryTimer
  BY <1>2, <1>6, ExpiryEffect, SentFields
<1>7. ASSUME NEW s \in Slots, ServePoll(s) PROVE CallStep(r)
  BY <1>2, <1>7, ServePollEffect DEF Answered
<1>8. ASSUME NEW s \in Slots, NEW x, Answered(s, x), call[s].kind # "poll" PROVE CallStep(r)
  BY <1>2, <1>8 DEF Answered
<1>9. ASSUME NEW s \in Slots, ServeApply(s) PROVE CallStep(r)
  <2>1. \E x : Answered(s, x)
    BY <1>9, AnswerEffect DEF ServeApply, Asks
  <2> QED BY <1>8, <1>9, <2>1 DEF ServeApply
<1>10. ASSUME NEW s \in Slots, ServeCommit(s) PROVE CallStep(r)
  <2>1. \E x : Answered(s, x)
    BY <1>10, AnswerEffect DEF ServeCommit, Asks
  <2> QED BY <1>8, <1>10, <2>1 DEF ServeCommit
<1>11. ASSUME NEW s \in Slots, ServeClick(s) PROVE CallStep(r)
  <2>1. CASE Put(s, [call[s] EXCEPT !.at = "working"])
    BY <1>2, <1>11, <2>1, GoOnEffect DEF ServeClick, Clicks
  <2>2. CASE Answer(s, "failed")
    <3>1. Answered(s, "failed")
      BY <1>11, <2>2, AnswerEffect DEF ServeClick, Clicks
    <3> QED BY <1>8, <1>11, <3>1 DEF ServeClick
  <2> QED BY <1>11, <2>1, <2>2 DEF ServeClick
<1>12. ASSUME NEW s \in Slots, Lost(s) PROVE CallStep(r)
  <2>1. call[s].kind \in Asks \cup Clicks
    BY <1>1, <1>12 DEF Lost, CallInv, Calls, Asks, Clicks
  <2>2. Answered(s, "failed")
    BY <1>12, <2>1, AnswerEffect DEF Lost
  <2> QED BY <1>8, <1>12, <2>2 DEF Lost
<1>13. ASSUME NEW s \in Slots, NEW b \in BOOLEAN, Over(s, b), Deliver(s) \/ PollFails(s) PROVE CallStep(r)
  BY <1>2, <1>13, OverEffect DEF Free
<1>14. ASSUME NEW s \in Slots, SyncPending(s) PROVE CallStep(r)
  <2>1. (~Ignores(call[s].ans) /\ call[s].ans.pend # None) \in BOOLEAN
    OBVIOUS
  <2> QED BY <1>13, <1>14, <2>1 DEF SyncPending, Deliver
<1>15. ASSUME NEW s \in Slots, PollFails(s) \/ CommitAnswered(s) PROVE CallStep(r)
  BY <1>13, <1>15 DEF PollFails, CommitAnswered, Deliver
<1>16. ASSUME NEW s \in Slots, ApplyAnswered(s) PROVE CallStep(r)
  BY <1>2, <1>13, <1>16, ApplyEffect DEF Deliver
<1>17. ASSUME NEW s \in Slots, ClickAnswered(s) PROVE CallStep(r)
  BY <1>2, <1>13, <1>17, ClickedEffect DEF Deliver, Sent, Free
<1>18. CASE ConfirmSaves \/ RevertLoads
  <2>1. PICK outcome \in {"confirmed", "reverted", "revert_failed"}, answer \in {"ok", "unsaved", "failed"} :
          Done(outcome, answer)
    BY <1>18 DEF ConfirmSaves, RevertLoads
  <2>2. call[r].at = "working" => call[r].kind # "poll"
    BY <1>1 DEF CallInv, Shaped
  <2> QED BY <2>1, <2>2, DoneCalls, KeptSame DEF SameCall
<1>19. CASE \/ DismissGuardNotice \/ RetryBootSave \/ Others \/ ServeSave \/ SaveAnswered \/ Expire
            \/ UNCHANGED vars
  <2>1. call' = call
    BY <1>19 DEF DismissGuardNotice, RetryBootSave, Others, ServeSave, SaveAnswered, Expire, vars, tab
  <2> QED BY <2>1, KeptSame
<1> QED BY <1>3, <1>4, <1>5, <1>6, <1>7, <1>9, <1>10, <1>11, <1>12, <1>14, <1>15, <1>16, <1>17, <1>18, <1>19
        DEF Next, User, Serve, Deliver

\* Trouble is forgotten with the page only.
LEMMA TroubleGrows == [Next]_vars => Reload \/ trouble \subseteq trouble'
<1>1. [Next]_vars => Reload \/ trouble' = trouble \/ \E why : Blame(why)
  BY Zenon DEF Next, User, Serve, Deliver, Submit, Decide, Click, DismissGuardNotice, RetryBootSave,
        ExpiryTimer, Others, ServePoll, ServeApply, ServeClick, ServeCommit,
        SyncPending, ApplyAnswered, ClickAnswered, CommitAnswered, PollFails, Lost, ServeSave, SaveAnswered,
        Expire, ConfirmSaves, RevertLoads, Done, vars, tab
<1> QED BY <1>1 DEF Blame

\* The steps after which the banner or the timer may be another.
TabMoves ==
  \/ \E proceed \in BOOLEAN : Decide(proceed)
  \/ \E kind \in {"confirm", "revert"} : Click(kind)
  \/ DismissGuardNotice \/ Reload \/ ExpiryTimer
  \/ \E s \in Slots : SyncPending(s) \/ ApplyAnswered(s) \/ ClickAnswered(s)

\* The steps that change what the tab shows.
LEMMA TabSteps == [Next]_vars => UNCHANGED <<ui, timer>> \/ TabMoves
BY Zenon DEF TabMoves, Next, User, Serve, Deliver, Submit, RetryBootSave,
        Others, ServePoll, ServeApply, ServeClick, ServeCommit,
        CommitAnswered, PollFails, Lost, ServeSave, SaveAnswered,
        Expire, ConfirmSaves, RevertLoads, Done, vars, tab

-----------------------------------------------------------------------------
(* The dialog                                                              *)

\* The dialog of a call that asks stays up.
LEMMA NextDialog == TypeInv /\ AskInv /\ DialogAnswered /\ [Next]_vars => DialogAnswered'
<1> SUFFICES ASSUME TypeInv, AskInv, DialogAnswered, [Next]_vars,
                    NEW r \in Slots, call'[r].at = "asking", "crossed" \notin trouble'
             PROVE  ui' = Shows("lockout", call'[r].c)
  BY DEF DialogAnswered
<1>1. ~Reload
  BY SentFields DEF Reload, Mounted
<1>2. "crossed" \notin trouble
  BY <1>1, TroubleGrows
<1>3. CASE ApplyAnswered(r)
  BY <1>3, ApplyEffect, OverEffect, SentFields DEF SameCall
<1>4. CASE ~ApplyAnswered(r)
  <2>1. Kept(r)
    BY <1>1, <1>4, CallMoves DEF CallStep, Answered, ServePoll, Deliver
  <2>2. call[r].at = "asking" /\ call'[r].c = call[r].c
    BY <2>1 DEF Kept
  <2>3. ui = Shows("lockout", call[r].c)
    BY <1>2, <2>2 DEF DialogAnswered
  <2>4. ui.phase = "lockout" /\ ui.c = call[r].c
    BY <2>3 DEF Shows
  <2>5. call[r].kind \in Asks
    BY <2>2 DEF TypeInv, CallInv, Calls, Shaped, Asks, Clicks
  <2>6. ASSUME NEW proceed \in BOOLEAN, Decide(proceed) PROVE FALSE
    <3>1. PICK s \in Slots : /\ Alone(s) /\ call[s].at = "asking" /\ call[s].c = ui.c
                             /\ call'[s] = IF proceed THEN Sent("override", ui.c) ELSE Free
      BY <2>6, DecideEffect
    <3>2. call[s].kind \in Asks
      BY <3>1 DEF TypeInv, CallInv, Calls, Shaped, Asks, Clicks
    <3>3. s = r
      BY <2>4, <2>5, <3>1, <3>2 DEF AskInv
    <3> QED BY <3>1, <3>3, SentFields
  <2>7. ASSUME NEW s \in Slots, SyncPending(s) PROVE ui' = ui
    BY <2>4, <2>7, SyncEffect
  <2>8. ASSUME NEW s \in Slots, ApplyAnswered(s) PROVE ui' = ui
    <3>1. call[s].ans = "failed"
      BY <2>4, <2>8 DEF ApplyAnswered, Blame
    <3> QED BY <2>8, <3>1, ApplyEffect
  <2>9. ASSUME NEW s \in Slots, ClickAnswered(s) PROVE FALSE
    <3>1. ui # [Shows("pending", call[s].c) EXCEPT !.busy = call[s].kind]
      BY <2>4 DEF Shows
    <3> QED BY <2>9, <3>1 DEF ClickAnswered, Blame
  <2>10. ui' = ui
    BY <1>1, <2>4, <2>6, <2>7, <2>8, <2>9, TabSteps DEF TabMoves, Click, DismissGuardNotice, ExpiryTimer
  <2> QED BY <2>2, <2>3, <2>10
<1> QED BY <1>3, <1>4

\* An apply that waits for the user has its dialog on the screen.
THEOREM DialogUp == Spec => []DialogAnswered
<1>1. Init => DialogAnswered
  BY DEF Init, Mounted, Sent, Free, DialogAnswered
<1>2. FateInv => AskInv
  BY DEF FateInv
<1> QED BY <1>1, <1>2, InitTypes, NextTypes, InitFate, NextFate, NextDialog, PTL DEF Spec

-----------------------------------------------------------------------------
(* The countdown                                                           *)

\* The call of a click ends with its answer only.
LEMMA ClickStays ==
  ASSUME TypeInv, [Next]_vars, ~Reload, NEW s \in Slots, call[s].kind \in Clicks, ~ClickAnswered(s)
  PROVE  call'[s].kind \in Clicks
BY CallMoves DEF CallStep, Kept, SameCall, Answered, ServePoll, ApplyAnswered, Deliver, SyncPending, CommitAnswered,
       PollFails, Clicks, Asks

\* A poll ends with its answer or its failure only.
LEMMA PollStays ==
  ASSUME TypeInv, [Next]_vars, ~Reload, NEW s \in Slots, call[s].kind = "poll", ~SyncPending(s), ~PollFails(s)
  PROVE  call'[s].kind = "poll"
BY CallMoves DEF CallStep, Kept, SameCall, Answered, ServePoll, ApplyAnswered, Deliver, ClickAnswered, CommitAnswered,
       Asks

\* An answered poll was answered before, or is now.
LEMMA PollAnswered ==
  ASSUME TypeInv, [Next]_vars, ~Reload, NEW r \in Slots, call'[r].kind = "poll", call'[r].at = "answered"
  PROVE  \/ Kept(r)
         \/ ServePoll(r) /\ call'[r].ans.pend = pend /\ call'[r].ans.last = last
<1>1. CallStep(r)
  BY CallMoves
<1>2. CASE ServePoll(r) /\ \E recent \in BOOLEAN : Answered(r, [pend |-> pend, last |-> last, recent |-> recent])
  BY <1>2 DEF Answered
<1> QED BY <1>1, <1>2 DEF CallStep, SameCall

\* What the tab does changes nothing on the server.
LEMMA TabAlone == TabMoves => UNCHANGED server
BY DEF TabMoves, Decide, Click, DismissGuardNotice, Reload, ExpiryTimer, SyncPending, ApplyAnswered, ClickAnswered

\* Whoever sees a countdown will look again, unless a poll was lost; a button
\* that is busy has its call in flight.
LooksAgain == timer # None \/ \E s \in Slots : call[s].kind \in {"poll", "confirm", "revert"}

BusyInv == ui.busy # "no" => ui.phase = "pending" /\ \E s \in Slots : call[s].kind \in Clicks
WatchInv == ui.phase = "pending" /\ "lost" \notin trouble => LooksAgain

\* The answers that are on their way to a tab that registered the pending change
\* name that change, but for those that were sent before.
CountInv ==
  pend # None /\ timer = pend /\ trouble \cap {"stale", "crossed"} = {}
    => /\ ui.phase = "pending" /\ ui.c = pend
       /\ \A s \in Slots : call[s].kind = "poll" /\ call[s].at = "answered" /\ ~call[s].old
                             => call[s].ans.pend = pend

\* An answer that says nothing is pending tells how the countdown ended.
ToldInv ==
  ui.phase = "pending" /\ trouble \subseteq {"lost"}
    => \A s \in Slots : call[s].kind = "poll" /\ call[s].at = "answered" /\ ~call[s].old /\ call[s].ans.pend = None
                          => call[s].ans.last.c = ui.c

\* A busy button has its call in flight.
LEMMA NextBusy == TypeInv /\ BusyInv /\ [Next]_vars => BusyInv'
<1> SUFFICES ASSUME TypeInv, BusyInv, [Next]_vars, ui'.busy # "no"
             PROVE  ui'.phase = "pending" /\ \E s \in Slots : call'[s].kind \in Clicks
  BY DEF BusyInv
<1>1. ~Reload
  BY DEF Reload, Idle, Shows
<1>2. ASSUME NEW s \in Slots, ClickAnswered(s) PROVE FALSE
  BY <1>2, ClickedShows
<1>3. CASE ui' = ui
  <2>1. PICK s \in Slots : call[s].kind \in Clicks
    BY <1>3 DEF BusyInv
  <2>2. call'[s].kind \in Clicks
    BY <1>1, <1>2, <2>1, ClickStays
  <2> QED BY <1>3, <2>2 DEF BusyInv
<1>4. ASSUME NEW kind \in {"confirm", "revert"}, Click(kind)
      PROVE  ui'.phase = "pending" /\ \E s \in Slots : call'[s].kind \in Clicks
  <2>1. ui'.phase = "pending"
    BY <1>4, TypeParts DEF Click, TabTypes
  <2>2. \E s \in Slots : call'[s].kind \in Clicks
    BY <1>4, ClickEffect, SentFields DEF Clicks
  <2> QED BY <2>1, <2>2
<1>5. ASSUME NEW s \in Slots, SyncPending(s) PROVE ui' = ui
  BY <1>5, SyncEffect DEF RegisterPending, Shows, Idle
<1>6. ASSUME NEW s \in Slots, ApplyAnswered(s) PROVE ui' = ui
  BY <1>6, ApplyShows
<1>7. ASSUME NEW proceed \in BOOLEAN, Decide(proceed) PROVE FALSE
  BY <1>7 DEF Decide, Idle, Shows
<1>8. CASE DismissGuardNotice
  BY <1>8 DEF DismissGuardNotice, Idle, Shows
<1>9. CASE ExpiryTimer
  BY <1>3, <1>9 DEF ExpiryTimer
<1> QED BY <1>1, <1>2, <1>3, <1>4, <1>5, <1>6, <1>7, <1>8, <1>9, TabSteps DEF TabMoves

\* Some timer or call of a tab with a countdown will look again.
LEMMA NextWatch == TypeInv /\ BusyInv /\ WatchInv /\ [Next]_vars => WatchInv'
<1> SUFFICES ASSUME TypeInv, BusyInv, WatchInv, [Next]_vars, ui'.phase = "pending", "lost" \notin trouble',
                    timer' = None
             PROVE  \E s \in Slots : call'[s].kind \in {"poll", "confirm", "revert"}
  BY DEF WatchInv, LooksAgain
<1> DEFINE Goal == \E s \in Slots : call'[s].kind \in {"poll", "confirm", "revert"}
<1>1. ~Reload
  BY DEF Reload, Idle, Shows
<1>2. "lost" \notin trouble
  BY <1>1, TroubleGrows
<1>3. \A s \in Slots : ~PollFails(s)
  BY DEF PollFails, Blame
<1>4. ASSUME NEW s \in Slots, ClickAnswered(s) PROVE Goal
  BY <1>4, ClickedShows
<1>5. ASSUME NEW s \in Slots, call[s].kind \in Clicks PROVE Goal
  <2>1. CASE ClickAnswered(s)
    BY <1>4, <2>1
  <2>2. CASE ~ClickAnswered(s)
    BY <1>1, <1>5, <2>2, ClickStays DEF Clicks
  <2> QED BY <2>1, <2>2
<1>6. ASSUME NEW s \in Slots, SyncPending(s) PROVE Goal
  <2>1. ~RegisterPending(call[s].ans.pend) \/ call[s].ans.pend = None
    BY DEF RegisterPending
  <2>2. ui' = ui /\ ui.busy # "no"
    BY <1>6, <2>1, SyncEffect DEF Shows, Idle, Reports
  <2> QED BY <1>5, <2>2 DEF BusyInv
<1>7. ASSUME ExpiryTimer PROVE Goal
  BY <1>7, ExpiryEffect, SentFields
<1>8. ASSUME NEW kind \in {"confirm", "revert"}, Click(kind) PROVE Goal
  BY <1>8, ClickEffect, SentFields
<1>9. ASSUME ui.phase = "pending" /\ timer = None /\ \A s \in Slots : ~SyncPending(s) PROVE Goal
  <2>1. PICK s \in Slots : call[s].kind \in {"poll", "confirm", "revert"}
    BY <1>2, <1>9 DEF WatchInv, LooksAgain
  <2>2. CASE call[s].kind = "poll"
    BY <1>1, <1>3, <1>9, <2>2, PollStays
  <2> QED BY <1>5, <2>1, <2>2 DEF Clicks
<1>10. ASSUME NEW s \in Slots, ApplyAnswered(s) PROVE ui' = ui /\ timer' = timer
  <2>1. call[s].c # None
    BY <1>10, ApplyEffect, ClientAssumption
  <2> QED BY <1>10, <2>1, ApplyShows
<1>11. ASSUME NEW proceed \in BOOLEAN, Decide(proceed) PROVE FALSE
  BY <1>11 DEF Decide, Idle, Shows
<1>12. ~DismissGuardNotice
  BY DEF DismissGuardNotice, Idle, Shows
<1> HIDE DEF Goal
<1>13. \/ ui' = ui /\ timer' = timer
       \/ \E kind \in {"confirm", "revert"} : Click(kind)
       \/ ExpiryTimer
       \/ \E s \in Slots : SyncPending(s) \/ ClickAnswered(s)
  BY <1>1, <1>10, <1>11, <1>12, TabSteps DEF TabMoves
<1>14. Goal
  <2>1. CASE (ui' = ui /\ timer' = timer) /\ \A s \in Slots : ~SyncPending(s)
    BY <1>9, <2>1
  <2> QED BY <1>4, <1>6, <1>7, <1>8, <1>13, <2>1
<1> QED BY <1>14 DEF Goal

\* The countdown of a registered change stays while it is pending.
LEMMA NextCount == TypeInv /\ FateInv /\ CountInv /\ [Next]_vars => CountInv'
<1> SUFFICES ASSUME TypeInv, FateInv, CountInv, [Next]_vars,
                    pend' # None, timer' = pend', trouble' \cap {"stale", "crossed"} = {}
             PROVE  /\ ui'.phase = "pending" /\ ui'.c = pend'
                    /\ \A r \in Slots : call'[r].kind = "poll" /\ call'[r].at = "answered" /\ ~call'[r].old
                                          => call'[r].ans.pend = pend'
  BY DEF CountInv
<1> DEFINE Polls == \A r \in Slots : call'[r].kind = "poll" /\ call'[r].at = "answered" /\ ~call'[r].old
                                       => call'[r].ans.pend = pend'
<1>1. ~Reload
  BY DEF Reload
<1>2. trouble \cap {"stale", "crossed"} = {}
  BY <1>1, TroubleGrows
<1>3. pend' = pend
  <2>1. ServerTypes /\ TabTypes
    BY TypeParts
  <2>2. CASE UNCHANGED server
    BY <2>2 DEF server, guard
  <2>3. CASE timer' = timer
    <3>1. \A c \in Changes : fate[c] \in {"new", "asked"} => timer # c
      BY ClientAssumption DEF FateInv, TabInv, Guarded
    <3>2. BookStep
      BY NextBooks DEF FateInv
    <3>3. ASSUME NEW c \in Changes, fate[c] \in {"new", "asked"}, BeginPending(c) PROVE FALSE
      BY <2>3, <3>1, <3>3 DEF BeginPending
    <3>4. ASSUME NEW kind \in Clicks, Take(kind) PROVE FALSE
      BY <3>4 DEF Take
    <3>5. ASSUME NEW outcome, NEW answer, Done(outcome, answer) PROVE pend' = pend
      BY <3>5, Zenon DEF Done
    <3>6. UNCHANGED guard \/ UNCHANGED Books => pend' = pend
      BY DEF guard, Books
    <3> QED BY <3>2, <3>3, <3>4, <3>5, <3>6 DEF BookStep
  <2> QED BY <2>2, <2>3, TabSteps, TabAlone
<1>4. ASSUME timer = pend PROVE ui.phase = "pending" /\ ui.c = pend /\ Polls
  <2>1. /\ ui.phase = "pending" /\ ui.c = pend
        /\ \A r \in Slots : call[r].kind = "poll" /\ call[r].at = "answered" /\ ~call[r].old
                              => call[r].ans.pend = pend
    BY <1>2, <1>3, <1>4 DEF CountInv
  <2>2. ASSUME NEW r \in Slots, call'[r].kind = "poll", call'[r].at = "answered", ~call'[r].old
        PROVE  call'[r].ans.pend = pend
    <3>1. CASE Kept(r)
      BY <2>1, <2>2, <3>1 DEF Kept
    <3> QED BY <1>1, <2>2, <3>1, PollAnswered
  <2> QED BY <1>3, <2>1, <2>2
<1> HIDE DEF Polls
<1> DEFINE Goal == ui'.phase = "pending" /\ ui'.c = pend /\ Polls
<1>5. ASSUME UNCHANGED <<ui, timer>> PROVE Goal
  BY <1>3, <1>4, <1>5
<1>6. ASSUME NEW proceed \in BOOLEAN, Decide(proceed) PROVE FALSE
  BY <1>3, <1>4, <1>6 DEF Decide
<1>7. ASSUME NEW kind \in {"confirm", "revert"}, Click(kind) PROVE Goal
  <2>1. ui'.phase = ui.phase /\ ui'.c = ui.c /\ timer' = timer
    BY <1>7, TypeParts DEF Click, TabTypes
  <2> QED BY <1>3, <1>4, <2>1
<1>8. ~DismissGuardNotice
  BY <1>3, <1>4 DEF DismissGuardNotice
<1>9. ~ExpiryTimer
  BY DEF ExpiryTimer
<1>10. ASSUME \A r \in Slots : call'[r].kind = "poll" => call'[r].old PROVE Polls
  BY <1>10 DEF Polls
<1>11. ASSUME NEW s \in Slots, SyncPending(s) PROVE Goal
  <2>1. ~call[s].old /\ call[s].kind = "poll" /\ call[s].at = "answered"
    BY <1>11 DEF SyncPending, Blame
  <2>2. timer' = timer => call[s].ans.pend = pend
    BY <1>2, <1>3, <2>1 DEF CountInv
  <2>3. CASE RegisterPending(call[s].ans.pend) /\ \A r \in Slots : call'[r].kind = "poll" => call'[r].old
    BY <1>3, <1>10, <2>3, ShowsFields DEF RegisterPending
  <2>4. CASE timer' = timer /\ ui' = ui
    BY <1>3, <1>4, <2>4
  <2> QED BY <1>3, <1>11, <2>2, <2>3, <2>4, SyncEffect
<1>12. ASSUME NEW s \in Slots, ApplyAnswered(s) PROVE Goal
  <2>1. CASE call[s].ans = "ok" /\ RegisterPending(call[s].c) /\ Over(s, TRUE)
    <3>1. \A r \in Slots : call'[r].kind = "poll" => call'[r].old
      BY <2>1, OverEffect
    <3> QED BY <1>3, <1>10, <2>1, <3>1, ShowsFields DEF RegisterPending
  <2>2. CASE call[s].ans = "lockout" /\ timer' = timer
    <3>1. ui.phase = "pending"
      BY <1>3, <1>4, <2>2
    <3>2. "crossed" \in trouble'
      BY <1>12, <2>2, <3>1 DEF ApplyAnswered, Blame
    <3> QED BY <3>2
  <2>3. CASE ui' = ui /\ timer' = timer
    BY <1>3, <1>4, <2>3
  <2> QED BY <1>12, <2>1, <2>2, <2>3, ApplyEffect
<1>13. ASSUME NEW s \in Slots, ClickAnswered(s) PROVE Goal
  <2>1. timer' = timer /\ call[s].kind \in Clicks /\ call[s].at = "answered"
    BY <1>13, ClickedEffect
  <2>2. ui.phase = "pending" /\ ui.c = pend /\ Polls
    BY <1>3, <1>4, <2>1
  <2>3. ui = [Shows("pending", call[s].c) EXCEPT !.busy = call[s].kind]
    BY <1>13 DEF ClickAnswered, Blame
  <2>4. call[s].c = pend
    BY <2>2, <2>3 DEF Shows
  <2>5. call[s].ans \notin {"ok", "unsaved"}
    BY <1>3, <2>1, <2>4 DEF FateInv, AnswerInv, ClickFate, ServerInv, Clicks
  <2>6. ui' = Shows("pending", call[s].c)
    BY <1>13, <2>5, ClickedEffect
  <2> QED BY <2>2, <2>4, <2>6, ShowsFields
<1> HIDE DEF Goal
<1>14. Goal
  BY <1>1, <1>5, <1>6, <1>7, <1>8, <1>9, <1>11, <1>12, <1>13, TabSteps DEF TabMoves
<1> QED BY <1>3, <1>14 DEF Goal, Polls

\* The tab that registered the pending change shows its countdown; and who sees
\* a countdown that is over will look again.
THEOREM CountdownHolds == Spec => []CountdownShown
<1>1. Init => BusyInv /\ WatchInv /\ CountInv
  BY DEF Init, BusyInv, WatchInv, CountInv, Idle, Shows
<1>2. WatchInv /\ CountInv => CountdownShown
  BY DEF WatchInv, LooksAgain, CountInv, CountdownShown
<1> QED BY <1>1, <1>2, InitTypes, NextTypes, InitFate, NextFate, NextBusy, NextWatch, NextCount, PTL DEF Spec

\* A fresh answer that says nothing is pending names the change of the countdown.
LEMMA NextTold == TypeInv /\ ToldInv /\ [Next]_vars => ToldInv'
<1> SUFFICES ASSUME TypeInv, ToldInv, [Next]_vars, ui'.phase = "pending", trouble' \subseteq {"lost"},
                    NEW r \in Slots, call'[r].kind = "poll", call'[r].at = "answered", ~call'[r].old,
                    call'[r].ans.pend = None
             PROVE  call'[r].ans.last.c = ui'.c
  BY DEF ToldInv
<1>1. ~Reload
  BY ShowsFields DEF Reload
<1>2. trouble \subseteq {"lost"}
  BY <1>1, TroubleGrows
<1>3. CASE ServePoll(r) /\ call'[r].ans.pend = pend /\ call'[r].ans.last = last
  <2>1. ui' = ui /\ ui.c # None
    BY <1>3, ClientAssumption DEF ServePoll, TypeInv, UiInv
  <2>2. "missed" \notin trouble' /\ "midway" \notin trouble'
    OBVIOUS
  <2>3. ui.c \in {pend, last.c}
    BY <1>3, <2>1, <2>2 DEF ServePoll, Blame
  <2> QED BY <1>3, <2>1, <2>3
<1>4. CASE Kept(r)
  <2>1. call[r].kind = "poll" /\ call[r].at = "answered" /\ ~call[r].old /\ call[r].ans = call'[r].ans
    BY <1>4 DEF Kept
  <2>2. ui.phase = "pending" => call'[r].ans.last.c = ui.c
    BY <1>2, <2>1 DEF ToldInv
  <2>3. ASSUME NEW kind \in {"confirm", "revert"}, Click(kind) PROVE ui.phase = "pending" /\ ui'.c = ui.c
    BY <2>3, TypeParts DEF Click, TabTypes
  <2>4. ASSUME NEW s \in Slots, SyncPending(s) PROVE ui' = ui
    BY <2>4, SyncEffect, ShowsFields DEF Reports
  <2>5. ASSUME NEW s \in Slots, ApplyAnswered(s) PROVE ui' = ui
    BY <2>5, ApplyShows
  <2>6. ASSUME NEW s \in Slots, ClickAnswered(s) PROVE ui.phase = "pending" /\ ui'.c = ui.c
    <3>1. ui = [Shows("pending", call[s].c) EXCEPT !.busy = call[s].kind]
      BY <2>6 DEF ClickAnswered, Blame
    <3>2. ui.phase = "pending" /\ ui.c = call[s].c
      BY <3>1 DEF Shows
    <3> QED BY <2>6, <3>2, ClickedShows
  <2>7. ASSUME NEW proceed \in BOOLEAN, Decide(proceed) PROVE FALSE
    BY <2>7, ShowsFields DEF Decide
  <2>8. ~DismissGuardNotice
    BY ShowsFields DEF DismissGuardNotice
  <2>9. CASE ExpiryTimer
    BY <2>2, <2>9 DEF ExpiryTimer
  <2> QED BY <1>1, <2>2, <2>3, <2>4, <2>5, <2>6, <2>7, <2>8, <2>9, TabSteps DEF TabMoves
<1> QED BY <1>1, <1>3, <1>4, PollAnswered

\* How a countdown ends.
LEMMA EndsSo == TypeInv /\ FateInv /\ ToldInv /\ [Next]_vars => (trouble' \subseteq {"lost"} => EndsTruly)
<1> SUFFICES ASSUME TypeInv, FateInv, ToldInv, [Next]_vars, trouble' \subseteq {"lost"},
                    ui.phase = "pending", ui' # ui, ~Reload
             PROVE  /\ ui'.phase = "idle" => fate[ui.c] = "confirmed"
                    /\ ui'.phase \in {"reverted", "revert_failed"} => ui'.c = ui.c
  BY DEF EndsTruly
<1> DEFINE Goal == /\ ui'.phase = "idle" => fate[ui.c] = "confirmed"
                   /\ ui'.phase \in {"reverted", "revert_failed"} => ui'.c = ui.c
<1>1. trouble \subseteq {"lost"}
  BY TroubleGrows
<1>2. ASSUME NEW kind \in {"confirm", "revert"}, Click(kind) PROVE Goal
  BY <1>2, TypeParts DEF Click, TabTypes
<1>3. ASSUME NEW s \in Slots, SyncPending(s) PROVE Goal
  <2>1. ~call[s].old /\ call[s].kind = "poll" /\ call[s].at = "answered"
    BY <1>3 DEF SyncPending, Blame
  <2>2. call[s].ans.pend = None => call[s].ans.last.c = ui.c
    BY <1>1, <2>1 DEF ToldInv
  <2>3. ui.c \in Changes
    BY DEF TypeInv, UiInv
  <2>4. CASE RegisterPending(call[s].ans.pend)
    BY <2>4, ShowsFields DEF RegisterPending
  <2>5. CASE call[s].ans.pend = None /\ Reports(call[s].ans.last.outcome)
             /\ ui' = Shows(call[s].ans.last.outcome, call[s].ans.last.c)
    BY <2>2, <2>5, ShowsFields DEF Reports
  <2>6. CASE call[s].ans.pend = None /\ ~Reports(call[s].ans.last.outcome) /\ ui' = Idle
    <3>1. call[s].ans.last \in Outcomes
      BY <1>3, SyncEffect
    <3>2. call[s].ans.last.outcome = "confirmed"
      BY <2>2, <2>3, <2>6, <3>1, ClientAssumption DEF Outcomes, NoOutcome, Reports
    <3>3. fate[ui.c] = "confirmed"
      BY <2>1, <2>2, <2>3, <2>6, <3>2, ClientAssumption DEF FateInv, AnswerInv, PollFate
    <3> QED BY <2>6, <3>3, ShowsFields
  <2> QED BY <1>3, <2>4, <2>5, <2>6, SyncEffect
<1>4. ASSUME NEW s \in Slots, ApplyAnswered(s) PROVE Goal
  BY <1>4, ApplyShows
<1>5. ASSUME NEW s \in Slots, ClickAnswered(s) PROVE Goal
  <2>1. ui = [Shows("pending", call[s].c) EXCEPT !.busy = call[s].kind]
    BY <1>5 DEF ClickAnswered, Blame
  <2>2. ui.c = call[s].c
    BY <2>1 DEF Shows
  <2>3. ClickFate(s)
    BY DEF FateInv, AnswerInv
  <2>4. call[s].kind \in Clicks /\ call[s].at = "answered"
    BY <1>5, ClickedEffect
  <2> QED BY <1>5, <2>2, <2>3, <2>4, ClickedShows DEF ClickFate
<1>6. ~DismissGuardNotice /\ \A proceed \in BOOLEAN : ~Decide(proceed)
  BY DEF DismissGuardNotice, Decide
<1>7. ~ExpiryTimer
  BY DEF ExpiryTimer
<1> QED BY <1>2, <1>3, <1>4, <1>5, <1>6, <1>7, TabSteps DEF TabMoves

\* A countdown gives way to nothing only when its change was confirmed, and to a
\* notice only when the notice is about it, as long as nothing worse happened to
\* the tab's answers than that some were lost.
THEOREM ToldTruly == Spec => ToldHow
<1>1. Init => ToldInv
  BY DEF Init, ToldInv, Idle, Shows
<1> QED BY <1>1, InitTypes, NextTypes, InitFate, NextFate, NextTold, EndsSo, PTL DEF Spec, ToldHow
=============================================================================
