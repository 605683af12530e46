-------------------------- MODULE CommitGuardProofs --------------------------
(***************************************************************************)
(* Proofs about CommitGuard, for any number of requests and changes.       *)
(***************************************************************************)
EXTENDS CommitGuard, TLAPS

-----------------------------------------------------------------------------
(* Type correctness                                                        *)

\* Where a handler still carries the change it will commit or register.
CarryPCs == {"lockout", "graft", "rbcheck", "unlink", "save", "stat",
             "configure", "write", "load", "loaded", "arm", "rawcfg"}

JobHeld == \A r \in Requests :
             /\ pc[r] \in CarryPCs => job[r] \in Ops
             /\ pc[r] = "graft" => tgt[r] \in Config

TypeInv == TypeOK /\ JobHeld

\* A request that arrives keeps the state well typed.
LEMMA ArriveTypes ==
  ASSUME TypeInv, NEW r \in Requests, Arrive(r)
  PROVE  TypeInv'
<1> USE DEF TypeInv, TypeOK, JobHeld, CarryPCs, PCs, Config, Keys, Enter,
            EnterBreaking, Goto, vyos, files, inner, ghosts, Assumptions
<1>1. CASE \E o \in Ops : ApplyStart(r, o)
  BY <1>1 DEF ApplyStart
<1>2. CASE \E o \in Ops, keys \in {{}, {Key}, {Foreign}} : RestoreStart(r, o, keys)
  BY <1>2 DEF RestoreStart
<1>3. CASE \E o \in Ops, cfg \in archive : RollbackStart(r, o, cfg)
  BY <1>3 DEF RollbackStart
<1>4. CASE \E o \in Ops : RawConfigureStart(r, o)
  BY <1>4 DEF RawConfigureStart
<1>5. CASE RawFileStart(r)
  BY <1>5 DEF RawFileStart
<1>6. CASE ConfirmTake(r)
  BY <1>6 DEF ConfirmTake
<1>7. CASE RevertTake(r)
  BY <1>7 DEF RevertTake
<1> QED BY <1>1, <1>2, <1>3, <1>4, <1>5, <1>6, <1>7 DEF Arrive

\* A handler's step keeps the state well typed.
LEMMA ServeTypes ==
  ASSUME TypeInv, NEW r \in Requests, Answer(r) \/ Serve(r)
  PROVE  TypeInv'
<1> USE DEF TypeInv, TypeOK, JobHeld, CarryPCs, PCs, Config, Keys, Goto, Commit,
            vyos, files, inner, ghosts, Assumptions
<1>1. CASE LockoutCheck(r)
  BY <1>1 DEF LockoutCheck
<1>2. CASE Graft(r)
  BY <1>2 DEF Graft
<1>3. CASE RollbackCheck(r)
  BY <1>3 DEF RollbackCheck
<1>4. CASE UnlinkStale(r)
  BY <1>4 DEF UnlinkStale
<1>5. CASE SaveSnapshot(r)
  BY <1>5 DEF SaveSnapshot
<1>6. CASE StatSnapshot(r)
  BY <1>6 DEF StatSnapshot
<1>7. CASE Configure(r)
  BY <1>7 DEF Configure
<1>8. CASE BeginPending(r)
  BY <1>8 DEF BeginPending, RevertPCs
<1>9. CASE WriteLoadFile(r)
  BY <1>9 DEF WriteLoadFile
<1>10. CASE LoadTarget(r)
  BY <1>10 DEF LoadTarget
<1>11. CASE RemoveLoadFile(r)
  BY <1>11 DEF RemoveLoadFile
<1>12. CASE ConfirmUnlink(r)
  BY <1>12 DEF ConfirmUnlink
<1>13. CASE ConfirmSave(r)
  BY <1>13 DEF ConfirmSave
<1>14. CASE ConfirmDone(r)
  BY <1>14 DEF ConfirmDone
<1>15. CASE RevertLoad(r)
  BY <1>15 DEF RevertLoad, LoadSnapshot
<1>16. CASE RevertUnlink(r)
  BY <1>16 DEF RevertUnlink
<1>17. CASE RevertFinish(r)
  <2>1. last' \in {"none", "confirmed", "reverted", "revert_failed"}
    BY <1>17 DEF RevertFinish, RecordOutcome
  <2>2. reverting' \in BOOLEAN
    <3>1. reverting' = FALSE
      BY <1>17 DEF RevertFinish, RecordOutcome
    <3> QED BY <3>1
  <2>3. UNCHANGED <<running, boot, archive, snapFile, loadFile, pending, timer, job, tgt,
                    used, accepted, acceptedEver, broken>>
    BY <1>17 DEF RevertFinish
  <2>4. pc' = [pc EXCEPT ![r] = "idle"]
    BY <1>17 DEF RevertFinish
  <2>5. pc' \in [Requests -> PCs] /\ JobHeld'
    BY <2>3, <2>4
  <2> QED BY <2>1, <2>2, <2>3, <2>5
<1>18. CASE RawConfigure(r)
  BY <1>18 DEF RawConfigure
<1>19. CASE RawSave(r)
  BY <1>19 DEF RawSave
<1>20. CASE RawLoad(r)
  BY <1>20 DEF RawLoad
<1> QED BY <1>1, <1>2, <1>3, <1>4, <1>5, <1>6, <1>7, <1>8, <1>9, <1>10, <1>11,
           <1>12, <1>13, <1>14, <1>15, <1>16, <1>17, <1>18, <1>19, <1>20 DEF Answer, Serve

\* A timer's step keeps the state well typed.
LEMMA TickTypes ==
  ASSUME TypeInv, NEW o \in Ops, TimerLoad(o) \/ Tick(o)
  PROVE  TypeInv'
<1> USE DEF TypeInv, TypeOK, JobHeld, Config, Keys, RevertPCs, Commit, vyos, files,
            inner, ghosts, Assumptions
<1>1. CASE Expire(o)
  BY <1>1 DEF Expire
<1>2. CASE TimerLoad(o)
  BY <1>2 DEF TimerLoad, LoadSnapshot
<1>3. CASE TimerUnlink(o)
  BY <1>3 DEF TimerUnlink
<1>4. CASE TimerFinish(o)
  BY <1>4 DEF TimerFinish, RecordOutcome
<1> QED BY <1>1, <1>2, <1>3, <1>4 DEF Tick

\* Dropped connections, restarts and power cycles keep the state well typed.
LEMMA EnvironmentTypes ==
  ASSUME TypeInv,
         (\E r \in Requests : DropConnection(r)) \/ Restart \/ PowerCycle
  PROVE  TypeInv'
<1> USE DEF TypeInv, TypeOK, JobHeld, CarryPCs, PCs, Config, Keys, Goto, Commit,
            vyos, files, inner, ghosts, Assumptions, Forget
<1>1. CASE \E r \in Requests : DropConnection(r)
  BY <1>1 DEF DropConnection
<1>2. CASE Restart
  BY <1>2 DEF Restart
<1>3. CASE PowerCycle
  BY <1>3 DEF PowerCycle
<1> QED BY <1>1, <1>2, <1>3

\* TypeInv is inductive.
LEMMA TypeStep == TypeInv /\ [Next]_vars => TypeInv'
<1> SUFFICES ASSUME TypeInv, [Next]_vars PROVE TypeInv'
  OBVIOUS
<1>1. CASE UNCHANGED vars
  BY <1>1 DEF TypeInv, TypeOK, JobHeld, vars, vyos, files, inner, ghosts
<1>2. CASE Next
  BY <1>2, ArriveTypes, ServeTypes, TickTypes, EnvironmentTypes DEF Next
<1> QED BY <1>1, <1>2

\* The initial state is well typed.
LEMMA InitTypes == Init => TypeInv
<1> SUFFICES ASSUME Init PROVE TypeInv
  OBVIOUS
<1>1. {Key} \in Config /\ {{Key}} \subseteq Config
  BY DEF Config, Keys
<1>2. TypeOK
  BY <1>1 DEF Init, TypeOK, PCs
<1>3. JobHeld
  BY DEF Init, JobHeld, CarryPCs
<1> QED BY <1>2, <1>3 DEF TypeInv

\* Every reachable state of guard.rs's model is well typed; in particular a
\* handler that commits always holds the change it was given.
THEOREM TypeCorrect == Spec => []TypeOK
<1>1. TypeInv => TypeOK
  BY DEF TypeInv
<1> QED BY <1>1, InitTypes, TypeStep, PTL DEF Spec
-----------------------------------------------------------------------------
(* The inductive invariants                                                *)

\* The configuration a handler will write out to be loaded.
TargetPCs == {"lockout", "rbcheck", "unlink", "save", "stat", "write"}

\* Every file and every target a load can take its configuration from holds
\* the backend's key, unless a foreign one was uploaded; only an upload still
\* to be grafted does not.
KeyInv ==
  /\ WebUiAccessKept
  /\ "foreign" \notin broken =>
       /\ loadFile # None => Key \in loadFile
       /\ \A r \in Requests : pc[r] \in TargetPCs /\ tgt[r] # None => Key \in tgt[r]

\* A request is alone, a pending change excludes handlers past their check,
\* and a revert excludes both.
LockInv ==
  "overlap" \notin broken =>
    /\ \A r, q \in Requests : pc[r] # "idle" /\ pc[q] # "idle" => r = q
    /\ pending # None =>
         /\ ~reverting
         /\ \A r \in Requests : pc[r] \in {"idle", "rbcheck"}
    /\ reverting => \A r \in Requests : pc[r] \in RevertPCs \cup {"idle", "rbcheck"}
    /\ \A r \in Requests : pc[r] \in RevertPCs => reverting
    /\ \A o \in Ops : timer[o] \in RevertPCs =>
         /\ reverting
         /\ \A r \in Requests : pc[r] \in {"idle", "rbcheck"}
         /\ \A p \in Ops : timer[p] \in RevertPCs => p = o

\* Where a handler relies on the snapshot it took.
SnapPCs == {"stat", "configure", "write", "load", "loaded", "arm", "rload"}

\* A change is live that nobody agreed to.
OnTrial == \/ pending # None
           \/ \E o \in Ops : timer[o] = "rload"
           \/ \E r \in Requests : pc[r] \in {"loaded", "arm", "rload"}

AgreeInv ==
  broken = {} =>
    /\ accepted \in acceptedEver /\ boot \in acceptedEver
    /\ pending # None => snapFile = accepted
    /\ \A o \in Ops : timer[o] = "rload" => snapFile = accepted
    /\ \A r \in Requests : pc[r] \in SnapPCs => snapFile = accepted
    /\ \A o \in Ops : timer[o] # "rfail"
    /\ \A r \in Requests : pc[r] # "rfail"
    /\ ~OnTrial => running = accepted
-----------------------------------------------------------------------------
(* Access to VyOS and timers, in every interleaving                         *)

\* KeyInv is inductive.
LEMMA KeyStep == TypeInv /\ KeyInv /\ [Next]_vars => KeyInv'
<1> SUFFICES ASSUME TypeInv, KeyInv, [Next]_vars PROVE KeyInv'
  OBVIOUS
<1> USE DEF TypeInv, TypeOK, KeyInv, WebUiAccessKept, TargetPCs, Goto, Commit,
            vyos, files, inner, ghosts, Forget, Enter, EnterBreaking
<1>1. CASE UNCHANGED vars
  BY <1>1 DEF vars
<1>2. ASSUME NEW r \in Requests, Arrive(r) PROVE KeyInv'
  <2>1. CASE \E o \in Ops : ApplyStart(r, o)
    BY <2>1 DEF ApplyStart
  <2>2. CASE \E o \in Ops, keys \in {{}, {Key}, {Foreign}} : RestoreStart(r, o, keys)
    BY <2>2 DEF RestoreStart, Config
  <2>3. CASE \E o \in Ops, cfg \in archive : RollbackStart(r, o, cfg)
    BY <2>3 DEF RollbackStart
  <2>4. CASE \E o \in Ops : RawConfigureStart(r, o)
    BY <2>4 DEF RawConfigureStart
  <2>5. CASE RawFileStart(r)
    BY <2>5 DEF RawFileStart
  <2>6. CASE ConfirmTake(r)
    BY <2>6 DEF ConfirmTake
  <2>7. CASE RevertTake(r)
    BY <2>7 DEF RevertTake
  <2> QED BY <1>2, <2>1, <2>2, <2>3, <2>4, <2>5, <2>6, <2>7 DEF Arrive
<1>3. ASSUME NEW r \in Requests, Answer(r) \/ Serve(r) PROVE KeyInv'
  <2>1. CASE LockoutCheck(r)
    BY <2>1 DEF LockoutCheck
  <2>2. CASE Graft(r)
    BY <2>2 DEF Graft, JobHeld, ApiUp, Config
  <2>3. CASE RollbackCheck(r)
    BY <2>3 DEF RollbackCheck
  <2>4. CASE UnlinkStale(r)
    BY <2>4 DEF UnlinkStale
  <2>5. CASE SaveSnapshot(r)
    BY <2>5 DEF SaveSnapshot, ApiUp
  <2>6. CASE StatSnapshot(r)
    BY <2>6 DEF StatSnapshot
  <2>7. CASE Configure(r)
    BY <2>7 DEF Configure
  <2>8. CASE BeginPending(r)
    BY <2>8 DEF BeginPending
  <2>9. CASE WriteLoadFile(r)
    BY <2>9 DEF WriteLoadFile
  <2>10. CASE LoadTarget(r)
    BY <2>10 DEF LoadTarget
  <2>11. CASE RemoveLoadFile(r)
    BY <2>11 DEF RemoveLoadFile
  <2>12. CASE ConfirmUnlink(r)
    BY <2>12 DEF ConfirmUnlink
  <2>13. CASE ConfirmSave(r)
    BY <2>13 DEF ConfirmSave, ApiUp
  <2>14. CASE ConfirmDone(r)
    BY <2>14 DEF ConfirmDone
  <2>15. CASE RevertLoad(r)
    BY <2>15 DEF RevertLoad, LoadSnapshot
  <2>16. CASE RevertUnlink(r)
    BY <2>16 DEF RevertUnlink
  <2>17. CASE RevertFinish(r)
    BY <2>17 DEF RevertFinish, RecordOutcome
  <2>18. CASE RawConfigure(r)
    BY <2>18 DEF RawConfigure
  <2>19. CASE RawSave(r)
    BY <2>19 DEF RawSave, ApiUp
  <2>20. CASE RawLoad(r)
    BY <2>20 DEF RawLoad
  <2> QED BY <1>3, <2>1, <2>2, <2>3, <2>4, <2>5, <2>6, <2>7, <2>8, <2>9, <2>10,
             <2>11, <2>12, <2>13, <2>14, <2>15, <2>16, <2>17, <2>18, <2>19, <2>20
          DEF Answer, Serve
<1>4. ASSUME NEW o \in Ops, TimerLoad(o) \/ Tick(o) PROVE KeyInv'
  <2>1. CASE Expire(o)
    BY <2>1 DEF Expire
  <2>2. CASE TimerLoad(o)
    BY <2>2 DEF TimerLoad, LoadSnapshot
  <2>3. CASE TimerUnlink(o)
    BY <2>3 DEF TimerUnlink
  <2>4. CASE TimerFinish(o)
    BY <2>4 DEF TimerFinish, RecordOutcome
  <2> QED BY <1>4, <2>1, <2>2, <2>3, <2>4 DEF Tick
<1>5. ASSUME NEW r \in Requests, DropConnection(r) PROVE KeyInv'
  BY <1>5 DEF DropConnection
<1>6. CASE Restart
  BY <1>6 DEF Restart
<1>7. CASE PowerCycle
  BY <1>7 DEF PowerCycle
<1> QED BY <1>1, <1>2, <1>3, <1>4, <1>5, <1>6, <1>7 DEF Next
\* The initial state has the key everywhere.
LEMMA InitKey == Init => KeyInv
BY GuardAssumption DEF Init, KeyInv, WebUiAccessKept, TargetPCs

\* The boot configuration and the snapshot always let the backend in, in any
\* interleaving of requests, timers, dropped connections and restarts, and no
\* restore, rollback or revert strands the WebUI unless an upload brought a
\* foreign key (save_running_config, guarded_load, preserve_webui_access).
THEOREM AccessKept == Spec => []WebUiAccessKept
<1>1. Init => TypeInv /\ KeyInv
  BY InitTypes, InitKey
<1>2. KeyInv => WebUiAccessKept
  BY DEF KeyInv
<1> QED BY <1>1, <1>2, TypeStep, KeyStep, PTL DEF Spec

\* PendingHasTimer is inductive.
LEMMA TimerStep == TypeInv /\ PendingHasTimer /\ [Next]_vars => PendingHasTimer'
<1> SUFFICES ASSUME TypeInv, PendingHasTimer, [Next]_vars PROVE PendingHasTimer'
  OBVIOUS
<1> USE DEF TypeInv, TypeOK, PendingHasTimer, Goto, Commit, vyos, files, inner,
            ghosts, Forget, Enter, EnterBreaking
<1>1. CASE UNCHANGED vars
  BY <1>1 DEF vars
<1>2. ASSUME NEW r \in Requests, Arrive(r) PROVE PendingHasTimer'
  <2>1. CASE \E o \in Ops : ApplyStart(r, o)
    BY <2>1 DEF ApplyStart, RevertPCs
  <2>2. CASE \E o \in Ops, keys \in {{}, {Key}, {Foreign}} : RestoreStart(r, o, keys)
    BY <2>2 DEF RestoreStart, RevertPCs
  <2>3. CASE \E o \in Ops, cfg \in archive : RollbackStart(r, o, cfg)
    BY <2>3 DEF RollbackStart, RevertPCs
  <2>4. CASE \E o \in Ops : RawConfigureStart(r, o)
    BY <2>4 DEF RawConfigureStart, RevertPCs
  <2>5. CASE RawFileStart(r)
    BY <2>5 DEF RawFileStart, RevertPCs
  <2>6. CASE ConfirmTake(r)
    BY <2>6, GuardAssumption DEF ConfirmTake, RevertPCs
  <2>7. CASE RevertTake(r)
    BY <2>7, GuardAssumption DEF RevertTake, RevertPCs
  <2> QED BY <1>2, <2>1, <2>2, <2>3, <2>4, <2>5, <2>6, <2>7 DEF Arrive
<1>3. ASSUME NEW r \in Requests, Answer(r) \/ Serve(r) PROVE PendingHasTimer'
  <2>1. CASE LockoutCheck(r)
    BY <2>1 DEF LockoutCheck, RevertPCs
  <2>2. CASE Graft(r)
    BY <2>2 DEF Graft, RevertPCs
  <2>3. CASE RollbackCheck(r)
    BY <2>3 DEF RollbackCheck, RevertPCs
  <2>4. CASE UnlinkStale(r)
    BY <2>4 DEF UnlinkStale, RevertPCs
  <2>5. CASE SaveSnapshot(r)
    BY <2>5 DEF SaveSnapshot, RevertPCs
  <2>6. CASE StatSnapshot(r)
    BY <2>6 DEF StatSnapshot, RevertPCs
  <2>7. CASE Configure(r)
    BY <2>7 DEF Configure, RevertPCs
  <2>8. CASE BeginPending(r)
    BY <2>8 DEF BeginPending, RevertPCs
  <2>9. CASE WriteLoadFile(r)
    BY <2>9 DEF WriteLoadFile, RevertPCs
  <2>10. CASE LoadTarget(r)
    BY <2>10 DEF LoadTarget, RevertPCs
  <2>11. CASE RemoveLoadFile(r)
    BY <2>11 DEF RemoveLoadFile, RevertPCs
  <2>12. CASE ConfirmUnlink(r)
    BY <2>12 DEF ConfirmUnlink, RevertPCs
  <2>13. CASE ConfirmSave(r)
    BY <2>13 DEF ConfirmSave, RevertPCs
  <2>14. CASE ConfirmDone(r)
    BY <2>14 DEF ConfirmDone, RevertPCs
  <2>15. CASE RevertLoad(r)
    BY <2>15 DEF RevertLoad, LoadSnapshot, RevertPCs
  <2>16. CASE RevertUnlink(r)
    BY <2>16 DEF RevertUnlink, RevertPCs
  <2>17. CASE RevertFinish(r)
    BY <2>17 DEF RevertFinish, RecordOutcome, RevertPCs
  <2>18. CASE RawConfigure(r)
    BY <2>18 DEF RawConfigure, RevertPCs
  <2>19. CASE RawSave(r)
    BY <2>19 DEF RawSave, RevertPCs
  <2>20. CASE RawLoad(r)
    BY <2>20 DEF RawLoad, RevertPCs
  <2> QED BY <1>3, <2>1, <2>2, <2>3, <2>4, <2>5, <2>6, <2>7, <2>8, <2>9, <2>10,
             <2>11, <2>12, <2>13, <2>14, <2>15, <2>16, <2>17, <2>18, <2>19, <2>20
          DEF Answer, Serve
<1>4. ASSUME NEW o \in Ops, TimerLoad(o) \/ Tick(o) PROVE PendingHasTimer'
  <2>1. CASE Expire(o)
    BY <2>1, GuardAssumption DEF Expire, RevertPCs
  <2>2. CASE TimerLoad(o)
    BY <2>2 DEF TimerLoad, LoadSnapshot, RevertPCs
  <2>3. CASE TimerUnlink(o)
    BY <2>3 DEF TimerUnlink, RevertPCs
  <2>4. CASE TimerFinish(o)
    BY <2>4 DEF TimerFinish, RecordOutcome, RevertPCs
  <2> QED BY <1>4, <2>1, <2>2, <2>3, <2>4 DEF Tick
<1>5. ASSUME NEW r \in Requests, DropConnection(r) PROVE PendingHasTimer'
  BY <1>5 DEF DropConnection, RevertPCs
<1>6. CASE Restart
  BY <1>6, GuardAssumption DEF Restart, RevertPCs
<1>7. CASE PowerCycle
  BY <1>7, GuardAssumption DEF PowerCycle, RevertPCs
<1> QED BY <1>1, <1>2, <1>3, <1>4, <1>5, <1>6, <1>7 DEF Next
\* Whatever superseded it or raced with it, a registered change has its timer
\* (begin_pending, expire).
THEOREM TimersHeld == Spec => []PendingHasTimer
<1>1. Init => TypeInv /\ PendingHasTimer
  BY InitTypes, GuardAssumption DEF Init, PendingHasTimer
<1> QED BY <1>1, TypeStep, TimerStep, PTL DEF Spec

-----------------------------------------------------------------------------
(* A revert runs alone                                                     *)

\* LockInv is inductive.
LEMMA LockStep == TypeInv /\ LockInv /\ [Next]_vars => LockInv'
<1> SUFFICES ASSUME TypeInv, LockInv, [Next]_vars PROVE LockInv'
  OBVIOUS
<1> USE DEF TypeInv, TypeOK, LockInv, RevertPCs, IsPending, Goto, Commit, vyos,
            files, inner, ghosts, Forget, Enter, EnterBreaking
<1>1. CASE UNCHANGED vars
  BY <1>1 DEF vars
<1>2. ASSUME NEW r \in Requests, Arrive(r) PROVE LockInv'
  <2>1. CASE \E o \in Ops : ApplyStart(r, o)
    BY <2>1, GuardAssumption DEF ApplyStart
  <2>2. CASE \E o \in Ops, keys \in {{}, {Key}, {Foreign}} : RestoreStart(r, o, keys)
    BY <2>2, GuardAssumption DEF RestoreStart
  <2>3. CASE \E o \in Ops, cfg \in archive : RollbackStart(r, o, cfg)
    BY <2>3, GuardAssumption DEF RollbackStart
  <2>4. CASE \E o \in Ops : RawConfigureStart(r, o)
    BY <2>4, GuardAssumption DEF RawConfigureStart
  <2>5. CASE RawFileStart(r)
    BY <2>5, GuardAssumption DEF RawFileStart
  <2>6. CASE ConfirmTake(r)
    BY <2>6, GuardAssumption DEF ConfirmTake
  <2>7. CASE RevertTake(r)
    BY <2>7, GuardAssumption DEF RevertTake
  <2> QED BY <1>2, <2>1, <2>2, <2>3, <2>4, <2>5, <2>6, <2>7 DEF Arrive
<1>3. ASSUME NEW r \in Requests, Answer(r) \/ Serve(r) PROVE LockInv'
  <2>1. CASE LockoutCheck(r)
    BY <2>1, GuardAssumption DEF LockoutCheck
  <2>2. CASE Graft(r)
    BY <2>2, GuardAssumption DEF Graft
  <2>3. CASE RollbackCheck(r)
    BY <2>3, GuardAssumption DEF RollbackCheck
  <2>4. CASE UnlinkStale(r)
    BY <2>4, GuardAssumption DEF UnlinkStale
  <2>5. CASE SaveSnapshot(r)
    BY <2>5, GuardAssumption DEF SaveSnapshot
  <2>6. CASE StatSnapshot(r)
    BY <2>6, GuardAssumption DEF StatSnapshot
  <2>7. CASE Configure(r)
    BY <2>7, GuardAssumption DEF Configure
  <2>8. CASE BeginPending(r)
    BY <2>8, GuardAssumption DEF BeginPending
  <2>9. CASE WriteLoadFile(r)
    BY <2>9, GuardAssumption DEF WriteLoadFile
  <2>10. CASE LoadTarget(r)
    BY <2>10, GuardAssumption DEF LoadTarget
  <2>11. CASE RemoveLoadFile(r)
    BY <2>11, GuardAssumption DEF RemoveLoadFile
  <2>12. CASE ConfirmUnlink(r)
    BY <2>12, GuardAssumption DEF ConfirmUnlink
  <2>13. CASE ConfirmSave(r)
    BY <2>13, GuardAssumption DEF ConfirmSave
  <2>14. CASE ConfirmDone(r)
    BY <2>14, GuardAssumption DEF ConfirmDone
  <2>15. CASE RevertLoad(r)
    BY <2>15, GuardAssumption DEF RevertLoad, LoadSnapshot
  <2>16. CASE RevertUnlink(r)
    BY <2>16, GuardAssumption DEF RevertUnlink
  <2>17. CASE RevertFinish(r)
    BY <2>17, GuardAssumption DEF RevertFinish, RecordOutcome
  <2>18. CASE RawConfigure(r)
    BY <2>18, GuardAssumption DEF RawConfigure
  <2>19. CASE RawSave(r)
    BY <2>19, GuardAssumption DEF RawSave
  <2>20. CASE RawLoad(r)
    BY <2>20, GuardAssumption DEF RawLoad
  <2> QED BY <1>3, <2>1, <2>2, <2>3, <2>4, <2>5, <2>6, <2>7, <2>8, <2>9, <2>10,
             <2>11, <2>12, <2>13, <2>14, <2>15, <2>16, <2>17, <2>18, <2>19, <2>20
          DEF Answer, Serve
<1>4. ASSUME NEW o \in Ops, TimerLoad(o) \/ Tick(o) PROVE LockInv'
  <2>1. CASE Expire(o)
    BY <2>1, GuardAssumption DEF Expire
  <2>2. CASE TimerLoad(o)
    BY <2>2, GuardAssumption DEF TimerLoad, LoadSnapshot
  <2>3. CASE TimerUnlink(o)
    BY <2>3, GuardAssumption DEF TimerUnlink
  <2>4. CASE TimerFinish(o)
    BY <2>4, GuardAssumption DEF TimerFinish, RecordOutcome
  <2> QED BY <1>4, <2>1, <2>2, <2>3, <2>4 DEF Tick
<1>5. ASSUME NEW r \in Requests, DropConnection(r) PROVE LockInv'
  BY <1>5, GuardAssumption DEF DropConnection, AwaitPCs, OwingPCs
<1>6. CASE Restart
  BY <1>6, GuardAssumption DEF Restart, Quiet
<1>7. CASE PowerCycle
  BY <1>7, GuardAssumption DEF PowerCycle
<1> QED BY <1>1, <1>2, <1>3, <1>4, <1>5, <1>6, <1>7 DEF Next
\* A revert excludes every handler past its check, and the other way round,
\* as long as requests do not overlap: the `reverting` flag does its work.
THEOREM RevertAlone == Spec => []NoApplyDuringRevert
<1>1. Init => TypeInv /\ LockInv
  BY InitTypes DEF Init, LockInv, RevertPCs
<1>2. TypeInv /\ LockInv => NoApplyDuringRevert
  BY DEF LockInv, NoApplyDuringRevert, RevertInFlight, RevertPCs
<1> QED BY <1>1, <1>2, TypeStep, LockStep, PTL DEF Spec

-----------------------------------------------------------------------------
(* The promise: agreed configurations are kept, others are undone          *)

\* AgreeInv is inductive, given KeyInv and LockInv: a revert finds VyOS open.
LEMMA AgreeStep == TypeInv /\ KeyInv /\ LockInv /\ AgreeInv /\ [Next]_vars => AgreeInv'
<1> SUFFICES ASSUME TypeInv, KeyInv, LockInv, AgreeInv, [Next]_vars PROVE AgreeInv'
  OBVIOUS
<1> USE DEF TypeInv, TypeOK, LockInv, AgreeInv, OnTrial, SnapPCs, RevertPCs,
            IsPending, Goto, Commit, vyos, files, inner, ghosts, Forget, Enter, EnterBreaking
<1>1. CASE UNCHANGED vars
  BY <1>1 DEF vars
<1>2. ASSUME NEW r \in Requests, Arrive(r) PROVE AgreeInv'
  <2>1. CASE \E o \in Ops : ApplyStart(r, o)
    BY <2>1, GuardAssumption DEF ApplyStart
  <2>2. CASE \E o \in Ops, keys \in {{}, {Key}, {Foreign}} : RestoreStart(r, o, keys)
    <3>1. broken' = {} => broken = {}
      BY <2>2 DEF RestoreStart
    <3>2. pc[r] = "idle" /\ pc' \in {[pc EXCEPT ![r] = "graft"], [pc EXCEPT ![r] = "unlink"]}
      BY <2>2 DEF RestoreStart
    <3>3. UNCHANGED <<vyos, files, inner, timer, ghosts>>
      BY <2>2 DEF RestoreStart
    <3> QED BY <3>1, <3>2, <3>3
  <2>3. CASE \E o \in Ops, cfg \in archive : RollbackStart(r, o, cfg)
    BY <2>3, GuardAssumption DEF RollbackStart
  <2>4. CASE \E o \in Ops : RawConfigureStart(r, o)
    BY <2>4, GuardAssumption DEF RawConfigureStart
  <2>5. CASE RawFileStart(r)
    BY <2>5, GuardAssumption DEF RawFileStart
  <2>6. CASE ConfirmTake(r)
    BY <2>6, GuardAssumption DEF ConfirmTake
  <2>7. CASE RevertTake(r)
    BY <2>7, GuardAssumption DEF RevertTake
  <2> QED BY <1>2, <2>1, <2>2, <2>3, <2>4, <2>5, <2>6, <2>7 DEF Arrive
<1>3. ASSUME NEW r \in Requests, Answer(r) \/ Serve(r) PROVE AgreeInv'
  <2>1. CASE LockoutCheck(r)
    BY <2>1, GuardAssumption DEF LockoutCheck
  <2>2. CASE Graft(r)
    BY <2>2, GuardAssumption DEF Graft
  <2>3. CASE RollbackCheck(r)
    BY <2>3, GuardAssumption DEF RollbackCheck
  <2>4. CASE UnlinkStale(r)
    BY <2>4, GuardAssumption DEF UnlinkStale
  <2>5. CASE SaveSnapshot(r)
    BY <2>5, GuardAssumption DEF SaveSnapshot
  <2>6. CASE StatSnapshot(r)
    BY <2>6, GuardAssumption DEF StatSnapshot
  <2>7. CASE Configure(r)
    BY <2>7, GuardAssumption DEF Configure
  <2>8. CASE BeginPending(r)
    BY <2>8, GuardAssumption DEF BeginPending, JobHeld, CarryPCs
  <2>9. CASE WriteLoadFile(r)
    BY <2>9, GuardAssumption DEF WriteLoadFile
  <2>10. CASE LoadTarget(r)
    BY <2>10, GuardAssumption DEF LoadTarget
  <2>11. CASE RemoveLoadFile(r)
    BY <2>11, GuardAssumption DEF RemoveLoadFile
  <2>12. CASE ConfirmUnlink(r)
    BY <2>12, GuardAssumption DEF ConfirmUnlink
  <2>13. CASE ConfirmSave(r)
    BY <2>13, GuardAssumption DEF ConfirmSave
  <2>14. CASE ConfirmDone(r)
    BY <2>14, GuardAssumption DEF ConfirmDone
  <2>15. CASE RevertLoad(r)
    BY <2>15, GuardAssumption DEF RevertLoad, LoadSnapshot, ApiUp, KeyInv,
        WebUiAccessKept
  <2>16. CASE RevertUnlink(r)
    BY <2>16, GuardAssumption DEF RevertUnlink
  <2>17. CASE RevertFinish(r)
    BY <2>17, GuardAssumption DEF RevertFinish, RecordOutcome
  <2>18. CASE RawConfigure(r)
    BY <2>18, GuardAssumption DEF RawConfigure
  <2>19. CASE RawSave(r)
    BY <2>19, GuardAssumption DEF RawSave
  <2>20. CASE RawLoad(r)
    BY <2>20, GuardAssumption DEF RawLoad
  <2> QED BY <1>3, <2>1, <2>2, <2>3, <2>4, <2>5, <2>6, <2>7, <2>8, <2>9, <2>10,
             <2>11, <2>12, <2>13, <2>14, <2>15, <2>16, <2>17, <2>18, <2>19, <2>20
          DEF Answer, Serve
<1>4. ASSUME NEW o \in Ops, TimerLoad(o) \/ Tick(o) PROVE AgreeInv'
  <2>1. CASE Expire(o)
    BY <2>1, GuardAssumption DEF Expire
  <2>2. CASE TimerLoad(o)
    BY <2>2, GuardAssumption DEF TimerLoad, LoadSnapshot, ApiUp, KeyInv,
        WebUiAccessKept
  <2>3. CASE TimerUnlink(o)
    BY <2>3, GuardAssumption DEF TimerUnlink
  <2>4. CASE TimerFinish(o)
    BY <2>4, GuardAssumption DEF TimerFinish, RecordOutcome
  <2> QED BY <1>4, <2>1, <2>2, <2>3, <2>4 DEF Tick
<1>5. ASSUME NEW r \in Requests, DropConnection(r) PROVE AgreeInv'
  BY <1>5, GuardAssumption DEF DropConnection, AwaitPCs, OwingPCs
<1>6. CASE Restart
  BY <1>6, GuardAssumption DEF Restart, Quiet
<1>7. CASE PowerCycle
  BY <1>7, GuardAssumption DEF PowerCycle
<1> QED BY <1>1, <1>2, <1>3, <1>4, <1>5, <1>6, <1>7 DEF Next
\* The four invariants together hold in every reachable state.
LEMMA PromiseInductive == Spec => [](TypeInv /\ KeyInv /\ LockInv /\ AgreeInv)
<1>1. Init => TypeInv /\ KeyInv /\ LockInv /\ AgreeInv
  BY InitTypes, InitKey DEF Init, LockInv, AgreeInv, OnTrial, SnapPCs, RevertPCs
<1> QED BY <1>1, TypeStep, KeyStep, LockStep, AgreeStep, PTL DEF Spec

\* The revert promise of guard.rs, for any number of requests and changes: as
\* long as the environment kept its side, a guard at rest has the live
\* configuration the operator last agreed to.
THEOREM RevertPromise == Spec => []Settled
<1>1. TypeInv /\ LockInv /\ AgreeInv => Settled
  BY DEF TypeInv, TypeOK, LockInv, AgreeInv, OnTrial, Settled, Quiet, RevertPCs
<1> QED BY <1>1, PromiseInductive, PTL

\* The shared snapshot file holds the configuration a revert must restore for
\* as long as a change is pending or its revert is about to load it.
THEOREM SnapshotPromise == Spec => []SnapshotIsRevertTarget
<1>1. AgreeInv => SnapshotIsRevertTarget
  BY DEF AgreeInv, SnapshotIsRevertTarget
<1> QED BY <1>1, PromiseInductive, PTL

\* Only agreed configurations reach the boot configuration.
THEOREM BootPromise == Spec => []BootAccepted
<1>1. AgreeInv => BootAccepted
  BY DEF AgreeInv, BootAccepted
<1> QED BY <1>1, PromiseInductive, PTL

-----------------------------------------------------------------------------
(* The guard implements CommitConfirm                                      *)

\* Under the assumptions, every step is a step of CommitConfirm.
LEMMA PromiseStep ==
  ASSUME TypeInv, TypeInv', KeyInv, LockInv, AgreeInv, broken = {}, broken' = {},
         [Next]_vars
  PROVE  [Promise!Step]_(Promise!cvars)
<1> USE DEF TypeInv, TypeOK, LockInv, AgreeInv, OnTrial, SnapPCs, RevertPCs,
            IsPending, Goto, Commit, vyos, files, inner, ghosts, Forget, Enter, EnterBreaking,
            Promise!Step, Promise!cvars, Promise!Try, Promise!Adopt,
            Promise!Keep, Promise!Undo, Promise!Store, Promise!PowerCycle,
            Promise!Agreed
<1>1. CASE UNCHANGED vars
  BY <1>1 DEF vars
<1>2. ASSUME NEW r \in Requests, Arrive(r) PROVE [Promise!Step]_(Promise!cvars)
  <2>1. CASE \E o \in Ops : ApplyStart(r, o)
    BY <2>1 DEF ApplyStart
  <2>2. CASE \E o \in Ops, keys \in {{}, {Key}, {Foreign}} : RestoreStart(r, o, keys)
    BY <2>2 DEF RestoreStart
  <2>3. CASE \E o \in Ops, cfg \in archive : RollbackStart(r, o, cfg)
    BY <2>3 DEF RollbackStart
  <2>4. CASE \E o \in Ops : RawConfigureStart(r, o)
    BY <2>4 DEF RawConfigureStart
  <2>5. CASE RawFileStart(r)
    BY <2>5 DEF RawFileStart
  <2>6. CASE ConfirmTake(r)
    BY <2>6, GuardAssumption DEF ConfirmTake
  <2>7. CASE RevertTake(r)
    BY <2>7 DEF RevertTake
  <2> QED BY <1>2, <2>1, <2>2, <2>3, <2>4, <2>5, <2>6, <2>7 DEF Arrive
<1>3. ASSUME NEW r \in Requests, Answer(r) \/ Serve(r) PROVE [Promise!Step]_(Promise!cvars)
  <2>1. CASE LockoutCheck(r)
    BY <2>1 DEF LockoutCheck
  <2>2. CASE Graft(r)
    BY <2>2 DEF Graft
  <2>3. CASE RollbackCheck(r)
    BY <2>3 DEF RollbackCheck
  <2>4. CASE UnlinkStale(r)
    BY <2>4 DEF UnlinkStale
  <2>5. CASE SaveSnapshot(r)
    BY <2>5 DEF SaveSnapshot
  <2>6. CASE StatSnapshot(r)
    BY <2>6 DEF StatSnapshot
  <2>7. CASE Configure(r)
    BY <2>7, GuardAssumption DEF Configure
  <2>8. CASE BeginPending(r)
    BY <2>8 DEF BeginPending
  <2>9. CASE WriteLoadFile(r)
    BY <2>9 DEF WriteLoadFile
  <2>10. CASE LoadTarget(r)
    BY <2>10, GuardAssumption DEF LoadTarget
  <2>11. CASE RemoveLoadFile(r)
    BY <2>11 DEF RemoveLoadFile
  <2>12. CASE ConfirmUnlink(r)
    BY <2>12 DEF ConfirmUnlink
  <2>13. CASE ConfirmSave(r)
    BY <2>13, GuardAssumption DEF ConfirmSave
  <2>14. CASE ConfirmDone(r)
    BY <2>14 DEF ConfirmDone
  <2>15. CASE RevertLoad(r)
    BY <2>15, GuardAssumption DEF RevertLoad, LoadSnapshot
  <2>16. CASE RevertUnlink(r)
    BY <2>16 DEF RevertUnlink
  <2>17. CASE RevertFinish(r)
    BY <2>17 DEF RevertFinish, RecordOutcome
  <2>18. CASE RawConfigure(r)
    BY <2>18, GuardAssumption DEF RawConfigure
  <2>19. CASE RawSave(r)
    BY <2>19, GuardAssumption DEF RawSave
  <2>20. CASE RawLoad(r)
    BY <2>20, GuardAssumption DEF RawLoad
  <2> QED BY <1>3, <2>1, <2>2, <2>3, <2>4, <2>5, <2>6, <2>7, <2>8, <2>9, <2>10,
             <2>11, <2>12, <2>13, <2>14, <2>15, <2>16, <2>17, <2>18, <2>19, <2>20
          DEF Answer, Serve
<1>4. ASSUME NEW o \in Ops, TimerLoad(o) \/ Tick(o) PROVE [Promise!Step]_(Promise!cvars)
  <2>1. CASE Expire(o)
    BY <2>1 DEF Expire
  <2>2. CASE TimerLoad(o)
    BY <2>2, GuardAssumption DEF TimerLoad, LoadSnapshot
  <2>3. CASE TimerUnlink(o)
    BY <2>3 DEF TimerUnlink
  <2>4. CASE TimerFinish(o)
    BY <2>4 DEF TimerFinish, RecordOutcome
  <2> QED BY <1>4, <2>1, <2>2, <2>3, <2>4 DEF Tick
<1>5. ASSUME NEW r \in Requests, DropConnection(r) PROVE [Promise!Step]_(Promise!cvars)
  BY <1>5 DEF DropConnection
<1>6. CASE Restart
  BY <1>6 DEF Restart
<1>7. CASE PowerCycle
  BY <1>7, GuardAssumption DEF PowerCycle
<1> QED BY <1>1, <1>2, <1>3, <1>4, <1>5, <1>6, <1>7 DEF Next
\* A broken assumption stays on record.
LEMMA BrokenStays == [Next]_vars /\ broken' = {} => broken = {}
<1> SUFFICES ASSUME [Next]_vars, broken' = {} PROVE broken = {}
  OBVIOUS
<1>1. CASE UNCHANGED vars
  BY <1>1 DEF vars
<1>2. ASSUME NEW r \in Requests, Arrive(r) PROVE broken = {}
  BY <1>2 DEF Arrive, ApplyStart, RestoreStart, RollbackStart, RawConfigureStart, RawFileStart,
              ConfirmTake, RevertTake, Enter, EnterBreaking
<1>3. ASSUME NEW r \in Requests, Answer(r) PROVE broken = {}
  BY <1>3 DEF Answer, LockoutCheck, Graft, SaveSnapshot, Configure, LoadTarget, ConfirmSave,
              RevertLoad, LoadSnapshot, RawConfigure, RawSave, RawLoad
<1>4. ASSUME NEW r \in Requests, Serve(r) PROVE broken = {}
  BY <1>4 DEF Serve, RollbackCheck, UnlinkStale, StatSnapshot, BeginPending, WriteLoadFile,
              RemoveLoadFile, ConfirmUnlink, ConfirmDone, RevertUnlink, RevertFinish
<1>5. ASSUME NEW o \in Ops, TimerLoad(o) \/ Tick(o) PROVE broken = {}
  BY <1>5 DEF TimerLoad, LoadSnapshot, Tick, Expire, TimerUnlink, TimerFinish
<1>6. CASE (\E r \in Requests : DropConnection(r)) \/ Restart \/ PowerCycle
  BY <1>6 DEF DropConnection, Restart, PowerCycle
<1> QED BY <1>1, <1>2, <1>3, <1>4, <1>5, <1>6 DEF Next

\* The guard implements commit-confirm: for any number of requests and
\* changes, whatever handlers, timers and VyOS do as long as the assumptions
\* hold is what CommitConfirm allows.
THEOREM Refinement == Spec => ImplementsCommitConfirm
<1> DEFINE IInv == TypeInv /\ KeyInv /\ LockInv /\ AgreeInv
<1>1. Init => Promise!Start
  BY DEF Init, Promise!Start, Config, Keys
<1>2. IInv /\ IInv' /\ [Next]_vars /\ broken' = {} => broken = {} /\ [Promise!Step]_(Promise!cvars)
  BY BrokenStays, PromiseStep
<1>3. IInv /\ IInv' /\ [Next]_vars
        => [(broken = {})' => broken = {} /\ [Promise!Step]_(Promise!cvars)]_<<Promise!cvars, broken = {}>>
  BY <1>2
<1> QED BY <1>1, <1>3, PromiseInductive, PTL
        DEF Spec, ImplementsCommitConfirm, Promise!ConfirmSpec
=============================================================================
