--------------------------- MODULE EnrollmentProofs ---------------------------
(***************************************************************************)
(* Proofs about Enrollment, for any set of tokens, any number of device    *)
(* keys and any number of attempts of the scrub: types, the daemon's copy  *)
(* of state.json, the certificates, replay safety and leftover tokens.     *)
(***************************************************************************)
EXTENDS Enrollment, TLAPS

-----------------------------------------------------------------------------
(* Type correctness                                                        *)

\* The owner that enrolls has a token; a key may still be generated when there
\* is none; the scrub has an attempt left while it is trying.
TypeInv ==
  /\ TypeOK
  /\ cpc \in {"rpc", "cert", "state"} => sess # None
  /\ key = 0 => gens < MaxKeys
  /\ spc \in {"try", "commit"} => tries < MaxAttempts

\* load_or_generate yields a key of the right type, and never none.
LEMMA LoadKeyTypes ==
  ASSUME TypeInv, LoadKey
  PROVE  key' \in 1..MaxKeys /\ gens' \in 0..MaxKeys /\ (key # 0 => key' = key)
BY EnrollmentAssumption DEF TypeInv, TypeOK, LoadKey

\* The daemon that starts reads what is on disk.
LEMMA StartTypes ==
  ASSUME TypeInv, StartDaemon
  PROVE  /\ key' \in 1..MaxKeys /\ gens' \in 0..MaxKeys
         /\ dst' \in MaybeToken /\ dpc' \in {"parked", "connecting"}
<1>1. key' \in 1..MaxKeys /\ gens' \in 0..MaxKeys
  BY LoadKeyTypes DEF StartDaemon
<1> QED BY <1>1 DEF StartDaemon, TypeInv, TypeOK

\* A step of the owner inside a commit keeps the types.
LEMMA CommitTypes == TypeInv /\ CommitStep => TypeInv'
<1> SUFFICES ASSUME TypeInv, CommitStep PROVE TypeInv'
  OBVIOUS
<1> USE EnrollmentAssumption
        DEF TypeInv, TypeOK, MaybeToken, Cert, Troubles, Breaks, config, commit, identity, store, daemon, scrub, ghosts
<1>1. CASE Decide
  <2>1. CASE cpc' = "rpc"
    <3>1. key' \in 1..MaxKeys /\ gens' \in 0..MaxKeys
      BY <1>1, <2>1, LoadKeyTypes DEF Decide
    <3> QED BY <1>1, <2>1, <3>1 DEF Decide
  <2>2. CASE cpc' # "rpc"
    BY <1>1, <2>2 DEF Decide
  <2> QED BY <2>1, <2>2
<1>2. CASE Enroll
  BY <1>2 DEF Enroll
<1>3. CASE SaveCertificates
  BY <1>3 DEF SaveCertificates
<1>4. CASE SaveState
  BY <1>4 DEF SaveState
<1>5. CASE BumpTrigger
  <2>1. trig' \in BOOLEAN
    BY <1>5, Zenon DEF BumpTrigger
  <2>2. broken' \subseteq Troubles
    BY <1>5 DEF BumpTrigger
  <2>3. UNCHANGED <<config, sess, who, ckey, store, consumed, daemon, scrub, ghosts>> /\ cpc' = "restart"
    BY <1>5 DEF BumpTrigger
  <2> QED BY <2>1, <2>2, <2>3
<1>6. CASE RestartDaemon
  <2>1. CASE Stopped
    BY <1>6, <2>1 DEF RestartDaemon
  <2>2. CASE ~Stopped
    <3>1. /\ key' \in 1..MaxKeys /\ gens' \in 0..MaxKeys
          /\ dst' \in MaybeToken /\ dpc' \in {"parked", "connecting"}
      BY <1>6, <2>2, StartTypes DEF RestartDaemon
    <3> QED BY <1>6, <3>1 DEF RestartDaemon
  <2> QED BY <2>1, <2>2
<1>7. CASE FinishCommit
  BY <1>7 DEF FinishCommit
<1>8. CASE AbortCommit
  BY <1>8 DEF AbortCommit
<1> QED BY <1>1, <1>2, <1>3, <1>4, <1>5, <1>6, <1>7, <1>8 DEF CommitStep

\* A step of the scrub keeps the types.
LEMMA ScrubTypes == TypeInv /\ ScrubStep => TypeInv'
<1> SUFFICES ASSUME TypeInv, ScrubStep PROVE TypeInv'
  OBVIOUS
<1> USE EnrollmentAssumption
        DEF TypeInv, TypeOK, MaybeToken, Cert, Troubles, Breaks, config, commit, identity, store, daemon, scrub, ghosts
<1>1. CASE ScrubStart
  <2>1. trig' \in BOOLEAN
    BY <1>1, Zenon DEF ScrubStart
  <2>2. ops' \subseteq {"delete", "set"} /\ tries' = 0 /\ spc' \in {"idle", "try"} /\ broken' \subseteq Troubles
    BY <1>1 DEF ScrubStart
  <2>3. UNCHANGED <<config, commit, store, consumed, daemon, ghosts>>
    BY <1>1 DEF ScrubStart
  <2> QED BY <2>1, <2>2, <2>3
<1>2. CASE ScrubAttemptFails
  BY <1>2 DEF ScrubAttemptFails
<1>3. CASE ScrubCommit
  BY <1>3 DEF ScrubCommit
<1>4. CASE ScrubRetry
  BY <1>4 DEF ScrubRetry
<1>5. CASE ScrubSave
  BY <1>5 DEF ScrubSave
<1> QED BY <1>1, <1>2, <1>3, <1>4, <1>5 DEF ScrubStep

\* So does a step of the daemon, of an operator or of power.
LEMMA OtherTypes ==
  ASSUME TypeInv,
         \/ \E t \in MaybeToken : UserCommit(t)
         \/ UserSave \/ Connect \/ LoseChannel \/ RenewStart \/ RenewStep
         \/ RegenerateWipe \/ RegenerateForget \/ RegenerateStart
         \/ DaemonCrash \/ PowerCycle
  PROVE  TypeInv'
<1> USE EnrollmentAssumption
        DEF TypeInv, TypeOK, MaybeToken, Cert, Troubles, Breaks, config, commit, identity, store, daemon, scrub, ghosts
<1>1. ASSUME NEW t \in MaybeToken, UserCommit(t) PROVE TypeInv'
  BY <1>1 DEF UserCommit
<1>2. CASE UserSave
  BY <1>2 DEF UserSave
<1>3. CASE Connect \/ LoseChannel \/ RenewStart
  <2>1. CASE Connect
    BY <2>1 DEF Connect
  <2>2. CASE LoseChannel
    BY <2>2 DEF LoseChannel
  <2>3. CASE RenewStart
    BY <2>3 DEF RenewStart
  <2> QED BY <1>3, <2>1, <2>2, <2>3
<1>4. CASE RenewStep
  <2>1. CASE RenewCert
    <3>1. cert' \in Cert
      BY <2>1 DEF RenewCert
    <3>3. dpc' \in {"rstate", "connecting"} /\ broken' \subseteq Troubles
      BY <2>1 DEF RenewCert
    <3>2. UNCHANGED <<config, commit, st, identity, consumed, dst, scrub, trig, ghosts>>
      BY <2>1 DEF RenewCert
    <3> QED BY <3>1, <3>2, <3>3
  <2>2. CASE RenewState
    BY <2>2 DEF RenewState
  <2> QED BY <1>4, <2>1, <2>2 DEF RenewStep
<1>5. CASE RegenerateWipe
  BY <1>5 DEF RegenerateWipe, NoCert
<1>10. CASE RegenerateForget
  BY <1>10 DEF RegenerateForget
<1>6. ASSUME StartDaemon
      PROVE  /\ key' \in 1..MaxKeys /\ gens' \in 0..MaxKeys
             /\ dst' \in MaybeToken /\ dpc' \in {"parked", "connecting"}
  BY <1>6, StartTypes
<1>7. CASE RegenerateStart
  BY <1>6, <1>7 DEF RegenerateStart
<1>8. CASE DaemonCrash
  BY <1>6, <1>8 DEF DaemonCrash
<1>9. CASE PowerCycle
  <2>1. trig' \in BOOLEAN
    BY <1>9, Zenon DEF PowerCycle
  <2>2. /\ active' = None /\ sess' = boot /\ who' = "boot" /\ cpc' \in {"idle", "decide"}
        /\ spc' = "idle" /\ broken' \subseteq Troubles
    BY <1>9 DEF PowerCycle
  <2>3. UNCHANGED <<boot, ckey, st, cert, consumed, ops, tries, ghosts>>
    BY <1>9 DEF PowerCycle
  <2>4. /\ key' \in 1..MaxKeys /\ gens' \in 0..MaxKeys
        /\ dst' \in MaybeToken /\ dpc' \in {"parked", "connecting"}
    BY <1>6, <1>9 DEF PowerCycle
  <2> QED BY <2>1, <2>2, <2>3, <2>4
<1> QED BY <1>1, <1>2, <1>3, <1>4, <1>5, <1>7, <1>8, <1>9, <1>10

\* Every step keeps the types.
LEMMA NextTypes == TypeInv /\ [Next]_vars => TypeInv'
<1> SUFFICES ASSUME TypeInv, [Next]_vars PROVE TypeInv'
  OBVIOUS
<1>1. CASE Next
  BY <1>1, CommitTypes, ScrubTypes, OtherTypes DEF Next
<1>2. CASE UNCHANGED vars
  BY <1>2 DEF vars, config, commit, store, identity, daemon, scrub, ghosts, TypeInv, TypeOK
<1> QED BY <1>1, <1>2

\* The agent starts well typed.
LEMMA InitTypes == Init => TypeInv
<1>1. Init => trig \in BOOLEAN
  BY Zenon DEF Init
<1> QED BY <1>1, EnrollmentAssumption DEF Init, TypeInv, TypeOK, MaybeToken, Cert, NoCert, Troubles

\* The files, the processes and the configuration keep their types: keys are
\* not generated past the bound, and only tokens are enrolled with.
THEOREM TypeCorrect == Spec => []TypeOK
<1>1. TypeInv => TypeOK
  BY DEF TypeInv
<1> QED BY <1>1, InitTypes, NextTypes, PTL DEF Spec

-----------------------------------------------------------------------------
(* The daemon's copy of state.json                                         *)

\* Only between the save of an enrollment and the restart that follows it may
\* the daemon work from an older state than the one on disk.
DaemonInv == ~Stopped /\ cpc \notin {"bump", "restart"} => dst = st

\* The daemon is restarted before a commit that enrolled is over.
LEMMA NextDaemon == DaemonInv /\ [Next]_vars => DaemonInv'
<1> SUFFICES ASSUME DaemonInv, [Next]_vars PROVE DaemonInv'
  OBVIOUS
<1> USE DEF DaemonInv, Stopped, config, commit, identity, store, daemon, scrub, ghosts
<1>1. ASSUME NEW t \in MaybeToken, UserCommit(t) PROVE DaemonInv'
  BY <1>1 DEF UserCommit
<1>2. CASE Decide \/ Enroll \/ SaveCertificates
  BY <1>2 DEF Decide, Enroll, SaveCertificates
<1>3. CASE SaveState
  BY <1>3 DEF SaveState
<1>4. CASE BumpTrigger
  BY <1>4 DEF BumpTrigger
<1>5. CASE RestartDaemon
  BY <1>5 DEF RestartDaemon, StartDaemon
<1>6. CASE FinishCommit \/ AbortCommit \/ UserSave
  BY <1>6 DEF FinishCommit, AbortCommit, UserSave
<1>7. CASE ScrubStart
  BY <1>7 DEF ScrubStart
<1>8. CASE ScrubAttemptFails \/ ScrubCommit
  BY <1>8 DEF ScrubAttemptFails, ScrubCommit
<1>9. CASE ScrubRetry \/ ScrubSave
  BY <1>9 DEF ScrubRetry, ScrubSave
<1>10. CASE Connect \/ LoseChannel \/ RenewStart
  BY <1>10 DEF Connect, LoseChannel, RenewStart
<1>11. CASE RenewCert
  BY <1>11 DEF RenewCert
<1>12. CASE RenewState
  BY <1>12 DEF RenewState
<1>13. CASE RegenerateWipe \/ RegenerateForget
  BY <1>13 DEF RegenerateWipe, RegenerateForget
<1>14. CASE RegenerateStart \/ DaemonCrash \/ PowerCycle
  BY <1>14 DEF RegenerateStart, DaemonCrash, PowerCycle, StartDaemon
<1>15. CASE UNCHANGED vars
  BY <1>15 DEF vars
<1> QED BY <1>1, <1>2, <1>3, <1>4, <1>5, <1>6, <1>7, <1>8, <1>9, <1>10, <1>11, <1>12, <1>13, <1>14, <1>15 DEF Next, CommitStep, ScrubStep, RenewStep

\* Outside commits the daemon works from the state on disk, in every
\* interleaving of commits, renewals, regenerations, crashes and power cycles.
THEOREM DaemonFollows == Spec => []DaemonCurrent
<1>1. Init => DaemonInv
  BY DEF Init, DaemonInv
<1>2. DaemonInv => DaemonCurrent
  BY DEF DaemonInv, DaemonCurrent
<1> QED BY <1>1, <1>2, NextDaemon, PTL DEF Spec

-----------------------------------------------------------------------------
(* Certificates and replay                                                 *)

\* What has gone wrong stays on record.
LEMMA BrokenGrows == [Next]_vars => broken \subseteq broken'
BY DEF Next, CommitStep, ScrubStep, RenewStep, vars, Breaks, UserCommit, UserSave, Decide, Enroll, SaveCertificates,
       SaveState, BumpTrigger, RestartDaemon, FinishCommit, AbortCommit, ScrubStart, ScrubAttemptFails,
       ScrubCommit, ScrubRetry, ScrubSave, Connect, LoseChannel, RenewStart, RenewCert, RenewState,
       RegenerateWipe, RegenerateForget, RegenerateStart, DaemonCrash, PowerCycle

\* Nothing came between two writes of an enrollment or of a renewal.
Quiet == broken \cap {"race", "regen", "power"} = {}

\* A daemon that runs has a key.
KeyInv == ~Stopped => key # 0

\* What is recorded is the last enrollment, and it has the key it was made with
\* unless that has just been wiped.
Recorded == st = latest /\ (st # None /\ dpc # "wiped" => key # 0)

\* An enrollment goes on with the key it started with, and not with the token
\* that state.json records.
Enrolling ==
  /\ cpc \in {"rpc", "cert", "state"} => ckey = key /\ key # 0
  /\ cpc \in {"rpc", "cert", "state"} => sess # latest

\* Between its two saves an enrollment, or a renewal, is alone.
MidEnroll == cpc = "state" => dpc # "rstate" /\ cert = [tok |-> sess, key |-> ckey]
MidRenew == dpc = "rstate" => st = dst /\ cert = [tok |-> dst, key |-> key]
Settled == BetweenSaves => cert.tok = st /\ (st # None => cert.key = key)

\* Between the two removals of `regenerate` only a new enrollment writes a
\* certificate, and then its state.
MidWipe == dpc = "wiped" /\ cpc # "state" => cert.tok \in {None, st}

CertInv == Quiet => Recorded /\ Enrolling /\ MidEnroll /\ MidRenew /\ Settled /\ MidWipe

\* A daemon that starts generates the key it does not find.
LEMMA NextKey == TypeInv /\ KeyInv /\ [Next]_vars => KeyInv'
<1> SUFFICES ASSUME TypeInv, KeyInv, [Next]_vars PROVE KeyInv'
  OBVIOUS
<1> USE DEF KeyInv, Stopped, config, commit, identity, store, daemon, scrub, ghosts
<1>0. ASSUME LoadKey PROVE key' # 0
  BY <1>0, LoadKeyTypes
<1>1. ASSUME NEW t \in MaybeToken, UserCommit(t) PROVE KeyInv'
  BY <1>1 DEF UserCommit
<1>2. CASE Decide
  BY <1>0, <1>2 DEF Decide
<1>3. CASE Enroll \/ SaveCertificates \/ SaveState \/ BumpTrigger
  BY <1>3 DEF Enroll, SaveCertificates, SaveState, BumpTrigger
<1>4. CASE RestartDaemon
  BY <1>0, <1>4 DEF RestartDaemon, StartDaemon
<1>5. CASE FinishCommit \/ AbortCommit \/ UserSave
  BY <1>5 DEF FinishCommit, AbortCommit, UserSave
<1>6. CASE ScrubStart \/ ScrubAttemptFails \/ ScrubCommit \/ ScrubRetry \/ ScrubSave
  BY <1>6 DEF ScrubStart, ScrubAttemptFails, ScrubCommit, ScrubRetry, ScrubSave
<1>7. CASE Connect \/ LoseChannel \/ RenewStart \/ RenewCert \/ RenewState
  BY <1>7 DEF Connect, LoseChannel, RenewStart, RenewCert, RenewState
<1>8. CASE RegenerateWipe \/ RegenerateForget
  BY <1>8 DEF RegenerateWipe, RegenerateForget
<1>9. CASE RegenerateStart \/ DaemonCrash \/ PowerCycle
  BY <1>0, <1>9 DEF RegenerateStart, DaemonCrash, PowerCycle, StartDaemon
<1>10. CASE UNCHANGED vars
  BY <1>10 DEF vars
<1> QED BY <1>1, <1>2, <1>3, <1>4, <1>5, <1>6, <1>7, <1>8, <1>9, <1>10 DEF Next, CommitStep, ScrubStep, RenewStep

\* An undisturbed step keeps the certificates and the record together.
LEMMA NextCert == TypeInv /\ KeyInv /\ CertInv /\ [Next]_vars => CertInv'
<1> DEFINE Kept == Recorded /\ Enrolling /\ MidEnroll /\ MidRenew /\ Settled /\ MidWipe
<1> SUFFICES ASSUME TypeInv, KeyInv, CertInv, [Next]_vars, Quiet' PROVE Kept'
  BY DEF CertInv
<1>0. Quiet /\ Kept
  BY BrokenGrows DEF CertInv, Quiet
<1>00. ASSUME LoadKey PROVE key' # 0 /\ (key # 0 => key' = key)
  BY <1>00, LoadKeyTypes
<1> USE <1>0, EnrollmentAssumption DEF KeyInv, Stopped, Recorded, Enrolling, MidEnroll, MidRenew, Settled, MidWipe, BetweenSaves, config, commit, identity, store, daemon, scrub, ghosts
<1>1. ASSUME NEW t \in MaybeToken, UserCommit(t) PROVE Kept'
  BY <1>1 DEF UserCommit
<1>2. CASE Decide
  BY <1>00, <1>2 DEF Decide
<1>3. CASE Enroll
  BY <1>3 DEF Enroll
<1>4. CASE SaveCertificates
  BY <1>4 DEF SaveCertificates, Breaks, Quiet
<1>5. CASE SaveState
  BY <1>5 DEF SaveState
<1>6. CASE BumpTrigger
  BY <1>6 DEF BumpTrigger
<1>7. CASE RestartDaemon
  BY <1>00, <1>7 DEF RestartDaemon, StartDaemon
<1>8. CASE FinishCommit
  BY <1>8 DEF FinishCommit
<1>9. CASE AbortCommit
  BY <1>9 DEF AbortCommit
<1>10. CASE UserSave
  BY <1>10 DEF UserSave
<1>11. CASE ScrubStart
  BY <1>11 DEF ScrubStart
<1>12. CASE ScrubAttemptFails
  BY <1>12 DEF ScrubAttemptFails
<1>13. CASE ScrubCommit
  BY <1>13 DEF ScrubCommit
<1>14. CASE ScrubRetry
  BY <1>14 DEF ScrubRetry
<1>15. CASE ScrubSave
  BY <1>15 DEF ScrubSave
<1>16. CASE Connect
  BY <1>16 DEF Connect
<1>17. CASE LoseChannel
  BY <1>17 DEF LoseChannel
<1>18. CASE RenewStart
  BY <1>18 DEF RenewStart
<1>19. CASE RenewCert
  BY <1>19 DEF RenewCert, Breaks, Quiet
<1>20. CASE RenewState
  BY <1>20 DEF RenewState
<1>21. CASE RegenerateWipe
  BY <1>21 DEF RegenerateWipe, Breaks, Quiet, NoCert
<1>22. CASE RegenerateStart
  BY <1>00, <1>22 DEF RegenerateStart, StartDaemon
<1>23. CASE DaemonCrash
  BY <1>00, <1>23 DEF DaemonCrash, StartDaemon, Breaks, Quiet
<1>24. CASE PowerCycle
  BY <1>00, <1>24 DEF PowerCycle, StartDaemon, Breaks, Quiet
<1>25. CASE UNCHANGED vars
  BY <1>25 DEF vars
<1>26. CASE RegenerateForget
  BY <1>26 DEF RegenerateForget, Breaks, Quiet, TypeInv
<1> QED BY <1>1, <1>2, <1>3, <1>4, <1>5, <1>6, <1>7, <1>8, <1>9, <1>10, <1>11, <1>12, <1>13, <1>14, <1>15, <1>16, <1>17, <1>18, <1>19, <1>20, <1>21, <1>22, <1>23, <1>24, <1>25, <1>26 DEF Next, CommitStep, ScrubStep, RenewStep

\* The agent starts unenrolled, with a key.
LEMMA InitCert == Init => KeyInv /\ CertInv
BY DEF Init, KeyInv, Stopped, CertInv, Recorded, Enrolling, MidEnroll, MidRenew, Settled, MidWipe, NoCert

\* Between saves the certificate, the trust anchors and state.json belong to one
\* enrollment of the present device key.
THEOREM CertificatesMatch == Spec => []CertsMatchState
<1>1. CertInv => CertsMatchState
  BY DEF CertInv, Quiet, Settled, CertsMatchState
<1> QED BY <1>1, InitTypes, NextTypes, InitCert, NextKey, NextCert, PTL DEF Spec

\* A boot configuration that still carries the token of the last enrollment does
\* not start that enrollment again.
THEOREM NoReplay == Spec => []ReplaySafe
<1>1. CertInv => ReplaySafe
  BY DEF CertInv, Quiet, Enrolling, ReplaySafe
<1> QED BY <1>1, InitTypes, NextTypes, InitCert, NextKey, NextCert, PTL DEF Spec

-----------------------------------------------------------------------------
(* Leftover tokens                                                         *)

\* A commit that has passed its owner carries no consumed token but the one that
\* is recorded; before that, the running configuration does not.
LeftoverInv ==
  Quiet => IF cpc \in {"bump", "restart", "finish"}
           THEN sess \in done => st = sess
           ELSE active \in done => st = active

\* Enrollments, scrubs, renewals and regenerations record the token they leave.
LEMMA NextLeftover == TypeInv /\ CertInv /\ LeftoverInv /\ [Next]_vars => LeftoverInv'
<1> SUFFICES ASSUME TypeInv, CertInv, LeftoverInv, [Next]_vars, Quiet' PROVE LeftoverInv'
  BY DEF LeftoverInv
<1>0. Quiet /\ Recorded /\ MidRenew
  BY BrokenGrows DEF CertInv, Quiet
<1>00. None \notin done
  BY EnrollmentAssumption DEF TypeInv, TypeOK
<1> USE <1>0, <1>00 DEF LeftoverInv, config, commit, identity, store, daemon, scrub, ghosts
<1>1. ASSUME NEW t \in MaybeToken, UserCommit(t) PROVE LeftoverInv'
  BY <1>1 DEF UserCommit
<1>2. CASE Decide
  BY <1>2 DEF Decide
<1>3. CASE Enroll \/ SaveCertificates
  BY <1>3 DEF Enroll, SaveCertificates
<1>4. CASE SaveState
  BY <1>4 DEF SaveState
<1>5. CASE BumpTrigger
  BY <1>5 DEF BumpTrigger
<1>6. CASE RestartDaemon
  BY <1>6 DEF RestartDaemon
<1>7. CASE FinishCommit
  BY <1>7 DEF FinishCommit
<1>8. CASE AbortCommit \/ UserSave
  BY <1>8 DEF AbortCommit, UserSave
<1>9. CASE ScrubStart
  BY <1>9 DEF ScrubStart
<1>10. CASE ScrubAttemptFails \/ ScrubCommit
  BY <1>10 DEF ScrubAttemptFails, ScrubCommit
<1>11. CASE ScrubRetry \/ ScrubSave
  BY <1>11 DEF ScrubRetry, ScrubSave
<1>12. CASE Connect \/ LoseChannel \/ RenewStart
  BY <1>12 DEF Connect, LoseChannel, RenewStart
<1>13. CASE RenewCert
  BY <1>13 DEF RenewCert
<1>14. CASE RenewState
  BY <1>14 DEF RenewState, MidRenew
<1>15. CASE RegenerateWipe
  BY <1>15 DEF RegenerateWipe
<1>16. CASE RegenerateForget
  BY <1>16 DEF RegenerateForget
<1>17. CASE RegenerateStart \/ DaemonCrash
  BY <1>17 DEF RegenerateStart, DaemonCrash
<1>18. CASE PowerCycle
  BY <1>18 DEF PowerCycle
<1>19. CASE UNCHANGED vars
  BY <1>19 DEF vars
<1> QED BY <1>1, <1>2, <1>3, <1>4, <1>5, <1>6, <1>7, <1>8, <1>9, <1>10, <1>11, <1>12, <1>13, <1>14, <1>15, <1>16, <1>17, <1>18, <1>19 DEF Next, CommitStep, ScrubStep, RenewStep

\* However scrubs start, fail or are missed, a consumed token left in the running
\* configuration is the recorded one: nobody enrolls with it again, and the next
\* commit or boot with it arms the scrub.
THEOREM LeftoverRecognised == Spec => []LeftoverKnown
<1>1. Init => LeftoverInv
  BY DEF Init, LeftoverInv
<1>2. LeftoverInv => LeftoverKnown
  BY DEF LeftoverInv, Quiet, LeftoverKnown
<1> QED BY <1>1, <1>2, InitTypes, NextTypes, InitCert, NextKey, NextCert, NextLeftover, PTL DEF Spec
=============================================================================
