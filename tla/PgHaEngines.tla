---------------------------- MODULE PgHaEngines ----------------------------
(***************************************************************************)
(* How far the failover attempts of a node can overshoot _MAX_ATTEMPTS     *)
(* when several of its threads have passed should_attempt before any of    *)
(* them has counted its attempt: by less than the number of its threads.   *)
(***************************************************************************)
EXTENDS PgHaTyping, FiniteSetTheorems

\* The threads of n that a trigger has started and that have not counted their
\* attempt yet.
Begun == {"fo_begin", "fo_begin_skip"}
Uncounted(n) == {t \in Thread : pc[n][t] \in Begun}

\* AttemptsBounded is not inductive: what the uncounted threads are going to add
\* has to be counted with what the others have added.
AttemptInv ==
  \A n \in Node : attempts[n] + Cardinality(Uncounted(n)) < MaxAttempts + Cardinality(Thread)

\* What almost every action does: it leaves the counters alone, and starts a
\* failover only after should_attempt.
Harmless ==
  /\ UNCHANGED attempts
  /\ \A n \in Node : ShouldAttempt(n) \/ Uncounted(n)' \subseteq Uncounted(n)

LEMMA ThreadCount ==
  ASSUME NEW S \in SUBSET Thread
  PROVE  IsFiniteSet(S) /\ Cardinality(S) \in Nat /\ Cardinality(S) <= Cardinality(Thread)
BY BoundAssumption, FS_Subset, FS_CardinalityType

LEMMA ThreadsCounted == Cardinality(Thread) \in Nat
BY BoundAssumption, FS_CardinalityType

LEMMA UncountedCount ==
  ASSUME NEW n \in Node
  PROVE  /\ IsFiniteSet(Uncounted(n))
         /\ Cardinality(Uncounted(n)) \in Nat /\ Cardinality(Uncounted(n))' \in Nat
         /\ Cardinality(Uncounted(n))' <= Cardinality(Thread)
         /\ Uncounted(n)' \subseteq Uncounted(n) =>
              Cardinality(Uncounted(n))' <= Cardinality(Uncounted(n))
<1>1. Uncounted(n) \in SUBSET Thread /\ Uncounted(n)' \in SUBSET Thread
  BY DEF Uncounted
<1>2. IsFiniteSet(Uncounted(n)) /\ Cardinality(Uncounted(n)) \in Nat
  BY <1>1, ThreadCount
<1>3. Cardinality(Uncounted(n)') \in Nat /\ Cardinality(Uncounted(n)') <= Cardinality(Thread)
  BY <1>1, ThreadCount
<1>4. ASSUME Uncounted(n)' \subseteq Uncounted(n)
      PROVE  Cardinality(Uncounted(n)') <= Cardinality(Uncounted(n))
  BY <1>2, <1>4, FS_Subset
<1> QED
  BY <1>2, <1>3, <1>4

LEMMA HarmlessKeeps ==
  ASSUME TypeOK, AttemptInv, Harmless
  PROVE  AttemptInv'
<1> SUFFICES ASSUME NEW n \in Node
             PROVE  attempts'[n] + Cardinality(Uncounted(n))' < MaxAttempts + Cardinality(Thread)
  BY DEF AttemptInv
<1>1. attempts'[n] = attempts[n] /\ attempts[n] \in Nat
  BY DEF Harmless, TypeOK, DaemonTypeOK
<1>2. CASE ShouldAttempt(n)
  <2>1. attempts[n] < MaxAttempts
    BY <1>2 DEF ShouldAttempt
  <2> QED
    BY <1>1, <2>1, UncountedCount, ThreadsCounted, BoundAssumption
<1>3. CASE Uncounted(n)' \subseteq Uncounted(n)
  <2>1. Cardinality(Uncounted(n))' <= Cardinality(Uncounted(n))
    BY <1>3, UncountedCount
  <2>2. attempts[n] + Cardinality(Uncounted(n)) < MaxAttempts + Cardinality(Thread)
    BY DEF AttemptInv
  <2> QED
    BY <1>1, <2>1, <2>2, UncountedCount, ThreadsCounted, BoundAssumption
<1> QED
  BY <1>2, <1>3 DEF Harmless

LEMMA PcStays == UNCHANGED <<pc, attempts>> => Harmless
BY DEF Harmless, Uncounted

\* One thread moves; the label it moves to decides.
LEMMA MoveHarmless ==
  ASSUME ControlTypeOK, NEW n \in Node, NEW t \in Thread, NEW label, Goto(n, t, label),
         UNCHANGED attempts, label \in Begun => ShouldAttempt(n)
  PROVE  Harmless
BY DEF ControlTypeOK, Goto, Harmless, Uncounted

\* One node starts over: even all its threads cannot add more than their number.
LEMMA ResetKeeps ==
  ASSUME TypeOK, AttemptInv, NEW n \in Node, attempts' = [attempts EXCEPT ![n] = 0],
         \A m \in Node \ {n} : pc'[m] = pc[m]
  PROVE  AttemptInv'
<1> SUFFICES ASSUME NEW m \in Node
             PROVE  attempts'[m] + Cardinality(Uncounted(m))' < MaxAttempts + Cardinality(Thread)
  BY DEF AttemptInv
<1>1. CASE m = n
  <2>1. attempts'[n] = 0
    BY DEF TypeOK, DaemonTypeOK
  <2> QED
    BY <1>1, <2>1, UncountedCount, ThreadsCounted, BoundAssumption
<1>2. CASE m # n
  <2>1. attempts'[m] = attempts[m] /\ Uncounted(m)' = Uncounted(m)
    BY <1>2 DEF Uncounted, TypeOK, DaemonTypeOK
  <2> QED
    BY <2>1 DEF AttemptInv
<1> QED
  BY <1>1, <1>2

LEMMA KillKeeps ==
  ASSUME TypeOK, AttemptInv, NEW n \in Node, KillDaemon(n)
  PROVE  AttemptInv'
<1>1. attempts' = [attempts EXCEPT ![n] = 0] /\ \A m \in Node \ {n} : pc'[m] = pc[m]
  BY DEF KillDaemon
<1> QED
  BY <1>1, ResetKeeps

---------------------------------------------------------------------------
\* Worker threads

LEMMA BeginKeeps ==
  ASSUME TypeOK, AttemptInv, NEW n \in Node, NEW t \in Thread, FoBegin(n, t)
  PROVE  AttemptInv'
<1>1. /\ attempts' = [attempts EXCEPT ![n] = @ + 1]
      /\ t \in Uncounted(n)
  BY DEF FoBegin, Uncounted, Begun
<1>2. PICK label \in {"fo_verify", "fo_attach"} : pc' = [pc EXCEPT ![n][t] = label]
  BY DEF FoBegin, Goto
<1>3. Uncounted(n)' = Uncounted(n) \ {t}
  BY <1>2 DEF TypeOK, ControlTypeOK, Uncounted, Begun
<1> SUFFICES ASSUME NEW m \in Node
             PROVE  attempts'[m] + Cardinality(Uncounted(m))' < MaxAttempts + Cardinality(Thread)
  BY DEF AttemptInv
<1>4. attempts[m] + Cardinality(Uncounted(m)) < MaxAttempts + Cardinality(Thread)
  BY DEF AttemptInv
<1>5. CASE m = n
  <2>1. Cardinality(Uncounted(n)') = Cardinality(Uncounted(n)) - 1
    BY <1>1, <1>3, UncountedCount, FS_RemoveElement
  <2>2. attempts'[n] = attempts[n] + 1 /\ attempts[n] \in Nat
    BY <1>1 DEF TypeOK, DaemonTypeOK
  <2> QED
    BY <1>4, <1>5, <2>1, <2>2, UncountedCount, ThreadsCounted, BoundAssumption
<1>6. CASE m # n
  <2>1. attempts'[m] = attempts[m] /\ Uncounted(m)' = Uncounted(m)
    BY <1>1, <1>2, <1>6 DEF Uncounted, TypeOK, DaemonTypeOK
  <2> QED
    BY <1>4, <2>1
<1> QED
  BY <1>5, <1>6

LEMMA FailoverKeeps ==
  ASSUME TypeOK, AttemptInv, NEW n \in Node, NEW t \in Thread, FailoverStep(n, t)
  PROVE  AttemptInv'
<1>1. CASE FoBegin(n, t)
  BY <1>1, BeginKeeps
<1>2. CASE FoPromote(n, t)
  <2>1. attempts' = [attempts EXCEPT ![n] = 0] /\ pc' = [pc EXCEPT ![n][t] = "idle"]
    BY <1>2 DEF FoPromote, Goto
  <2>2. \A m \in Node \ {n} : pc'[m] = pc[m]
    BY <2>1
  <2> QED
    BY <2>1, <2>2, ResetKeeps
<1>3. CASE ~FoBegin(n, t) /\ ~FoPromote(n, t)
  <2>1. UNCHANGED attempts
    BY <1>3 DEF FailoverStep, FoVerify, FoFence, FoAttach, FoReportAttached, FoMount,
                FoStartPostgres, FoAcquireVip, engineVars
  <2>2. PICK label \in FailoverPc \cup {"idle"} : Goto(n, t, label) /\ label \notin Begun
    BY <1>3 DEF FailoverStep, FoVerify, FoFence, FoAttach, FoReportAttached, FoMount,
                FoStartPostgres, FoAcquireVip, FailoverPc, Begun
  <2> QED
    BY <2>1, <2>2, MoveHarmless, HarmlessKeeps DEF TypeOK
<1> QED
  BY <1>1, <1>2, <1>3

LEMMA SwitchoverKeeps ==
  ASSUME TypeOK, AttemptInv, NEW n \in Node, NEW t \in Thread,
         DemotionStep(n, t) \/ PromotionStep(n, t)
  PROVE  AttemptInv'
<1> USE DEF engineVars
<1>1. UNCHANGED attempts
  BY DEF DemotionStep, SwBegin, SwPreCheck, SwReleaseVip, SwStopPostgres, SwUmount, SwDetach,
         SwSignalPeer, SwDemote, SwEnd, PromotionStep, PrBegin, PrAttach, PrReportAttached,
         PrMount, PrStartPostgres, PrAcquireVip, PrPromote, RbStopPostgres, RbUnmount, RbDetach,
         PrEnd
<1>2. PICK label \in DemotionPc \cup PromotionPc \cup {"idle"} : Goto(n, t, label)
  <2>1. CASE DemotionStep(n, t)
    BY <2>1 DEF DemotionStep, SwBegin, SwPreCheck, SwReleaseVip, SwStopPostgres, SwUmount,
                SwDetach, SwSignalPeer, SwDemote, SwEnd, DemotionPc
  <2>2. CASE PromotionStep(n, t)
    BY <2>2 DEF PromotionStep, PrBegin, PrAttach, PrReportAttached, PrMount, PrStartPostgres,
                PrAcquireVip, PrPromote, RbStopPostgres, RbUnmount, RbDetach, PrEnd, PromotionPc
  <2> QED
    BY <2>1, <2>2
<1>3. label \notin Begun
  BY <1>2 DEF DemotionPc, PromotionPc, Begun
<1> QED
  BY <1>1, <1>2, <1>3, MoveHarmless, HarmlessKeeps DEF TypeOK

---------------------------------------------------------------------------
\* Main thread, peer server and surroundings

\* A trigger that spawns a failover thread has asked should_attempt.
LEMMA SpawnHarmless ==
  ASSUME TypeOK, NEW n \in Node, NEW label, Spawn(n, label), UNCHANGED attempts,
         label \in Begun => ShouldAttempt(n)
  PROVE  Harmless
<1>1. PICK t \in Thread : Goto(n, t, label)
  BY DEF Spawn, TypeOK, CloudTypeOK, Scenario
<1> QED
  BY <1>1, MoveHarmless DEF TypeOK

LEMMA MainKeeps ==
  ASSUME TypeOK, AttemptInv, NEW n \in Node, MainStep(n)
  PROVE  AttemptInv'
<1> USE DEF engineVars
<1>1. CASE HandlePeerDead(n) \/ HeartbeatFallback(n)
  <2>1. /\ UNCHANGED attempts
        /\ \/ UNCHANGED pc
           \/ ShouldAttempt(n) /\ \E label \in Begun : Spawn(n, label)
    BY <1>1 DEF HandlePeerDead, HeartbeatFallback, Begun
  <2> QED
    BY <2>1, PcStays, SpawnHarmless, HarmlessKeeps
<1>2. CASE ReadGrace(n) \/ ReadFlags(n) \/ SelfDemoteStart(n) \/ SelfDemoteStep(n)
  BY <1>2, PcStays, HarmlessKeeps
     DEF ReadGrace, ReadFlags, SelfDemoteStart, SelfDemoteStep, SdReleaseVip, SdStopPostgres,
         SdKillMountUsers, SdUnmount, SdDetach, SdBecomeStandby, SdHandoff
<1>3. CASE ElectionStep(n)
  <2>1. CASE ElCompete(n) /\ KillDaemon(n)
    BY <2>1, KillKeeps
  <2>2. CASE ~(ElCompete(n) /\ KillDaemon(n))
    BY <1>3, <2>2, PcStays, HarmlessKeeps
       DEF ElectionStep, Elect, ElCompete, ElMount, ElStartPostgres, ElAcquireVip,
           ElRollbackStop, ElRollbackUnmount
  <2>3. QED
    BY <2>1, <2>2
<1>4. QED
  BY <1>1, <1>2, <1>3 DEF MainStep, FallbackStep

LEMMA ServersKeep ==
  ASSUME TypeOK, AttemptInv, NEW n \in Node, PeerServerStep(n) \/ MgmtStep(n)
  PROVE  AttemptInv'
<1> USE DEF engineVars
<1>1. CASE HandleSwitchoverRequest(n) \/ RequestSwitchover(n)
  <2>1. UNCHANGED attempts /\ \E label \in {"pr_begin", "sw_begin"} : Spawn(n, label)
    BY <1>1 DEF HandleSwitchoverRequest, RequestSwitchover
  <2> QED
    BY <2>1, SpawnHarmless, HarmlessKeeps DEF Begun
<1>2. CASE HandleHandoff(n)
  <2>1. /\ UNCHANGED attempts
        /\ UNCHANGED pc \/ (ShouldAttempt(n) /\ Spawn(n, "fo_begin_skip"))
    BY <1>2 DEF HandleHandoff
  <2> QED
    BY <2>1, PcStays, SpawnHarmless, HarmlessKeeps
<1>3. CASE HandleMaintenance(n) \/ MaintenanceOn(n) \/ MaintenanceOff(n)
  BY <1>3, PcStays, HarmlessKeeps DEF HandleMaintenance, MaintenanceOn, MaintenanceOff
<1> QED
  BY <1>1, <1>2, <1>3 DEF PeerServerStep, MgmtStep

LEMMA SurroundingsKeep ==
  ASSUME TypeOK, AttemptInv, NEW n \in Node,
         HeartbeatStep(n) \/ TimerStep(n) \/ FailureStep(n) \/ Partition \/ Heal
  PROVE  AttemptInv'
<1> USE DEF engineVars
<1>1. CASE VmCrash(n) \/ DaemonCrash(n)
  BY <1>1, KillKeeps DEF VmCrash, DaemonCrash
<1>2. CASE ~VmCrash(n) /\ ~DaemonCrash(n)
  BY <1>2, PcStays, HarmlessKeeps
     DEF HeartbeatStep, ReceiveHeartbeat, DeclarePeerDead, TimerStep, GraceExpires,
         BackoffExpires, FailureStep, PgCrash, PgIoCrash, PgLockFileMissed, VmBoot, DaemonStart,
         Partition, Heal
<1>3. QED
  BY <1>1, <1>2

LEMMA NextKeepsAttempts == TypeOK /\ AttemptInv /\ [Next]_vars => AttemptInv'
<1> SUFFICES ASSUME TypeOK, AttemptInv, [Next]_vars PROVE AttemptInv'
  OBVIOUS
<1>1. CASE UNCHANGED vars
  BY <1>1, PcStays, HarmlessKeeps DEF vars, engineVars
<1>2. ASSUME NEW n \in Node, NEW t \in Thread, WorkerStep(n, t) PROVE AttemptInv'
  BY <1>2, FailoverKeeps, SwitchoverKeeps DEF WorkerStep
<1>3. ASSUME NEW n \in Node, MainStep(n) \/ PeerServerStep(n) \/ MgmtStep(n) PROVE AttemptInv'
  BY <1>3, MainKeeps, ServersKeep
<1>4. ASSUME NEW n \in Node, HeartbeatStep(n) \/ TimerStep(n) \/ FailureStep(n) PROVE AttemptInv'
  BY <1>4, SurroundingsKeep
<1>5. CASE Partition \/ Heal
  BY <1>5, SurroundingsKeep DEF Node
<1>6. QED
  BY <1>1, <1>2, <1>3, <1>4, <1>5 DEF Next

LEMMA InitAttempts == Init \/ SteadyInit => AttemptInv
<1> SUFFICES ASSUME Init \/ SteadyInit, NEW n \in Node
             PROVE  attempts[n] + Cardinality(Uncounted(n)) < MaxAttempts + Cardinality(Thread)
  BY DEF AttemptInv
<1>1. attempts[n] = 0 /\ Uncounted(n) = {}
  BY DEF Init, SteadyInit, Uncounted, Begun
<1>2. Cardinality({}) = 0
  BY FS_EmptySet
<1> QED
  BY <1>1, <1>2, ThreadsCounted, BoundAssumption

\* For every number of threads the engine starts fewer than _MAX_ATTEMPTS plus that
\* number attempts without a success in between, whichever of its triggers fire
\* together and however its threads interleave.
THEOREM AttemptsLimited ==
  (Spec => []AttemptsBounded) /\ (SteadySpec => []AttemptsBounded)
<1>1. TypeOK /\ AttemptInv => AttemptsBounded
  <2> SUFFICES ASSUME TypeOK, AttemptInv, NEW n \in Node
               PROVE  attempts[n] < MaxAttempts + Cardinality(Thread)
    BY DEF AttemptsBounded
  <2>1. attempts[n] + Cardinality(Uncounted(n)) < MaxAttempts + Cardinality(Thread)
    BY DEF AttemptInv
  <2>2. attempts[n] \in Nat
    BY DEF TypeOK, DaemonTypeOK
  <2> QED
    BY <2>1, <2>2, UncountedCount, ThreadsCounted, BoundAssumption
<1>2. QED
  BY <1>1, InitAttempts, NextKeepsAttempts, TypeCorrect, PTL DEF Spec, SteadySpec
=============================================================================
