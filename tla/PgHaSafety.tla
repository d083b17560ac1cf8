----------------------------- MODULE PgHaSafety -----------------------------
(***************************************************************************)
(* Safety theorems about the composed daemons that hold for every choice   *)
(* of the constants: any number of worker threads, any timing, any faults. *)
(***************************************************************************)
EXTENDS PgHaTyping

---------------------------------------------------------------------------
\* Every step of the system, seen by the disk: one call of DiskManager, the
\* death of a PostgreSQL, or nothing.

PostgresDies(n) == PgCrash(n) \/ PgIoCrash(n) \/ PgLockFileMissed(n) \/ VmCrash(n)
DiskUntouched == UNCHANGED <<holder, fs, pg>>
DiskStep == \/ \E n \in Node, ok \in BOOLEAN : DiskCall(n, ok)
            \/ \E n \in Node : PostgresDies(n)
            \/ DiskUntouched

LEMMA WorkerDiskStep ==
  ASSUME NEW n \in Node, NEW t \in Thread, WorkerStep(n, t)
  PROVE  DiskStep
<1> USE PeerTyping DEF DiskStep, DiskUntouched, DiskCall, resVars
<1>1. CASE FailoverStep(n, t)
  <2>1. CASE FoFence(n, t) \/ FoAttach(n, t) \/ FoMount(n, t) \/ FoStartPostgres(n, t)
    BY <2>1 DEF FoFence, FoAttach, FoMount, FoStartPostgres
  <2>2. CASE \/ FoBegin(n, t) \/ FoVerify(n, t) \/ FoReportAttached(n, t)
             \/ FoAcquireVip(n, t) \/ FoPromote(n, t)
    BY <2>2 DEF FoBegin, FoVerify, InstanceStatus, FoReportAttached, FoAcquireVip, AcquireVip,
                FoPromote, DiskStays
  <2>3. QED
    BY <1>1, <2>1, <2>2 DEF FailoverStep
<1>2. CASE DemotionStep(n, t)
  <2>1. CASE SwStopPostgres(n, t) \/ SwUmount(n, t) \/ SwDetach(n, t)
    BY <2>1 DEF SwStopPostgres, SwUmount, SwDetach
  <2>2. CASE \/ SwBegin(n, t) \/ SwPreCheck(n, t) \/ SwReleaseVip(n, t)
             \/ SwSignalPeer(n, t) \/ SwDemote(n, t) \/ SwEnd(n, t)
    BY <2>2 DEF SwBegin, SwPreCheck, SwReleaseVip, ReleaseVip, SwSignalPeer, SwDemote, SwEnd,
                DiskStays
  <2>3. QED
    BY <1>2, <2>1, <2>2 DEF DemotionStep
<1>3. CASE PromotionStep(n, t)
  <2>1. CASE \/ PrAttach(n, t) \/ PrMount(n, t) \/ PrStartPostgres(n, t)
             \/ RbStopPostgres(n, t) \/ RbUnmount(n, t) \/ RbDetach(n, t)
    BY <2>1 DEF PrAttach, PrMount, PrStartPostgres, RbStopPostgres, RbUnmount, RbDetach
  <2>2. CASE \/ PrBegin(n, t) \/ PrReportAttached(n, t) \/ PrAcquireVip(n, t)
             \/ PrPromote(n, t) \/ PrEnd(n, t)
    BY <2>2 DEF PrBegin, CurrentRwHolder, PrReportAttached, PrAcquireVip, AcquireVip, PrPromote,
                PrEnd, DiskStays
  <2>3. QED
    BY <1>3, <2>1, <2>2 DEF PromotionStep
<1>4. QED
  BY <1>1, <1>2, <1>3 DEF WorkerStep

LEMMA MainDiskStep ==
  ASSUME NEW n \in Node, MainStep(n)
  PROVE  DiskStep
<1> USE DEF DiskStep, DiskUntouched, DiskCall, resVars
<1>1. CASE ElectionStep(n)
  <2>1. CASE \/ ElCompete(n) \/ ElMount(n) \/ ElStartPostgres(n)
             \/ ElRollbackStop(n) \/ ElRollbackUnmount(n)
    BY <2>1 DEF ElCompete, ElMount, ElStartPostgres, ElRollbackStop, ElRollbackUnmount
  <2>2. CASE Elect(n) \/ ElAcquireVip(n)
    BY <2>2 DEF Elect, CurrentRwHolder, ElAcquireVip, AcquireVip, DiskStays
  <2>3. QED
    BY <1>1, <2>1, <2>2 DEF ElectionStep
<1>2. CASE SelfDemoteStep(n)
  <2>1. CASE SdStopPostgres(n) \/ SdKillMountUsers(n) \/ SdUnmount(n) \/ SdDetach(n)
    BY <2>1 DEF SdStopPostgres, SdKillMountUsers, SdUnmount, SdDetach
  <2>2. CASE SdReleaseVip(n) \/ SdBecomeStandby(n) \/ SdHandoff(n)
    BY <2>2 DEF SdReleaseVip, ReleaseVip, SdBecomeStandby, SdHandoff, DiskStays
  <2>3. QED
    BY <1>2, <2>1, <2>2 DEF SelfDemoteStep
<1>3. CASE HandlePeerDead(n) \/ FallbackStep(n) \/ SelfDemoteStart(n)
  BY <1>3 DEF HandlePeerDead, FallbackStep, ReadGrace, ReadFlags, HeartbeatFallback,
              SelfDemoteStart
<1>4. QED
  BY <1>1, <1>2, <1>3 DEF MainStep

LEMMA EveryDiskStep == [Next]_vars => DiskStep
<1> SUFFICES ASSUME [Next]_vars PROVE DiskStep
  OBVIOUS
<1>1. CASE UNCHANGED vars \/ Partition \/ Heal
  BY <1>1 DEF DiskStep, DiskUntouched, vars, resVars, Partition, Heal
<1>2. ASSUME NEW n \in Node, NEW t \in Thread, WorkerStep(n, t) PROVE DiskStep
  BY <1>2, WorkerDiskStep
<1>3. ASSUME NEW n \in Node, MainStep(n) PROVE DiskStep
  BY <1>3, MainDiskStep
<1>4. ASSUME NEW n \in Node, PeerServerStep(n) \/ MgmtStep(n) PROVE DiskStep
  BY <1>4 DEF DiskStep, DiskUntouched, resVars, PeerServerStep, HandleSwitchoverRequest,
              HandleHandoff, HandleMaintenance, MgmtStep, RequestSwitchover, MaintenanceOn,
              MaintenanceOff
<1>5. ASSUME NEW n \in Node, HeartbeatStep(n) \/ TimerStep(n) PROVE DiskStep
  BY <1>5 DEF DiskStep, DiskUntouched, resVars, HeartbeatStep, ReceiveHeartbeat,
              DeclarePeerDead, TimerStep, GraceExpires, BackoffExpires
<1>6. ASSUME NEW n \in Node, FailureStep(n) PROVE DiskStep
  BY <1>6 DEF DiskStep, DiskUntouched, PostgresDies, resVars, FailureStep, VmBoot, DaemonCrash,
              DaemonStart
<1>7. QED
  BY <1>1, <1>2, <1>3, <1>4, <1>5, <1>6 DEF Next

---------------------------------------------------------------------------
\* One writer

\* The disk is where the live mount and the writing PostgreSQL are.  SingleWriter
\* alone is not inductive: start_postgres looks at the mount, not at the cloud.
WriterInv == \A n \in Node : /\ fs[n] = "live" => holder = n
                             /\ Writing(n) => holder = n

LEMMA MoveKeepsWriter ==
  ASSUME CloudTypeOK, WriterInv, NEW h \in Node \cup {NoNode}, MoveDisk(h)
  PROVE  WriterInv'
BY DEF CloudTypeOK, WriterInv, MoveDisk, Writing

LEMMA DiskCallKeepsWriter ==
  ASSUME CloudTypeOK, WriterInv, NEW n \in Node, NEW ok \in BOOLEAN, DiskCall(n, ok)
  PROVE  WriterInv'
<1> USE DEF CloudTypeOK, Writing
<1>1. CASE DiskStays
  BY <1>1 DEF WriterInv, DiskStays
<1>2. CASE AttachDiskRw(n, ok) \/ DetachFrom(n, ok)
  BY <1>1, <1>2, MoveKeepsWriter DEF AttachDiskRw, DetachFrom
<1>3. CASE MountDisk(n, ok)
  BY <1>3 DEF WriterInv, MountDisk
<1>4. CASE UnmountDisk(n, ok)
  BY <1>4 DEF WriterInv, UnmountDisk
<1>5. CASE StartPostgres(n, ok) \/ StartWithRetries(n, ok)
  <2>1. PICK left \in SUBSET Postmaster : StartServer(n, ok, left)
    BY <1>5 DEF StartPostgres, StartWithRetries, Postmaster
  <2>2. UNCHANGED <<holder, fs>> /\ (UNCHANGED pg \/ fs[n] = "live")
    BY <2>1 DEF StartServer
  <2>3. \A m \in Node \ {n} : pg'[m] = pg[m]
    BY <2>1 DEF StartServer
  <2> QED
    BY <2>2, <2>3 DEF WriterInv
<1>6. CASE StopPostgres(n, ok)
  BY <1>6 DEF WriterInv, StopPostgres
<1>7. CASE KillMountUsers(n)
  BY <1>7 DEF WriterInv, KillMountUsers
<1>8. QED
  BY <1>2, <1>3, <1>4, <1>5, <1>6, <1>7 DEF DiskCall

LEMMA NextKeepsWriter == TypeOK /\ WriterInv /\ [Next]_vars => WriterInv'
<1> SUFFICES ASSUME TypeOK, WriterInv, [Next]_vars PROVE WriterInv'
  OBVIOUS
<1>1. CASE DiskUntouched
  BY <1>1 DEF DiskUntouched, WriterInv, Writing
<1>2. ASSUME NEW n \in Node, NEW ok \in BOOLEAN, DiskCall(n, ok) PROVE WriterInv'
  BY <1>2, DiskCallKeepsWriter DEF TypeOK
<1>3. ASSUME NEW n \in Node, PostgresDies(n) PROVE WriterInv'
  BY <1>3 DEF PostgresDies, PgCrash, PgIoCrash, PgLockFileMissed, VmCrash, WriterInv, Writing,
              TypeOK, CloudTypeOK
<1>4. QED
  BY <1>1, <1>2, <1>3, EveryDiskStep DEF DiskStep

\* At most one PostgreSQL can write, for any number of worker threads, any
\* timing and any combination of failures.
THEOREM OneWriter == (Spec => []SingleWriter) /\ (SteadySpec => []SingleWriter)
<1>1. Init \/ SteadyInit => WriterInv
  BY DEF Init, SteadyInit, WriterInv, Writing, Node
<1>2. TypeOK /\ WriterInv /\ [Next]_vars => WriterInv'
  BY NextKeepsWriter
<1>3. WriterInv => SingleWriter
  BY DEF WriterInv, SingleWriter
<1>4. QED
  BY <1>1, <1>2, <1>3, TypeCorrect, PTL DEF Spec, SteadySpec

---------------------------------------------------------------------------
\* The disk's promise: DiskOwnership under the mapping of PgHaProperties

LEMMA StartsOwned == Init \/ SteadyInit => Disk!Init
<1> USE DEF Server, Writing
<1>1. ASSUME Init PROVE Disk!Init
  <2>1. Server = [h \in Node |-> IF h \in {} THEN "on" ELSE "off"] /\ holder = NoNode
    BY <1>1 DEF Init
  <2>2. {} \in SUBSET (Node \cap {holder})
    OBVIOUS
  <2>3. QED
    BY <2>1, <2>2 DEF Disk!Init
<1>2. ASSUME SteadyInit PROVE Disk!Init
  <2>1. Server = [h \in Node |-> IF h \in {InstancePrimary} THEN "on" ELSE "off"]
    BY <1>2 DEF SteadyInit
  <2>2. holder = InstancePrimary /\ InstancePrimary \in Node
    BY <1>2 DEF SteadyInit, Node
  <2>3. {InstancePrimary} \in SUBSET (Node \cap {holder})
    BY <2>2
  <2>4. QED
    BY <2>1, <2>2, <2>3 DEF Disk!Init
<1>3. QED
  BY <1>1, <1>2

\* What one changed entry of pg is for the abstract server.
LEMMA ServerMoves ==
  ASSUME CloudTypeOK, NEW n \in Node, NEW state \in Postmaster, pg' = [pg EXCEPT ![n] = state]
  PROVE  Server' = [Server EXCEPT ![n] = IF state = "unseen" THEN "on" ELSE state]
BY DEF CloudTypeOK, Server, Writing, Postmaster

LEMMA ServerStays == UNCHANGED pg => UNCHANGED Server
BY DEF Server, Writing

LEMMA MoveIsTransfer ==
  ASSUME NEW h \in Node \cup {NoNode}, MoveDisk(h)
  PROVE  Disk!Next
<1>1. \A n \in Node : pg'[n] = IF n # h /\ Writing(n) THEN "severed" ELSE pg[n]
  BY DEF MoveDisk
<1>2. Server' = [n \in Node |-> IF n # h /\ Server[n] = "on" THEN "severed" ELSE Server[n]]
  BY <1>1 DEF Server, Writing
<1> QED
  BY <1>2 DEF MoveDisk, Disk!Next, Disk!Transfer

LEMMA StopIsStop ==
  ASSUME TypeOK, NEW n \in Node, UNCHANGED holder, pg' = [pg EXCEPT ![n] = "off"]
  PROVE  [Disk!Next]_(Disk!vars)
<1>1. CASE pg[n] = "off"
  BY <1>1, ServerStays DEF TypeOK, CloudTypeOK, Disk!vars
<1>2. CASE pg[n] # "off"
  <2>1. Server[n] # "off"
    BY <1>2 DEF Server, Writing
  <2>2. Server' = [Server EXCEPT ![n] = "off"]
    BY ServerMoves DEF TypeOK, Postmaster
  <2> QED
    BY <2>1, <2>2 DEF Disk!Next, Disk!Stop
<1>3. QED
  BY <1>1, <1>2

\* A server may only start, or drop out of pg_ctl's sight, where the mount is live.
LEMMA StartIsStart ==
  ASSUME TypeOK, WriterInv, NEW n \in Node, NEW ok \in BOOLEAN,
         NEW left \in SUBSET {"on", "unseen"}, StartServer(n, ok, left)
  PROVE  [Disk!Next]_(Disk!vars)
<1>1. UNCHANGED holder
  BY DEF StartServer
<1>2. \/ UNCHANGED pg
      \/ /\ fs[n] = "live" /\ pg[n] \in {"off", "on"}
         /\ \E state \in {"on", "unseen"} : pg' = [pg EXCEPT ![n] = state]
  BY DEF StartServer, TypeOK, CloudTypeOK, Postmaster
<1>3. CASE UNCHANGED pg
  BY <1>1, <1>3, ServerStays DEF Disk!vars
<1>4. CASE /\ fs[n] = "live" /\ pg[n] \in {"off", "on"}
           /\ \E state \in {"on", "unseen"} : pg' = [pg EXCEPT ![n] = state]
  <2>1. Server' = [Server EXCEPT ![n] = "on"]
    BY <1>4, ServerMoves DEF TypeOK, Postmaster
  <2>2. CASE pg[n] = "off"
    <3>1. Server[n] = "off" /\ holder = n
      BY <1>4, <2>2 DEF Server, Writing, WriterInv
    <3> QED
      BY <1>1, <2>1, <3>1 DEF Disk!Next, Disk!Start
  <2>3. CASE pg[n] = "on"
    <3>1. UNCHANGED Server
      BY <2>1, <2>3 DEF Server, Writing
    <3> QED
      BY <1>1, <3>1 DEF Disk!vars
  <2> QED
    BY <1>4, <2>2, <2>3
<1> QED
  BY <1>2, <1>3, <1>4

LEMMA DiskCallRefines ==
  ASSUME TypeOK, WriterInv, NEW n \in Node, NEW ok \in BOOLEAN, DiskCall(n, ok)
  PROVE  [Disk!Next]_(Disk!vars)
<1>1. CASE UNCHANGED <<holder, pg>>
  BY <1>1, ServerStays DEF Disk!vars
<1>2. CASE AttachDiskRw(n, ok) \/ DetachFrom(n, ok)
  BY <1>1, <1>2, MoveIsTransfer DEF AttachDiskRw, DetachFrom, DiskStays
<1>3. CASE MountDisk(n, ok) \/ UnmountDisk(n, ok)
  BY <1>1, <1>3 DEF MountDisk, UnmountDisk
<1>4. CASE StartPostgres(n, ok) \/ StartWithRetries(n, ok)
  BY <1>4, StartIsStart DEF StartPostgres, StartWithRetries
<1>5. CASE StopPostgres(n, ok) \/ KillMountUsers(n)
  <2>1. UNCHANGED holder
    BY <1>5 DEF StopPostgres, KillMountUsers
  <2>2. UNCHANGED pg \/ pg' = [pg EXCEPT ![n] = "off"]
    BY <1>5 DEF StopPostgres, KillMountUsers, TypeOK, CloudTypeOK
  <2>3. QED
    BY <1>1, <2>1, <2>2, StopIsStop
<1>6. CASE DiskStays
  BY <1>1, <1>6 DEF DiskStays
<1>7. QED
  BY <1>2, <1>3, <1>4, <1>5, <1>6 DEF DiskCall

LEMMA NextRefinesDisk == TypeOK /\ WriterInv /\ [Next]_vars => [Disk!Next]_(Disk!vars)
<1> SUFFICES ASSUME TypeOK, WriterInv, [Next]_vars PROVE [Disk!Next]_(Disk!vars)
  OBVIOUS
<1>1. CASE DiskUntouched
  BY <1>1, ServerStays DEF DiskUntouched, Disk!vars
<1>2. ASSUME NEW n \in Node, NEW ok \in BOOLEAN, DiskCall(n, ok)
      PROVE  [Disk!Next]_(Disk!vars)
  BY <1>2, DiskCallRefines
<1>3. ASSUME NEW n \in Node, PostgresDies(n) PROVE [Disk!Next]_(Disk!vars)
  BY <1>3, StopIsStop DEF PostgresDies, PgCrash, PgIoCrash, PgLockFileMissed, VmCrash
<1>4. QED
  BY <1>1, <1>2, <1>3, EveryDiskStep DEF DiskStep

\* The two daemons implement the disk's abstract specification, for every choice of
\* the constants: a PostgreSQL starts only on the node the disk is attached to, and
\* one that lost the disk has to stop before it can write again.
THEOREM DiskPromiseKept ==
  (Spec => ImplementsDiskOwnership) /\ (SteadySpec => ImplementsDiskOwnership)
<1>1. Init \/ SteadyInit => Disk!Init /\ WriterInv
  BY StartsOwned DEF Init, SteadyInit, WriterInv, Writing, Node
<1>2. TypeOK /\ WriterInv /\ [Next]_vars => WriterInv'
  BY NextKeepsWriter
<1>3. TypeOK /\ WriterInv /\ [Next]_vars => [Disk!Next]_(Disk!vars)
  BY NextRefinesDisk
<1>4. QED
  BY <1>1, <1>2, <1>3, TypeCorrect, PTL
     DEF Spec, SteadySpec, ImplementsDiskOwnership, Disk!Spec

---------------------------------------------------------------------------
\* Maintenance

\* The consequence of MaintenanceFreezes, as a state-pair formula.
StaysFrozen == /\ UNCHANGED <<holder, vip>>
               /\ Frozen' \/ \E n \in Node : ~maint'[n] \/ mpc'[n] = "elect"

LEMMA FrozenWorkers ==
  ASSUME Frozen, NEW n \in Node, NEW t \in Thread, WorkerStep(n, t)
  PROVE  FALSE
<1>1. pc[n][t] = "idle"
  BY DEF Frozen, Quiet
<1>2. ~FailoverStep(n, t)
  BY <1>1 DEF FailoverStep, FoBegin, FoVerify, FoFence, FoAttach, FoReportAttached, FoMount,
              FoStartPostgres, FoAcquireVip, FoPromote
<1>3. ~DemotionStep(n, t)
  BY <1>1 DEF DemotionStep, SwBegin, SwPreCheck, SwReleaseVip, SwStopPostgres, SwUmount,
              SwDetach, SwSignalPeer, SwDemote, SwEnd
<1>4. ~PromotionStep(n, t)
  BY <1>1 DEF PromotionStep, PrBegin, PrAttach, PrReportAttached, PrMount, PrStartPostgres,
              PrAcquireVip, PrPromote, RbStopPostgres, RbUnmount, RbDetach, PrEnd
<1>5. QED
  BY <1>2, <1>3, <1>4 DEF WorkerStep

LEMMA FrozenMain ==
  ASSUME TypeOK, Frozen, NEW n \in Node, MainStep(n)
  PROVE  StaysFrozen
<1>1. mpc[n] \in {"down", "loop", "fb_flags"} /\ maint[n]
  BY DEF Frozen
<1>2. ~ElectionStep(n)
  BY <1>1 DEF ElectionStep, Elect, ElCompete, ElMount, ElStartPostgres, ElAcquireVip,
              ElRollbackStop, ElRollbackUnmount
<1>3. ~SelfDemoteStep(n)
  BY <1>1 DEF SelfDemoteStep, SdReleaseVip, SdStopPostgres, SdKillMountUsers, SdUnmount,
              SdDetach, SdBecomeStandby, SdHandoff
<1>4. ~HeartbeatFallback(n) /\ ~SelfDemoteStart(n)
  BY <1>1 DEF HeartbeatFallback, SelfDemoteStart, MayDemote
<1>5. CASE HandlePeerDead(n)
  <2>1. UNCHANGED <<holder, vip, maint, pc, mpc, inbox>>
    BY <1>1, <1>5 DEF HandlePeerDead, resVars, hostVars
  <2> QED
    BY <2>1 DEF StaysFrozen, Frozen, Quiet
<1>6. CASE ReadGrace(n) \/ ReadFlags(n)
  <2>1. UNCHANGED <<holder, vip, maint, pc, inbox>>
    BY <1>6 DEF ReadGrace, ReadFlags, resVars, hostVars, peerVars
  <2>2. \E label \in {"loop", "fb_flags"} : mpc' = [mpc EXCEPT ![n] = label]
    BY <1>1, <1>6 DEF ReadGrace, ReadFlags, MayFallBack, MainGoto
  <2>3. \A m \in Node : mpc'[m] \in {"loop", "fb_flags"} \/ mpc'[m] = mpc[m]
    BY <2>2 DEF TypeOK, ControlTypeOK
  <2> QED
    BY <2>1, <2>3 DEF StaysFrozen, Frozen, Quiet
<1> QED
  BY <1>2, <1>3, <1>4, <1>5, <1>6 DEF MainStep, FallbackStep

LEMMA FrozenServers ==
  ASSUME TypeOK, Frozen, NEW n \in Node, PeerServerStep(n) \/ MgmtStep(n)
  PROVE  StaysFrozen
<1> USE DEF TypeOK, HostTypeOK, DaemonTypeOK, resVars
<1>1. maint[n] /\ "switchover" \notin inbox[n]
  BY DEF Frozen
<1>2. ~HandleSwitchoverRequest(n) /\ ~RequestSwitchover(n)
  BY <1>1 DEF HandleSwitchoverRequest, RequestSwitchover
<1>3. CASE HandleHandoff(n)
  <2>1. UNCHANGED <<holder, vip, maint, pc, mpc>>
    BY <1>1, <1>3 DEF HandleHandoff, hostVars
  <2>2. \A m \in Node : inbox'[m] \subseteq inbox[m]
    BY <1>3 DEF HandleHandoff
  <2>3. QED
    BY <2>1, <2>2 DEF StaysFrozen, Frozen, Quiet
<1>4. CASE HandleMaintenance(n)
  <2>1. UNCHANGED <<holder, vip, pc, mpc>>
    BY <1>4 DEF HandleMaintenance
  <2>2. \A m \in Node : inbox'[m] \subseteq inbox[m] /\ (maint'[m] = maint[m] \/ m = n)
    BY <1>4 DEF HandleMaintenance
  <2>3. CASE maint'[n]
    BY <2>1, <2>2, <2>3 DEF StaysFrozen, Frozen, Quiet
  <2>4. CASE ~maint'[n]
    BY <2>1, <2>4 DEF StaysFrozen
  <2>5. QED
    BY <2>3, <2>4
<1>5. CASE MaintenanceOff(n)
  <2>1. ~maint'[n] /\ UNCHANGED <<holder, vip>>
    BY <1>5 DEF MaintenanceOff
  <2>2. QED
    BY <2>1 DEF StaysFrozen
<1>6. CASE MaintenanceOn(n)
  <2>1. UNCHANGED <<holder, vip, maint, pc, mpc>>
    BY <1>1, <1>6 DEF MaintenanceOn
  <2>2. \A m \in Node : inbox'[m] \subseteq inbox[m] \cup {"maint_on"}
    BY <1>6 DEF MaintenanceOn, Deliver
  <2>3. QED
    BY <2>1, <2>2 DEF StaysFrozen, Frozen, Quiet
<1>7. QED
  BY <1>2, <1>3, <1>4, <1>5, <1>6 DEF PeerServerStep, MgmtStep

LEMMA FrozenSurroundings ==
  ASSUME TypeOK, Frozen, NEW n \in Node,
         HeartbeatStep(n) \/ TimerStep(n) \/ FailureStep(n) \/ Partition \/ Heal
  PROVE  StaysFrozen
<1> USE DEF TypeOK, HostTypeOK, ControlTypeOK, DaemonTypeOK, resVars, hostVars, peerVars
<1>1. CASE HeartbeatStep(n) \/ TimerStep(n) \/ Partition \/ Heal
  <2>1. UNCHANGED <<holder, vip, maint, pc, mpc, inbox>>
    BY <1>1 DEF HeartbeatStep, ReceiveHeartbeat, DeclarePeerDead, TimerStep, GraceExpires,
                BackoffExpires, Partition, Heal
  <2>2. QED
    BY <2>1 DEF StaysFrozen, Frozen, Quiet
<1>2. CASE PgCrash(n) \/ PgIoCrash(n) \/ PgLockFileMissed(n) \/ VmBoot(n)
  <2>1. UNCHANGED <<holder, vip, maint, pc, mpc, inbox>>
    BY <1>2 DEF PgCrash, PgIoCrash, PgLockFileMissed, VmBoot
  <2>2. QED
    BY <2>1 DEF StaysFrozen, Frozen, Quiet
<1>3. CASE VmCrash(n)
  <2>1. ~maint'[n] /\ UNCHANGED <<holder, vip>>
    BY <1>3 DEF VmCrash
  <2>2. QED
    BY <2>1 DEF StaysFrozen
<1>4. CASE DaemonCrash(n)
  <2>1. UNCHANGED <<holder, vip, maint>>
    BY <1>4 DEF DaemonCrash
  <2>2. mpc' = [mpc EXCEPT ![n] = "down"] /\ pc' = [pc EXCEPT ![n] = [t \in Thread |-> "idle"]]
    BY <1>4 DEF DaemonCrash, KillDaemon, MainGoto
  <2>3. inbox' = [inbox EXCEPT ![n] = {}]
    BY <1>4 DEF DaemonCrash, KillDaemon
  <2>4. QED
    BY <2>1, <2>2, <2>3 DEF StaysFrozen, Frozen, Quiet
<1>5. CASE DaemonStart(n)
  <2>1. mpc'[n] = "elect" /\ UNCHANGED <<holder, vip>>
    BY <1>5 DEF DaemonStart, MainGoto
  <2>2. QED
    BY <2>1 DEF StaysFrozen
<1>6. QED
  BY <1>1, <1>2, <1>3, <1>4, <1>5 DEF FailureStep

LEMMA FrozenNext == TypeOK /\ Frozen /\ [Next]_vars => StaysFrozen
<1> SUFFICES ASSUME TypeOK, Frozen, [Next]_vars PROVE StaysFrozen
  OBVIOUS
<1>1. CASE UNCHANGED vars
  BY <1>1 DEF vars, resVars, hostVars, peerVars, StaysFrozen, Frozen, Quiet
<1>2. CASE Partition \/ Heal
  BY <1>2, FrozenSurroundings DEF Node
<1>3. ASSUME NEW n \in Node,
             \/ MainStep(n) \/ PeerServerStep(n) \/ MgmtStep(n)
             \/ HeartbeatStep(n) \/ TimerStep(n) \/ FailureStep(n)
      PROVE  StaysFrozen
  BY <1>3, FrozenMain, FrozenServers, FrozenSurroundings
<1>4. QED
  BY <1>1, <1>2, <1>3, FrozenWorkers DEF Next

\* In maintenance nothing moves the disk or the alias IP, and nothing but a
\* lifted flag, a lost VM or a restarted daemon ends it.
THEOREM MaintenanceHolds ==
  (Spec => MaintenanceFreezes) /\ (SteadySpec => MaintenanceFreezes)
<1>1. TypeOK /\ [Next]_vars
        => [Frozen => /\ UNCHANGED <<holder, vip>>
                      /\ \/ Frozen'
                         \/ \E n \in Node : ~maint'[n] \/ mpc'[n] = "elect"]_vars
  BY FrozenNext DEF StaysFrozen
<1>2. QED
  BY <1>1, TypeCorrect, PTL DEF Spec, SteadySpec, MaintenanceFreezes
=============================================================================
