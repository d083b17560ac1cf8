----------------------------- MODULE PgHaTyping -----------------------------
(***************************************************************************)
(* Type correctness of the composed daemons, for every choice of the       *)
(* constants: TypeOK is inductive.  The cloud and host operations are      *)
(* treated once, by CloudTyping; the actions then differ only in what they *)
(* do to the daemons.                                                      *)
(***************************************************************************)
EXTENDS PgHaProperties, TLAPS

LEMMA PeerTyping == \A n \in Node : Peer(n) \in Node /\ Peer(n) # n
BY NodeAssumption DEF Node, Peer

LEMMA SpendTyping ==
  ASSUME env \in Scenario, NEW kind \in BudgetKind, Spend(kind)
  PROVE  env' \in Scenario
BY DEF Spend, Scenario

LEMMA FaultTyping ==
  ASSUME env \in Scenario, NEW op, Fault(op)
  PROVE  env' \in Scenario
BY SpendTyping DEF Fault, BudgetKind

LEMMA MoveTyping ==
  ASSUME CloudTypeOK, NEW h \in Node \cup {NoNode}, MoveDisk(h)
  PROVE  /\ holder' \in Node \cup {NoNode}
         /\ fs' \in [Node -> {"none", "live", "stale"}]
         /\ pg' \in [Node -> Postmaster]
BY DEF CloudTypeOK, MoveDisk, Postmaster

\* Every public method of DiskManager and NetworkManager keeps the cloud and
\* the host well typed, however the call ends.
DiskCall(n, ok) ==
  \/ AttachDiskRw(n, ok) \/ DetachFrom(n, ok) \/ MountDisk(n, ok)
  \/ UnmountDisk(n, ok) \/ StartPostgres(n, ok) \/ StartWithRetries(n, ok)
  \/ StopPostgres(n, ok) \/ KillMountUsers(n)
VipCall(n, ok) == AcquireVip(n, ok) \/ ReleaseVip(n, ok)

LEMMA StartTyping ==
  ASSUME CloudTypeOK, NEW n \in Node, NEW ok \in BOOLEAN, NEW left \in SUBSET Postmaster,
         StartServer(n, ok, left)
  PROVE  CloudTypeOK'
<1>1. env' \in Scenario
  BY FaultTyping DEF StartServer, CloudTypeOK
<1>2. pg' \in [Node -> Postmaster]
  BY DEF StartServer, CloudTypeOK, Postmaster
<1> QED
  BY <1>1, <1>2 DEF StartServer, CloudTypeOK

LEMMA CloudTyping ==
  ASSUME CloudTypeOK, NEW n \in Node, NEW ok \in BOOLEAN,
         DiskCall(n, ok) \/ VipCall(n, ok)
  PROVE  CloudTypeOK'
<1> USE DEF CloudTypeOK
<1>0. \A op : Fault(op) => env' \in Scenario
  BY FaultTyping
<1>1. CASE AttachDiskRw(n, ok)
  BY <1>0, <1>1, MoveTyping DEF AttachDiskRw, DiskStays
<1>2. CASE DetachFrom(n, ok)
  BY <1>0, <1>2, MoveTyping DEF DetachFrom, DiskStays
<1>3. CASE MountDisk(n, ok)
  BY <1>0, <1>3 DEF MountDisk
<1>4. CASE UnmountDisk(n, ok)
  BY <1>0, <1>4 DEF UnmountDisk
<1>5. CASE StartPostgres(n, ok) \/ StartWithRetries(n, ok)
  BY <1>5, StartTyping DEF StartPostgres, StartWithRetries, Postmaster
<1>6. CASE StopPostgres(n, ok)
  BY <1>0, <1>6 DEF StopPostgres, Postmaster
<1>7. CASE KillMountUsers(n)
  BY <1>0, <1>7 DEF KillMountUsers, Postmaster
<1>8. CASE AcquireVip(n, ok)
  BY <1>0, <1>8, PeerTyping DEF AcquireVip, DiskStays
<1>9. CASE ReleaseVip(n, ok)
  BY <1>0, <1>9 DEF ReleaseVip, DiskStays
<1>10. QED
  BY <1>1, <1>2, <1>3, <1>4, <1>5, <1>6, <1>7, <1>8, <1>9 DEF DiskCall, VipCall

LEMMA QueryTyping ==
  ASSUME CloudTypeOK, \/ \E h : CurrentRwHolder(h)
                      \/ \E n, status : InstanceStatus(n, status)
  PROVE  CloudTypeOK'
BY FaultTyping DEF CloudTypeOK, CurrentRwHolder, InstanceStatus, DiskStays

\* A worker thread moves to a label, the others stay where they are.
LEMMA GotoTyping ==
  ASSUME ControlTypeOK, NEW n \in Node, NEW t \in Thread, NEW label \in WorkerPc,
         Goto(n, t, label)
  PROVE  pc' \in [Node -> [Thread -> WorkerPc]]
BY DEF ControlTypeOK, Goto

LEMMA MainGotoTyping ==
  ASSUME ControlTypeOK, NEW n \in Node, NEW label \in MainPc, MainGoto(n, label)
  PROVE  mpc' \in [Node -> MainPc]
BY DEF ControlTypeOK, MainGoto

---------------------------------------------------------------------------
\* Failover

LEMMA FailoverTyping ==
  ASSUME TypeOK, NEW n \in Node, NEW t \in Thread, FailoverStep(n, t)
  PROVE  TypeOK'
<1> USE DEF TypeOK, hostVars, nodeVars, engineVars, peerVars, resVars, WorkerPc, FailoverPc
<1>1. CASE FoBegin(n, t)
  <2>1. pc' \in [Node -> [Thread -> WorkerPc]]
    BY <1>1, GotoTyping DEF FoBegin
  <2>2. attempts' \in [Node -> Nat] /\ backoff' \in [Node -> BOOLEAN]
    BY <1>1 DEF FoBegin, DaemonTypeOK
  <2>3. QED
    BY <1>1, <2>1, <2>2 DEF FoBegin, CloudTypeOK, HostTypeOK, DaemonTypeOK, ControlTypeOK
<1>2. CASE FoVerify(n, t)
  <2>1. CloudTypeOK'
    BY <1>2, QueryTyping DEF FoVerify
  <2>2. pc' \in [Node -> [Thread -> WorkerPc]]
    BY <1>2, GotoTyping DEF FoVerify
  <2>3. QED
    BY <1>2, <2>1, <2>2 DEF FoVerify, HostTypeOK, DaemonTypeOK, ControlTypeOK
<1>3. CASE FoFence(n, t)
  <2>1. CloudTypeOK'
    BY <1>3, CloudTyping, PeerTyping DEF FoFence, DiskCall
  <2>2. pc' \in [Node -> [Thread -> WorkerPc]]
    BY <1>3, GotoTyping DEF FoFence
  <2>3. QED
    BY <1>3, <2>1, <2>2 DEF FoFence, HostTypeOK, DaemonTypeOK, ControlTypeOK
<1>4. CASE FoAttach(n, t)
  <2>1. CloudTypeOK'
    BY <1>4, CloudTyping DEF FoAttach, DiskCall
  <2>2. pc' \in [Node -> [Thread -> WorkerPc]]
    BY <1>4, GotoTyping DEF FoAttach
  <2>3. QED
    BY <1>4, <2>1, <2>2 DEF FoAttach, HostTypeOK, DaemonTypeOK, ControlTypeOK
<1>5. CASE FoMount(n, t)
  <2>1. CloudTypeOK'
    BY <1>5, CloudTyping DEF FoMount, DiskCall
  <2>2. pc' \in [Node -> [Thread -> WorkerPc]]
    BY <1>5, GotoTyping DEF FoMount
  <2>3. QED
    BY <1>5, <2>1, <2>2 DEF FoMount, HostTypeOK, DaemonTypeOK, ControlTypeOK
<1>6. CASE FoStartPostgres(n, t)
  <2>1. CloudTypeOK'
    BY <1>6, CloudTyping DEF FoStartPostgres, DiskCall
  <2>2. pc' \in [Node -> [Thread -> WorkerPc]]
    BY <1>6, GotoTyping DEF FoStartPostgres
  <2>3. QED
    BY <1>6, <2>1, <2>2 DEF FoStartPostgres, HostTypeOK, DaemonTypeOK, ControlTypeOK
<1>7. CASE FoAcquireVip(n, t)
  <2>1. CloudTypeOK'
    BY <1>7, CloudTyping DEF FoAcquireVip, VipCall
  <2>2. pc' \in [Node -> [Thread -> WorkerPc]]
    BY <1>7, GotoTyping DEF FoAcquireVip
  <2>3. QED
    BY <1>7, <2>1, <2>2 DEF FoAcquireVip, HostTypeOK, DaemonTypeOK, ControlTypeOK
<1>8. CASE FoPromote(n, t)
  <2>1. pc' \in [Node -> [Thread -> WorkerPc]]
    BY <1>8, GotoTyping DEF FoPromote
  <2>2. role' \in [Node -> Role] /\ attempts' \in [Node -> Nat]
    BY <1>8 DEF FoPromote, DaemonTypeOK, Role
  <2>3. QED
    BY <1>8, <2>1, <2>2 DEF FoPromote, CloudTypeOK, HostTypeOK, DaemonTypeOK, ControlTypeOK
<1>9. CASE FoReportAttached(n, t)
  <2>1. pc' \in [Node -> [Thread -> WorkerPc]]
    BY <1>9, GotoTyping DEF FoReportAttached
  <2>2. disk' \in [Node -> DiskState]
    BY <1>9 DEF FoReportAttached, DaemonTypeOK, DiskState
  <2>3. QED
    BY <1>9, <2>1, <2>2 DEF FoReportAttached, CloudTypeOK, HostTypeOK, DaemonTypeOK, ControlTypeOK
<1>10. QED
  BY <1>1, <1>2, <1>3, <1>4, <1>5, <1>6, <1>7, <1>8, <1>9 DEF FailoverStep
---------------------------------------------------------------------------
\* Switchover

LEMMA DemotionTyping ==
  ASSUME TypeOK, NEW n \in Node, NEW t \in Thread, DemotionStep(n, t)
  PROVE  TypeOK'
<1> USE DEF TypeOK, hostVars, nodeVars, engineVars, peerVars, resVars, WorkerPc, DemotionPc
<1>1. CASE SwBegin(n, t)
  <2>1. pc' \in [Node -> [Thread -> WorkerPc]]
    BY <1>1, GotoTyping DEF SwBegin
  <2>2. swActive' \in [Node -> BOOLEAN]
    BY <1>1 DEF SwBegin, DaemonTypeOK
  <2>3. QED
    BY <1>1, <2>1, <2>2 DEF SwBegin, CloudTypeOK, HostTypeOK, DaemonTypeOK, ControlTypeOK
<1>2. CASE SwPreCheck(n, t)
  <2>1. pc' \in [Node -> [Thread -> WorkerPc]]
    BY <1>2, GotoTyping DEF SwPreCheck
  <2>2. QED
    BY <1>2, <2>1 DEF SwPreCheck, CloudTypeOK, HostTypeOK, DaemonTypeOK, ControlTypeOK
<1>3. CASE SwReleaseVip(n, t)
  <2>1. CloudTypeOK'
    BY <1>3, CloudTyping DEF SwReleaseVip, VipCall
  <2>2. pc' \in [Node -> [Thread -> WorkerPc]]
    BY <1>3, GotoTyping DEF SwReleaseVip
  <2>3. QED
    BY <1>3, <2>1, <2>2 DEF SwReleaseVip, HostTypeOK, DaemonTypeOK, ControlTypeOK
<1>4. CASE SwStopPostgres(n, t)
  <2>1. CloudTypeOK'
    BY <1>4, CloudTyping, PeerTyping DEF SwStopPostgres, DiskCall
  <2>2. pc' \in [Node -> [Thread -> WorkerPc]]
    BY <1>4, GotoTyping DEF SwStopPostgres
  <2>3. QED
    BY <1>4, <2>1, <2>2 DEF SwStopPostgres, HostTypeOK, DaemonTypeOK, ControlTypeOK
<1>5. CASE SwUmount(n, t)
  <2>1. CloudTypeOK'
    BY <1>5, CloudTyping, PeerTyping DEF SwUmount, DiskCall
  <2>2. pc' \in [Node -> [Thread -> WorkerPc]]
    BY <1>5, GotoTyping DEF SwUmount
  <2>3. QED
    BY <1>5, <2>1, <2>2 DEF SwUmount, HostTypeOK, DaemonTypeOK, ControlTypeOK
<1>6. CASE SwDetach(n, t)
  <2>1. CloudTypeOK'
    BY <1>6, CloudTyping, PeerTyping DEF SwDetach, DiskCall
  <2>2. pc' \in [Node -> [Thread -> WorkerPc]]
    BY <1>6, GotoTyping DEF SwDetach
  <2>3. disk' \in [Node -> DiskState]
    BY <1>6 DEF SwDetach, DaemonTypeOK, DiskState
  <2>4. QED
    BY <1>6, <2>1, <2>2, <2>3 DEF SwDetach, HostTypeOK, DaemonTypeOK, ControlTypeOK
<1>7. CASE SwSignalPeer(n, t)
  <2>1. pc' \in [Node -> [Thread -> WorkerPc]]
    BY <1>7, GotoTyping DEF SwSignalPeer
  <2>2. env' \in Scenario
    BY <1>7, FaultTyping DEF SwSignalPeer, CloudTypeOK
  <2>3. inbox' \in [Node -> SUBSET Command]
    BY <1>7, PeerTyping DEF SwSignalPeer, DaemonTypeOK, Command
  <2>4. QED
    BY <1>7, <2>1, <2>2, <2>3 DEF SwSignalPeer, CloudTypeOK, HostTypeOK, DaemonTypeOK, ControlTypeOK
<1>8. CASE SwDemote(n, t)
  <2>1. pc' \in [Node -> [Thread -> WorkerPc]]
    BY <1>8, GotoTyping DEF SwDemote
  <2>2. role' \in [Node -> Role]
    BY <1>8 DEF SwDemote, DaemonTypeOK, Role
  <2>3. QED
    BY <1>8, <2>1, <2>2 DEF SwDemote, CloudTypeOK, HostTypeOK, DaemonTypeOK, ControlTypeOK
<1>9. CASE SwEnd(n, t)
  <2>1. pc' \in [Node -> [Thread -> WorkerPc]]
    BY <1>9, GotoTyping DEF SwEnd
  <2>2. swActive' \in [Node -> BOOLEAN] /\ grace' \in [Node -> BOOLEAN]
    BY <1>9 DEF SwEnd, DaemonTypeOK
  <2>3. QED
    BY <1>9, <2>1, <2>2 DEF SwEnd, CloudTypeOK, HostTypeOK, DaemonTypeOK, ControlTypeOK
<1>10. QED
  BY <1>1, <1>2, <1>3, <1>4, <1>5, <1>6, <1>7, <1>8, <1>9 DEF DemotionStep

LEMMA PromotionTyping ==
  ASSUME TypeOK, NEW n \in Node, NEW t \in Thread, PromotionStep(n, t)
  PROVE  TypeOK'
<1> USE DEF TypeOK, hostVars, nodeVars, engineVars, peerVars, resVars, WorkerPc, PromotionPc
<1>1. CASE PrBegin(n, t)
  <2>1. CloudTypeOK'
    BY <1>1, QueryTyping DEF PrBegin, CloudTypeOK
  <2>2. pc' \in [Node -> [Thread -> WorkerPc]]
    BY <1>1, GotoTyping DEF PrBegin
  <2>3. QED
    BY <1>1, <2>1, <2>2 DEF PrBegin, HostTypeOK, DaemonTypeOK, ControlTypeOK
<1>2. CASE PrAttach(n, t)
  <2>1. CloudTypeOK'
    BY <1>2, CloudTyping, PeerTyping DEF PrAttach, DiskCall
  <2>2. pc' \in [Node -> [Thread -> WorkerPc]]
    BY <1>2, GotoTyping DEF PrAttach
  <2>3. QED
    BY <1>2, <2>1, <2>2 DEF PrAttach, HostTypeOK, DaemonTypeOK, ControlTypeOK
<1>3. CASE PrMount(n, t)
  <2>1. CloudTypeOK'
    BY <1>3, CloudTyping, PeerTyping DEF PrMount, DiskCall
  <2>2. pc' \in [Node -> [Thread -> WorkerPc]]
    BY <1>3, GotoTyping DEF PrMount
  <2>3. QED
    BY <1>3, <2>1, <2>2 DEF PrMount, HostTypeOK, DaemonTypeOK, ControlTypeOK
<1>4. CASE PrStartPostgres(n, t)
  <2>1. CloudTypeOK'
    BY <1>4, CloudTyping, PeerTyping DEF PrStartPostgres, DiskCall
  <2>2. pc' \in [Node -> [Thread -> WorkerPc]]
    BY <1>4, GotoTyping DEF PrStartPostgres
  <2>3. QED
    BY <1>4, <2>1, <2>2 DEF PrStartPostgres, HostTypeOK, DaemonTypeOK, ControlTypeOK
<1>5. CASE PrAcquireVip(n, t)
  <2>1. CloudTypeOK'
    BY <1>5, CloudTyping DEF PrAcquireVip, VipCall
  <2>2. pc' \in [Node -> [Thread -> WorkerPc]]
    BY <1>5, GotoTyping DEF PrAcquireVip
  <2>3. QED
    BY <1>5, <2>1, <2>2 DEF PrAcquireVip, HostTypeOK, DaemonTypeOK, ControlTypeOK
<1>6. CASE PrPromote(n, t)
  <2>1. pc' \in [Node -> [Thread -> WorkerPc]]
    BY <1>6, GotoTyping DEF PrPromote
  <2>2. role' \in [Node -> Role]
    BY <1>6 DEF PrPromote, DaemonTypeOK, Role
  <2>3. QED
    BY <1>6, <2>1, <2>2 DEF PrPromote, CloudTypeOK, HostTypeOK, DaemonTypeOK, ControlTypeOK
<1>7. CASE RbStopPostgres(n, t)
  <2>1. CloudTypeOK'
    BY <1>7, CloudTyping, PeerTyping DEF RbStopPostgres, DiskCall
  <2>2. pc' \in [Node -> [Thread -> WorkerPc]]
    BY <1>7, GotoTyping DEF RbStopPostgres
  <2>3. QED
    BY <1>7, <2>1, <2>2 DEF RbStopPostgres, HostTypeOK, DaemonTypeOK, ControlTypeOK
<1>8. CASE RbUnmount(n, t)
  <2>1. CloudTypeOK'
    BY <1>8, CloudTyping, PeerTyping DEF RbUnmount, DiskCall
  <2>2. pc' \in [Node -> [Thread -> WorkerPc]]
    BY <1>8, GotoTyping DEF RbUnmount
  <2>3. QED
    BY <1>8, <2>1, <2>2 DEF RbUnmount, HostTypeOK, DaemonTypeOK, ControlTypeOK
<1>9. CASE RbDetach(n, t)
  <2>1. CloudTypeOK'
    BY <1>9, CloudTyping, PeerTyping DEF RbDetach, DiskCall
  <2>2. pc' \in [Node -> [Thread -> WorkerPc]]
    BY <1>9, GotoTyping DEF RbDetach
  <2>3. disk' \in [Node -> DiskState]
    BY <1>9 DEF RbDetach, DaemonTypeOK, DiskState
  <2>4. QED
    BY <1>9, <2>1, <2>2, <2>3 DEF RbDetach, HostTypeOK, DaemonTypeOK, ControlTypeOK
<1>10. CASE PrEnd(n, t)
  <2>1. pc' \in [Node -> [Thread -> WorkerPc]]
    BY <1>10, GotoTyping DEF PrEnd
  <2>2. swActive' \in [Node -> BOOLEAN]
    BY <1>10 DEF PrEnd, DaemonTypeOK
  <2>3. QED
    BY <1>10, <2>1, <2>2 DEF PrEnd, CloudTypeOK, HostTypeOK, DaemonTypeOK, ControlTypeOK
<1>11. CASE PrReportAttached(n, t)
  <2>1. pc' \in [Node -> [Thread -> WorkerPc]]
    BY <1>11, GotoTyping DEF PrReportAttached
  <2>2. disk' \in [Node -> DiskState]
    BY <1>11 DEF PrReportAttached, DaemonTypeOK, DiskState
  <2>3. QED
    BY <1>11, <2>1, <2>2 DEF PrReportAttached, CloudTypeOK, HostTypeOK, DaemonTypeOK, ControlTypeOK
<1>12. QED
  BY <1>1, <1>2, <1>3, <1>4, <1>5, <1>6, <1>7, <1>8, <1>9, <1>10, <1>11 DEF PromotionStep

---------------------------------------------------------------------------
\* Election

LEMMA StandbyTyping ==
  ASSUME TypeOK, NEW n \in Node, BecomeStandby(n)
  PROVE  /\ role' \in [Node -> Role] /\ disk' \in [Node -> DiskState]
         /\ mpc' \in [Node -> MainPc]
BY MainGotoTyping DEF TypeOK, BecomeStandby, DaemonTypeOK, MainPc, Role, DiskState

\* A daemon that ends leaves a well typed memory behind: none at all.
LEMMA KillTyping ==
  ASSUME TypeOK, NEW n \in Node, KillDaemon(n)
  PROVE  DaemonTypeOK' /\ ControlTypeOK'
<1> USE DEF TypeOK, KillDaemon
<1>1. mpc' \in [Node -> MainPc]
  BY MainGotoTyping DEF MainPc
<1>2. pc' \in [Node -> [Thread -> WorkerPc]]
  BY DEF ControlTypeOK, WorkerPc
<1>3. /\ role' \in [Node -> Role] /\ disk' \in [Node -> DiskState]
      /\ swActive' \in [Node -> BOOLEAN] /\ grace' \in [Node -> BOOLEAN]
  BY DEF DaemonTypeOK, Role, DiskState
<1>4. /\ attempts' \in [Node -> Nat] /\ backoff' \in [Node -> BOOLEAN]
      /\ peerFree' \in [Node -> BOOLEAN] /\ alive' \in [Node -> BOOLEAN]
  BY DEF DaemonTypeOK
<1>5. deadQ' \in [Node -> 0..QueueSize] /\ inbox' \in [Node -> SUBSET Command]
  BY BoundAssumption DEF DaemonTypeOK
<1>6. QED
  BY <1>1, <1>2, <1>3, <1>4, <1>5 DEF DaemonTypeOK, ControlTypeOK

LEMMA ElectionTyping ==
  ASSUME TypeOK, NEW n \in Node, ElectionStep(n)
  PROVE  TypeOK'
<1> USE DEF TypeOK, hostVars, nodeVars, engineVars, peerVars, resVars, MainPc, ElectionPc
<1>1. CASE Elect(n)
  <2>1. CloudTypeOK'
    BY <1>1, QueryTyping DEF Elect
  <2>2. mpc' \in [Node -> MainPc] /\ role' \in [Node -> Role] /\ disk' \in [Node -> DiskState]
    BY <1>1, MainGotoTyping, StandbyTyping DEF Elect, DaemonTypeOK
  <2>3. QED
    BY <1>1, <2>1, <2>2 DEF Elect, HostTypeOK, DaemonTypeOK, ControlTypeOK
<1>2. CASE ElCompete(n)
  <2>1. CloudTypeOK'
    BY <1>2, CloudTyping DEF ElCompete, DiskCall
  <2>2. DaemonTypeOK' /\ ControlTypeOK'
    <3>1. CASE KillDaemon(n)
      BY <3>1, KillTyping
    <3>2. CASE ~KillDaemon(n)
      <4>1. mpc' \in [Node -> MainPc] /\ role' \in [Node -> Role] /\ disk' \in [Node -> DiskState]
        BY <1>2, <3>2, MainGotoTyping, StandbyTyping DEF ElCompete, DaemonTypeOK
      <4>2. QED
        BY <1>2, <3>2, <4>1 DEF ElCompete, DaemonTypeOK, ControlTypeOK
    <3>3. QED
      BY <3>1, <3>2
  <2>3. QED
    BY <1>2, <2>1, <2>2 DEF ElCompete, HostTypeOK
<1>3. CASE ElMount(n)
  <2>1. CloudTypeOK'
    BY <1>3, CloudTyping DEF ElMount, DiskCall
  <2>2. mpc' \in [Node -> MainPc]
    BY <1>3, MainGotoTyping DEF ElMount
  <2>3. QED
    BY <1>3, <2>1, <2>2 DEF ElMount, HostTypeOK, DaemonTypeOK, ControlTypeOK
<1>4. CASE ElStartPostgres(n)
  <2>1. CloudTypeOK'
    BY <1>4, CloudTyping DEF ElStartPostgres, DiskCall
  <2>2. mpc' \in [Node -> MainPc]
    BY <1>4, MainGotoTyping DEF ElStartPostgres
  <2>3. QED
    BY <1>4, <2>1, <2>2 DEF ElStartPostgres, HostTypeOK, DaemonTypeOK, ControlTypeOK
<1>5. CASE ElAcquireVip(n)
  <2>1. CloudTypeOK'
    BY <1>5, CloudTyping DEF ElAcquireVip, VipCall
  <2>2. mpc' \in [Node -> MainPc]
    BY <1>5, MainGotoTyping DEF ElAcquireVip
  <2>3. role' \in [Node -> Role] /\ disk' \in [Node -> DiskState]
    BY <1>5 DEF ElAcquireVip, DaemonTypeOK, Role, DiskState
  <2>4. QED
    BY <1>5, <2>1, <2>2, <2>3 DEF ElAcquireVip, HostTypeOK, DaemonTypeOK, ControlTypeOK
<1>6. CASE ElRollbackStop(n)
  <2>1. CloudTypeOK'
    BY <1>6, CloudTyping DEF ElRollbackStop, DiskCall
  <2>2. mpc' \in [Node -> MainPc]
    BY <1>6, MainGotoTyping DEF ElRollbackStop
  <2>3. QED
    BY <1>6, <2>1, <2>2 DEF ElRollbackStop, HostTypeOK, DaemonTypeOK, ControlTypeOK
<1>7. CASE ElRollbackUnmount(n)
  <2>1. CloudTypeOK'
    BY <1>7, CloudTyping DEF ElRollbackUnmount, DiskCall
  <2>2. mpc' \in [Node -> MainPc] /\ role' \in [Node -> Role] /\ disk' \in [Node -> DiskState]
    BY <1>7, StandbyTyping DEF ElRollbackUnmount
  <2>3. QED
    BY <1>7, <2>1, <2>2 DEF ElRollbackUnmount, HostTypeOK, DaemonTypeOK, ControlTypeOK
<1>8. QED
  BY <1>1, <1>2, <1>3, <1>4, <1>5, <1>6, <1>7 DEF ElectionStep

---------------------------------------------------------------------------
\* Self-demotion and the main loop

LEMMA SendTyping ==
  ASSUME TypeOK, NEW n \in Node, NEW cmd \in Command, SendToPeer(n, cmd)
  PROVE  env' \in Scenario /\ inbox' \in [Node -> SUBSET Command]
<1> USE DEF TypeOK, SendToPeer, Deliver
<1>1. env' \in Scenario
  BY FaultTyping DEF CloudTypeOK
<1>2. inbox' \in [Node -> SUBSET Command]
  BY PeerTyping DEF DaemonTypeOK
<1>3. QED
  BY <1>1, <1>2

LEMMA SpawnTyping ==
  ASSUME TypeOK, NEW n \in Node, NEW label \in WorkerPc, Spawn(n, label)
  PROVE  pc' \in [Node -> [Thread -> WorkerPc]]
BY GotoTyping DEF TypeOK, CloudTypeOK, Scenario, Spawn


LEMMA SelfDemoteTyping ==
  ASSUME TypeOK, NEW n \in Node, SelfDemoteStep(n)
  PROVE  TypeOK'
<1> USE DEF TypeOK, hostVars, nodeVars, engineVars, peerVars, resVars, MainPc, DemotePc
<1>1. CASE SdReleaseVip(n)
  <2>1. CloudTypeOK'
    BY <1>1, CloudTyping DEF SdReleaseVip, VipCall
  <2>2. mpc' \in [Node -> MainPc]
    BY <1>1, MainGotoTyping DEF SdReleaseVip
  <2>3. QED
    BY <1>1, <2>1, <2>2 DEF SdReleaseVip, HostTypeOK, DaemonTypeOK, ControlTypeOK
<1>2. CASE SdStopPostgres(n)
  <2>1. CloudTypeOK'
    BY <1>2, CloudTyping DEF SdStopPostgres, DiskCall
  <2>2. mpc' \in [Node -> MainPc]
    BY <1>2, MainGotoTyping DEF SdStopPostgres
  <2>3. QED
    BY <1>2, <2>1, <2>2 DEF SdStopPostgres, HostTypeOK, DaemonTypeOK, ControlTypeOK
<1>3. CASE SdKillMountUsers(n)
  <2>1. CloudTypeOK'
    BY <1>3, CloudTyping DEF SdKillMountUsers, DiskCall
  <2>2. mpc' \in [Node -> MainPc]
    BY <1>3, MainGotoTyping DEF SdKillMountUsers
  <2>3. QED
    BY <1>3, <2>1, <2>2 DEF SdKillMountUsers, HostTypeOK, DaemonTypeOK, ControlTypeOK
<1>4. CASE SdUnmount(n)
  <2>1. CloudTypeOK'
    BY <1>4, CloudTyping DEF SdUnmount, DiskCall
  <2>2. mpc' \in [Node -> MainPc]
    BY <1>4, MainGotoTyping DEF SdUnmount
  <2>3. QED
    BY <1>4, <2>1, <2>2 DEF SdUnmount, HostTypeOK, DaemonTypeOK, ControlTypeOK
<1>5. CASE SdDetach(n)
  <2>1. CloudTypeOK'
    BY <1>5, CloudTyping DEF SdDetach, DiskCall
  <2>2. mpc' \in [Node -> MainPc]
    BY <1>5, MainGotoTyping DEF SdDetach
  <2>3. QED
    BY <1>5, <2>1, <2>2 DEF SdDetach, HostTypeOK, DaemonTypeOK, ControlTypeOK
<1>6. CASE SdBecomeStandby(n)
  <2>1. mpc' \in [Node -> MainPc]
    BY <1>6, MainGotoTyping DEF SdBecomeStandby
  <2>2. role' \in [Node -> Role] /\ disk' \in [Node -> DiskState] /\ grace' \in [Node -> BOOLEAN]
    BY <1>6 DEF SdBecomeStandby, DaemonTypeOK, Role, DiskState
  <2>3. QED
    BY <1>6, <2>1, <2>2 DEF SdBecomeStandby, CloudTypeOK, HostTypeOK, DaemonTypeOK, ControlTypeOK
<1>7. CASE SdHandoff(n)
  <2>1. mpc' \in [Node -> MainPc]
    BY <1>7, MainGotoTyping DEF SdHandoff
  <2>2. env' \in Scenario /\ inbox' \in [Node -> SUBSET Command]
    BY <1>7, SendTyping DEF SdHandoff, Command
  <2>3. QED
    BY <1>7, <2>1, <2>2 DEF SdHandoff, CloudTypeOK, HostTypeOK, DaemonTypeOK, ControlTypeOK
<1>8. QED
  BY <1>1, <1>2, <1>3, <1>4, <1>5, <1>6, <1>7 DEF SelfDemoteStep

LEMMA MainTyping ==
  ASSUME TypeOK, NEW n \in Node, MainStep(n)
  PROVE  TypeOK'
<1> USE DEF TypeOK, hostVars, nodeVars, engineVars, peerVars, resVars, MainPc, WorkerPc
<1>1. CASE HandlePeerDead(n)
  <2>1. pc' \in [Node -> [Thread -> WorkerPc]]
    BY <1>1, SpawnTyping DEF HandlePeerDead, FailoverPc, ControlTypeOK
  <2>2. deadQ' \in [Node -> 0..QueueSize]
    BY <1>1, BoundAssumption DEF HandlePeerDead, DaemonTypeOK
  <2>3. QED
    BY <1>1, <2>1, <2>2 DEF HandlePeerDead, CloudTypeOK, HostTypeOK, DaemonTypeOK, ControlTypeOK
<1>2. CASE HeartbeatFallback(n)
  <2>1. pc' \in [Node -> [Thread -> WorkerPc]]
    BY <1>2, SpawnTyping DEF HeartbeatFallback, FailoverPc, ControlTypeOK
  <2>2. mpc' \in [Node -> MainPc]
    BY <1>2, MainGotoTyping DEF HeartbeatFallback
  <2>3. QED
    BY <1>2, <2>1, <2>2 DEF HeartbeatFallback, CloudTypeOK, HostTypeOK, DaemonTypeOK, ControlTypeOK
<1>3. CASE SelfDemoteStart(n)
  <2>1. mpc' \in [Node -> MainPc] /\ env' \in Scenario
    BY <1>3, MainGotoTyping, FaultTyping DEF SelfDemoteStart, DemotePc, CloudTypeOK
  <2>2. QED
    BY <1>3, <2>1 DEF SelfDemoteStart, CloudTypeOK, HostTypeOK, DaemonTypeOK, ControlTypeOK
<1>4. CASE SelfDemoteStep(n)
  BY <1>4, SelfDemoteTyping
<1>5. CASE ElectionStep(n)
  BY <1>5, ElectionTyping
<1>6. CASE ReadGrace(n) \/ ReadFlags(n)
  <2>1. mpc' \in [Node -> MainPc]
    BY <1>6, MainGotoTyping DEF ReadGrace, ReadFlags, FallbackPc
  <2>2. QED
    BY <1>6, <2>1 DEF ReadGrace, ReadFlags, CloudTypeOK, HostTypeOK, DaemonTypeOK, ControlTypeOK
<1>7. QED
  BY <1>1, <1>2, <1>3, <1>4, <1>5, <1>6 DEF MainStep, FallbackStep

---------------------------------------------------------------------------
\* Servers, heartbeats and timers

LEMMA PeerServerTyping ==
  ASSUME TypeOK, NEW n \in Node, PeerServerStep(n)
  PROVE  TypeOK'
<1> USE DEF TypeOK, hostVars, nodeVars, engineVars, peerVars, resVars
<1>1. CASE HandleSwitchoverRequest(n)
  <2>1. pc' \in [Node -> [Thread -> WorkerPc]]
    BY <1>1, SpawnTyping DEF HandleSwitchoverRequest, WorkerPc, PromotionPc
  <2>2. inbox' \in [Node -> SUBSET Command] /\ swActive' \in [Node -> BOOLEAN]
    BY <1>1 DEF HandleSwitchoverRequest, DaemonTypeOK
  <2>3. QED
    BY <1>1, <2>1, <2>2
       DEF HandleSwitchoverRequest, CloudTypeOK, HostTypeOK, DaemonTypeOK, ControlTypeOK
<1>2. CASE HandleHandoff(n)
  <2>1. pc' \in [Node -> [Thread -> WorkerPc]]
    BY <1>2, SpawnTyping DEF HandleHandoff, WorkerPc, FailoverPc, ControlTypeOK
  <2>2. inbox' \in [Node -> SUBSET Command]
    BY <1>2 DEF HandleHandoff, DaemonTypeOK
  <2>3. QED
    BY <1>2, <2>1, <2>2 DEF HandleHandoff, CloudTypeOK, HostTypeOK, DaemonTypeOK, ControlTypeOK
<1>3. CASE HandleMaintenance(n)
  <2>1. inbox' \in [Node -> SUBSET Command] /\ maint' \in [Node -> BOOLEAN]
    BY <1>3 DEF HandleMaintenance, DaemonTypeOK, HostTypeOK
  <2>2. QED
    BY <1>3, <2>1 DEF HandleMaintenance, CloudTypeOK, HostTypeOK, DaemonTypeOK, ControlTypeOK
<1>4. QED
  BY <1>1, <1>2, <1>3 DEF PeerServerStep

LEMMA MgmtTyping ==
  ASSUME TypeOK, NEW n \in Node, MgmtStep(n)
  PROVE  TypeOK'
<1> USE DEF TypeOK, hostVars, nodeVars, engineVars, peerVars, resVars
<1>1. CASE RequestSwitchover(n)
  <2>1. pc' \in [Node -> [Thread -> WorkerPc]]
    BY <1>1, SpawnTyping DEF RequestSwitchover, WorkerPc, DemotionPc
  <2>2. env' \in Scenario
    BY <1>1, SpendTyping DEF RequestSwitchover, CloudTypeOK, BudgetKind
  <2>3. QED
    BY <1>1, <2>1, <2>2
       DEF RequestSwitchover, CloudTypeOK, HostTypeOK, DaemonTypeOK, ControlTypeOK
<1>2. CASE MaintenanceOn(n)
  <2>1. env' \in Scenario
    BY <1>2, SpendTyping DEF MaintenanceOn, CloudTypeOK, BudgetKind
  <2>2. inbox' \in [Node -> SUBSET Command] /\ maint' \in [Node -> BOOLEAN]
    BY <1>2, PeerTyping DEF MaintenanceOn, Deliver, DaemonTypeOK, HostTypeOK, Command
  <2>3. QED
    BY <1>2, <2>1, <2>2 DEF MaintenanceOn, CloudTypeOK, HostTypeOK, DaemonTypeOK, ControlTypeOK
<1>3. CASE MaintenanceOff(n)
  <2>1. env' \in Scenario /\ inbox' \in [Node -> SUBSET Command]
    BY <1>3, SendTyping DEF MaintenanceOff, Command
  <2>2. maint' \in [Node -> BOOLEAN]
    BY <1>3 DEF MaintenanceOff, HostTypeOK
  <2>3. QED
    BY <1>3, <2>1, <2>2 DEF MaintenanceOff, CloudTypeOK, HostTypeOK, DaemonTypeOK, ControlTypeOK
<1>4. QED
  BY <1>1, <1>2, <1>3 DEF MgmtStep

LEMMA HeartbeatTyping ==
  ASSUME TypeOK, NEW n \in Node, HeartbeatStep(n)
  PROVE  TypeOK'
<1> USE DEF TypeOK, hostVars, nodeVars, engineVars, peerVars, resVars
<1>1. CASE ReceiveHeartbeat(n)
  <2>1. peerFree' \in [Node -> BOOLEAN] /\ alive' \in [Node -> BOOLEAN]
    BY <1>1 DEF ReceiveHeartbeat, AdvertisesFree, DaemonTypeOK
  <2>2. QED
    BY <1>1, <2>1 DEF ReceiveHeartbeat, CloudTypeOK, HostTypeOK, DaemonTypeOK, ControlTypeOK
<1>2. CASE DeclarePeerDead(n)
  <2>1. env' \in Scenario
    BY <1>2, FaultTyping DEF DeclarePeerDead, CloudTypeOK
  <2>2. alive' \in [Node -> BOOLEAN] /\ deadQ' \in [Node -> 0..QueueSize]
    BY <1>2, BoundAssumption DEF DeclarePeerDead, Enqueue, DaemonTypeOK
  <2>3. QED
    BY <1>2, <2>1, <2>2 DEF DeclarePeerDead, CloudTypeOK, HostTypeOK, DaemonTypeOK, ControlTypeOK
<1>3. QED
  BY <1>1, <1>2 DEF HeartbeatStep

LEMMA TimerTyping ==
  ASSUME TypeOK, NEW n \in Node, TimerStep(n)
  PROVE  TypeOK'
BY DEF TimerStep, GraceExpires, BackoffExpires, TypeOK, hostVars, nodeVars, engineVars,
       peerVars, resVars, CloudTypeOK, HostTypeOK, DaemonTypeOK, ControlTypeOK

---------------------------------------------------------------------------
\* Failures and repairs

LEMMA FailureTyping ==
  ASSUME TypeOK, NEW n \in Node, FailureStep(n)
  PROVE  TypeOK'
<1> USE DEF TypeOK, hostVars, nodeVars, engineVars, peerVars, resVars
<1>0. \A kind \in BudgetKind : Spend(kind) => env' \in Scenario
  BY SpendTyping DEF CloudTypeOK
<1>1. CASE PgCrash(n)
  BY <1>0, <1>1 DEF PgCrash, Postmaster, BudgetKind, CloudTypeOK, HostTypeOK,
              DaemonTypeOK, ControlTypeOK
<1>2. CASE PgIoCrash(n) \/ PgLockFileMissed(n)
  BY <1>2 DEF PgIoCrash, PgLockFileMissed, Postmaster, CloudTypeOK, HostTypeOK,
              DaemonTypeOK, ControlTypeOK
<1>3. CASE VmCrash(n)
  <2>1. CloudTypeOK' /\ HostTypeOK'
    BY <1>0, <1>3 DEF VmCrash, Postmaster, BudgetKind, CloudTypeOK, HostTypeOK
  <2>2. QED
    BY <1>3, <2>1, KillTyping DEF VmCrash
<1>4. CASE VmBoot(n)
  BY <1>0, <1>4 DEF VmBoot, BudgetKind, CloudTypeOK, HostTypeOK, DaemonTypeOK, ControlTypeOK
<1>5. CASE DaemonCrash(n)
  <2>1. CloudTypeOK' /\ HostTypeOK'
    BY <1>0, <1>5 DEF DaemonCrash, BudgetKind, CloudTypeOK, HostTypeOK
  <2>2. QED
    BY <1>5, <2>1, KillTyping DEF DaemonCrash
<1>6. CASE DaemonStart(n)
  <2>1. mpc' \in [Node -> MainPc]
    BY <1>6, MainGotoTyping DEF DaemonStart, MainPc, ElectionPc
  <2>2. QED
    BY <1>6, <2>1 DEF DaemonStart, CloudTypeOK, HostTypeOK, DaemonTypeOK, ControlTypeOK
<1>7. QED
  BY <1>1, <1>2, <1>3, <1>4, <1>5, <1>6 DEF FailureStep

LEMMA NetTyping == TypeOK /\ (Partition \/ Heal) => TypeOK'
BY SpendTyping DEF Partition, Heal, BudgetKind, TypeOK, hostVars, nodeVars, engineVars,
       peerVars, resVars, CloudTypeOK, HostTypeOK, DaemonTypeOK, ControlTypeOK

---------------------------------------------------------------------------
\* The theorem

LEMMA InitTyping == Init \/ SteadyInit => TypeOK
<1> USE DEF TypeOK, CloudTypeOK, HostTypeOK, DaemonTypeOK, ControlTypeOK, Role, DiskState,
            Command, Postmaster, MainPc, WorkerPc
<1>1. Init => TypeOK
  BY BoundAssumption DEF Init, Node
<1>2. SteadyInit => TypeOK
  BY BoundAssumption DEF SteadyInit, Node
<1>3. QED
  BY <1>1, <1>2

LEMMA NextTyping == TypeOK /\ [Next]_vars => TypeOK'
<1> SUFFICES ASSUME TypeOK, [Next]_vars PROVE TypeOK'
  OBVIOUS
<1>1. CASE UNCHANGED vars
  BY <1>1 DEF vars, resVars, hostVars, nodeVars, engineVars, peerVars, TypeOK, CloudTypeOK,
              HostTypeOK, DaemonTypeOK, ControlTypeOK
<1>2. ASSUME NEW n \in Node, NEW t \in Thread, WorkerStep(n, t) PROVE TypeOK'
  BY <1>2, FailoverTyping, DemotionTyping, PromotionTyping DEF WorkerStep
<1>3. ASSUME NEW n \in Node,
             \/ MainStep(n) \/ PeerServerStep(n) \/ MgmtStep(n)
             \/ HeartbeatStep(n) \/ TimerStep(n) \/ FailureStep(n)
      PROVE  TypeOK'
  BY <1>3, MainTyping, PeerServerTyping, MgmtTyping, HeartbeatTyping, TimerTyping, FailureTyping
<1>4. QED
  BY <1>1, <1>2, <1>3, NetTyping DEF Next

\* The daemons, the hosts and the cloud stay in the states declared for them,
\* from a cold start and from normal operation alike, for any number of worker
\* threads, any queue size and any combination of failures.
THEOREM TypeCorrect == (Spec => []TypeOK) /\ (SteadySpec => []TypeOK)
<1>1. Init => TypeOK
  BY InitTyping
<1>2. SteadyInit => TypeOK
  BY InitTyping
<1>3. TypeOK /\ [Next]_vars => TypeOK'
  BY NextTyping
<1>4. QED
  BY <1>1, <1>2, <1>3, PTL DEF Spec, SteadySpec
=============================================================================
