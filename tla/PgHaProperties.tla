--------------------------- MODULE PgHaProperties ---------------------------
(***************************************************************************)
(* What the composed daemons of PgHaDaemon are held to: the fairness their *)
(* scheduling justifies, the initial state of normal operation, safety     *)
(* invariants, action properties and liveness.  Some properties hold in    *)
(* every run; some state what a comment or the guide says and the code     *)
(* does not keep.                                                          *)
(***************************************************************************)
EXTENDS PgHaDaemon

---------------------------------------------------------------------------
\* Initial states and fairness

\* Normal operation, reached from Init once both elections are over: the
\* primary VM serves, the standby waits, heartbeats have been exchanged.
SteadyInit ==
  /\ holder = InstancePrimary /\ vip = {InstancePrimary}
  /\ fs = [n \in Node |-> IF n = InstancePrimary THEN "live" ELSE "none"]
  /\ pg = [n \in Node |-> IF n = InstancePrimary THEN "on" ELSE "off"]
  /\ up = [n \in Node |-> TRUE] /\ net = TRUE /\ maint = [n \in Node |-> FALSE]
  /\ mpc = [n \in Node |-> "loop"]
  /\ pc = [n \in Node |-> [t \in Thread |-> "idle"]]
  /\ role = [n \in Node |-> IF n = InstancePrimary THEN "primary" ELSE "standby"]
  /\ disk = [n \in Node |-> IF n = InstancePrimary THEN "attached_rw" ELSE "detached"]
  /\ swActive = [n \in Node |-> FALSE] /\ grace = [n \in Node |-> FALSE]
  /\ attempts = [n \in Node |-> 0] /\ backoff = [n \in Node |-> FALSE]
  /\ peerFree = [n \in Node |-> n = InstancePrimary]
  /\ alive = [n \in Node |-> TRUE] /\ deadQ = [n \in Node |-> 0]
  /\ inbox = [n \in Node |-> {}]
  /\ env \in Scenarios

SteadySpec == SteadyInit /\ [][Next]_vars

\* Every thread of the daemon keeps running, and every iteration of the main loop
\* looks at the queue and at the monitor, whatever it does of the fallback; the
\* heartbeat and watchdog loops never stop, time passes, systemd restarts a daemon
\* that failed, and a server without its disk or its lock file dies.  Operators,
\* crashes, VM boots, the repair of a partition and faults are owed to nobody.
Fairness ==
  \A n \in Node :
    /\ WF_vars(MainStep(n) /\ UNCHANGED env)
    /\ SF_vars(HandlePeerDead(n))
    /\ SF_vars(SelfDemoteStart(n) /\ UNCHANGED env)
    /\ \A t \in Thread : WF_vars(WorkerStep(n, t))
    /\ WF_vars(PeerServerStep(n))
    /\ WF_vars(ReceiveHeartbeat(n)) /\ WF_vars(DeclarePeerDead(n) /\ UNCHANGED env)
    /\ WF_vars(GraceExpires(n)) /\ WF_vars(BackoffExpires(n))
    /\ WF_vars(PgIoCrash(n)) /\ WF_vars(PgLockFileMissed(n))
    /\ WF_vars(DaemonStart(n))

FairSteadySpec == SteadySpec /\ Fairness

---------------------------------------------------------------------------
\* Liveness

\* n serves clients: its daemon is PRIMARY, its PostgreSQL has the disk, and
\* the alias IP points to n alone.
Serving(n) == role[n] = "primary" /\ Writing(n) /\ holder = n /\ vip = {n}


---------------------------------------------------------------------------
\* Safety of the data

\* At any time at most one PostgreSQL can write to the disk, whatever elections,
\* failovers and switchovers overlap.
SingleWriter == \A m, n \in Node : Writing(m) /\ Writing(n) => m = n

\* The refinement mapping: the owner of the disk is the cloud's attachment, its
\* servers are the postmasters, whether pg_ctl finds them or not.
Server == [n \in Node |-> IF Writing(n) THEN "on" ELSE pg[n]]
Disk == INSTANCE DiskOwnership WITH Host <- Node, NoHost <- NoNode, owner <- holder, server <- Server

\* The elections, engines and self-demotions of both daemons, with every crash and
\* API failure, implement the disk's promise: none of them starts a PostgreSQL
\* where the disk is not, and one that lost the disk never writes again.
ImplementsDiskOwnership == Disk!Spec

---------------------------------------------------------------------------
\* Safety of the advertisement the peer acts upon without fencing

\* A daemon whose heartbeats say STANDBY and DETACHED has no PostgreSQL that
\* could still write: the peer attaches the disk on the strength of it.
AdvertisedFreeIsQuiet ==
  \A n \in Node : Running(n) /\ AdvertisesFree(n) => ~Writing(n)

---------------------------------------------------------------------------
\* Failover

\* Between should_attempt and the promotion nothing is lost: a node that
\* becomes PRIMARY has the disk, a PostgreSQL that can write, and the alias IP.
PromotionIsComplete ==
  [][\A n \in Node : role[n] # "primary" /\ role'[n] = "primary"
       => holder = n /\ Writing(n) /\ n \in vip']_vars

\* Nobody takes the disk from a PRIMARY that is serving.
NoServingPrimarySevered ==
  [][\A n \in Node : ~(role[n] = "primary" /\ Writing(n) /\ pg'[n] = "severed")]_vars

\* The comment on the grace period (daemon.py): "suppress heartbeat fallback for
\* 30s after this node just demoted", so that it does not "failover to itself".
\* No failover is started by the main loop of a node that is in its grace period.
GraceSuppressesFallback ==
  [][\A n \in Node : grace[n] /\ HeartbeatFallback(n) => UNCHANGED pc]_vars

\* The engine gives up after _MAX_ATTEMPTS attempts without success, however many
\* threads pass should_attempt together: each of them beyond the first can
\* overshoot the limit by one, and none that comes later can.
AttemptsBounded == \A n \in Node : attempts[n] < MaxAttempts + Cardinality(Thread)

\* daemon.py: "if a failover thread is already running, skip."
OneFailoverThread ==
  \A n \in Node : \A s, t \in Thread :
    pc[n][s] \in FailoverPc /\ pc[n][t] \in FailoverPc => s = t

---------------------------------------------------------------------------
\* Switchover

\* A zero-data-loss hand-off: PostgreSQL no longer writes when the old PRIMARY
\* detaches the disk.
StoppedBeforeDetach ==
  \A n \in Node, t \in Thread : pc[n][t] = "sw_detach" => ~Writing(n)

\* A promotion that failed has undone its steps: the node is a STANDBY with no
\* disk, no mount and no PostgreSQL that writes.
RollbackIsComplete ==
  \A n \in Node, t \in Thread :
    pc[n][t] = "pr_end" /\ role[n] = "standby"
      => holder # n /\ fs[n] # "live" /\ ~Writing(n)

---------------------------------------------------------------------------
\* Election

\* election.py: the first node to attach the disk wins the startup race.  The
\* other one does not take it away.
FirstAttachWins ==
  [][\A n \in Node : mpc[n] = "el_attach" /\ holder = Peer(n) => holder' # n]_vars

---------------------------------------------------------------------------
\* Maintenance

\* Both flags are set, nothing was under way when they were, and no
\* SWITCHOVER_REQUEST is waiting.
Frozen ==
  \A n \in Node : /\ maint[n] /\ Quiet(n) /\ mpc[n] \in {"down", "loop", "fb_flags"}
                  /\ "switchover" \notin inbox[n]

\* A frozen cluster stays as it is, whatever crashes or is cut off: disk and
\* alias IP do not move, and it only thaws when a flag goes (by command or with
\* its VM) or when a daemon restarts and holds its election.
MaintenanceFreezes ==
  [][Frozen => /\ UNCHANGED <<holder, vip>>
               /\ \/ Frozen'
                  \/ \E n \in Node : ~maint'[n] \/ mpc'[n] = "elect"]_vars

\* pgha.conf: "When this file exists, failover/switchover are blocked": no
\* failover or switchover thread starts on such a node.
MaintenanceBlocks ==
  [][\A n \in Node, t \in Thread :
       maint[n] /\ pc[n][t] = "idle" => pc'[n][t] = "idle"]_vars
=============================================================================
