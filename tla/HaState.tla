------------------------------ MODULE HaState ------------------------------
(***************************************************************************)
(* The state of a pgha cluster: two VMs sharing one regional disk, and on  *)
(* each of them PostgreSQL and the pgha daemon with its threads.           *)
(*                                                                         *)
(* Three layers of state meet here.  The cloud keeps the disk attachment   *)
(* and the alias IP (`holder`, `vip`).  The operating system of each VM    *)
(* keeps the mount and the PostgreSQL process (`fs`, `pg`, `up`), which    *)
(* outlive the daemon.  The daemon keeps everything else in memory and     *)
(* loses it when it stops, but for the maintenance flag file (`maint`).    *)
(***************************************************************************)
EXTENDS Naturals, FiniteSets

CONSTANTS
  InstancePrimary, InstanceStandby, \* gcp.instance_primary, gcp.instance_standby
  NoNode,                           \* None: the disk is attached nowhere
  Thread,                           \* slots for worker threads of a daemon (bound)
  QueueSize,                        \* PEER_DEAD events the event queue holds (bound)
  MaxAttempts,                      \* _MAX_ATTEMPTS
  Scenarios                         \* what may befall the cluster, see Scenario

Node == {InstancePrimary, InstanceStandby}
BudgetKind == {"fault", "vm", "boot", "daemon", "pg", "net", "switchover", "maint"}

\* The external operations that may fail.
Operation == {"query", "attach", "lookup", "detach", "mount", "umount", "start", "stop",
              "kill", "status", "vip", "tcp", "udp", "monitor"}

\* A scenario bounds the disturbances of each kind that are still to come, names
\* the operations that may fail and the worker slots in use, and says whether
\* the 30 s timers outlast whatever they pace.
Scenario == [left : [BudgetKind -> Nat], faulty : SUBSET Operation, slots : SUBSET Thread,
             patient : BOOLEAN]

ASSUME NodeAssumption ==
  /\ InstancePrimary # InstanceStandby
  /\ NoNode \notin Node
ASSUME BoundAssumption ==
  /\ QueueSize \in Nat
  /\ MaxAttempts \in Nat \ {0}
  /\ IsFiniteSet(Thread)
  /\ Scenarios \subseteq Scenario

VARIABLES
  holder,    \* the node the disk is attached to READ_WRITE, or NoNode
  vip,       \* the nodes whose NIC carries the alias IP
  fs,        \* fs[n]: the mount point: "none", "live", or "stale" (device gone)
  pg,        \* pg[n]: the postmaster, see Postmaster
  up,        \* up[n]: VM n runs
  net,       \* the VPC path between the two nodes works
  maint,     \* maint[n]: the maintenance flag file exists
  mpc,       \* mpc[n]: what the daemon's main thread does
  pc,        \* pc[n][t]: what worker thread t of daemon n does
  role,      \* role[n]: NodeState.role
  disk,      \* disk[n]: NodeState.disk_state, what the heartbeats of n advertise
  swActive,  \* swActive[n]: the _switchover_active event
  grace,     \* grace[n]: less than 30 s since _last_demotion_ts
  attempts,  \* attempts[n]: FailoverEngine._attempts
  backoff,   \* backoff[n]: less than _RETRY_BACKOFF_SECS since _last_attempt_ts
  peerFree,  \* peerFree[n]: the last heartbeat n received said STANDBY and DETACHED
  alive,     \* alive[n]: HeartbeatManager._peer_alive
  deadQ,     \* deadQ[n]: PEER_DEAD events waiting in the event queue
  inbox,     \* inbox[n]: peer commands received and not yet acted upon
  env        \* the scenario, with what is left of its disturbances

resVars    == <<holder, vip, fs, pg, env>>
hostVars   == <<up, net, maint>>
nodeVars   == <<role, disk, swActive, grace>>
engineVars == <<attempts, backoff>>
peerVars   == <<peerFree, alive, deadQ, inbox>>
vars == <<resVars, hostVars, nodeVars, engineVars, peerVars, mpc, pc>>

Role      == {"primary", "standby", "unknown"}
DiskState == {"attached_rw", "detached", "unknown"}
Command   == {"switchover", "handoff", "maint_on", "maint_off"}

\* "severed": its disk was taken away.  "unseen": it runs and writes, but its
\* postmaster.pid was removed, so that pg_ctl no longer finds it.
Postmaster == {"off", "on", "unseen", "severed"}

ElectionPc == {"elect", "el_attach", "el_mount", "el_pg", "el_vip",
               "el_rb_pg", "el_rb_umount"}
DemotePc   == {"sd_vip", "sd_pg", "sd_kill", "sd_umount", "sd_detach",
               "sd_role", "sd_handoff"}
FallbackPc == {"fb_flags", "fb_peer"}
MainPc     == {"down", "loop"} \cup ElectionPc \cup DemotePc \cup FallbackPc
FailoverPc == {"fo_begin", "fo_begin_skip", "fo_verify", "fo_fence", "fo_attach",
               "fo_report", "fo_mount", "fo_pg", "fo_vip", "fo_promote"}
DemotionPc == {"sw_begin", "sw_pre", "sw_vip", "sw_pg", "sw_umount", "sw_detach",
               "sw_signal", "sw_demote", "sw_end"}
PromotionPc == {"pr_begin", "pr_attach", "pr_report", "pr_mount", "pr_pg", "pr_vip",
                "pr_promote", "rb_pg", "rb_umount", "rb_detach", "pr_end"}
WorkerPc   == {"idle"} \cup FailoverPc \cup DemotionPc \cup PromotionPc

CloudTypeOK ==
  /\ holder \in Node \cup {NoNode}
  /\ vip \in SUBSET Node
  /\ fs \in [Node -> {"none", "live", "stale"}]
  /\ pg \in [Node -> Postmaster]
  /\ env \in Scenario

HostTypeOK == up \in [Node -> BOOLEAN] /\ net \in BOOLEAN /\ maint \in [Node -> BOOLEAN]

DaemonTypeOK ==
  /\ role \in [Node -> Role] /\ disk \in [Node -> DiskState]
  /\ swActive \in [Node -> BOOLEAN] /\ grace \in [Node -> BOOLEAN]
  /\ attempts \in [Node -> Nat] /\ backoff \in [Node -> BOOLEAN]
  /\ peerFree \in [Node -> BOOLEAN] /\ alive \in [Node -> BOOLEAN]
  /\ deadQ \in [Node -> 0..QueueSize]
  /\ inbox \in [Node -> SUBSET Command]

ControlTypeOK ==
  /\ mpc \in [Node -> MainPc]
  /\ pc \in [Node -> [Thread -> WorkerPc]]

TypeOK == CloudTypeOK /\ HostTypeOK /\ DaemonTypeOK /\ ControlTypeOK

(***************************************************************************)
(* Helpers shared by the components.                                       *)
(***************************************************************************)
Peer(n) == IF n = InstancePrimary THEN InstanceStandby ELSE InstancePrimary

\* One disturbance of the given kind happens; the scenario bounds how many may.
Spend(kind) == /\ env.left[kind] > 0
               /\ env' = [env EXCEPT !.left[kind] = @ - 1]

\* An external operation deviates from its normal outcome.
Fault(op) == op \in env.faulty /\ Spend("fault")

Goto(n, t, label)  == pc' = [pc EXCEPT ![n][t] = label]
MainGoto(n, label) == mpc' = [mpc EXCEPT ![n] = label]

\* The PostgreSQL of n can write to the disk.
Writing(n) == pg[n] \in {"on", "unseen"}

\* A TCP connection from n to the peer's daemon, or to the peer's PostgreSQL
\* port, can be opened.
DaemonReachable(n) == net /\ up[n] /\ mpc[Peer(n)] # "down"
PgReachable(n)     == net /\ up[n] /\ up[Peer(n)] /\ pg[Peer(n)] # "off"

\* threading.Thread(target = ...).start()
Spawn(n, label) == \E t \in env.slots : pc[n][t] = "idle" /\ Goto(n, t, label)
Quiet(n)        == \A t \in Thread : pc[n][t] = "idle"
=============================================================================
