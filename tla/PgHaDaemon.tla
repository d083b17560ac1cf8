----------------------------- MODULE PgHaDaemon -----------------------------
(***************************************************************************)
(* daemon.py composed with the engines, the election and the surroundings: *)
(* the main loop, self-demotion, the peer TCP server, the management       *)
(* socket, heartbeats as the main loop sees them, operators and failures.  *)
(*                                                                         *)
(* One iteration of the main loop drains the event queue, looks at the     *)
(* PostgreSQL monitor and then at the peer's heartbeat.  The environment   *)
(* may act between any two of these, so they are independent actions of a  *)
(* main thread at "loop".  The heartbeat fallback decides on values that it *)
(* reads one after the other, so it has labels of its own.                 *)
(***************************************************************************)
EXTENDS FailoverEngine, SwitchoverEngine, ElectionManager

Running(n) == mpc[n] # "down"

---------------------------------------------------------------------------
\* Main loop

\* Mutant: the maintenance flag is not looked at.
HandlePeerDeadAlways(n) ==
  /\ mpc[n] = "loop" /\ deadQ[n] > 0
  /\ deadQ' = [deadQ EXCEPT ![n] = @ - 1]
  /\ IF ShouldAttempt(n) THEN Spawn(n, "fo_begin") ELSE UNCHANGED pc
  /\ UNCHANGED <<resVars, hostVars, nodeVars, engineVars, peerFree, alive, inbox, mpc>>

\* _handle_event for PEER_DEAD: the event is consumed whatever comes of it.
HandlePeerDead(n) ==
  /\ mpc[n] = "loop" /\ deadQ[n] > 0
  /\ deadQ' = [deadQ EXCEPT ![n] = @ - 1]
  /\ IF ~maint[n] /\ ShouldAttempt(n)
       THEN Spawn(n, "fo_begin")
       ELSE UNCHANGED pc
  /\ UNCHANGED <<resVars, hostVars, nodeVars, engineVars, peerFree, alive, inbox, mpc>>

\* Mutant: no grace period after a demotion.
ReadNoGrace(n) ==
  /\ mpc[n] = "loop"
  /\ MainGoto(n, "fb_flags")
  /\ UNCHANGED <<resVars, hostVars, nodeVars, engineVars, peerVars, pc>>

\* The heartbeat fallback: the peer lives and advertises that it gave up
\* everything.  The grace period is computed first, and never again.
ReadGrace(n) ==
  /\ mpc[n] = "loop" /\ ~grace[n]
  /\ MainGoto(n, "fb_flags")
  /\ UNCHANGED <<resVars, hostVars, nodeVars, engineVars, peerVars, pc>>

MayFallBack(n) == role[n] = "standby" /\ alive[n] /\ ~swActive[n] /\ ~maint[n]

ReadFlags(n) ==
  /\ mpc[n] = "fb_flags"
  /\ MainGoto(n, IF MayFallBack(n) THEN "fb_peer" ELSE "loop")
  /\ UNCHANGED <<resVars, hostVars, nodeVars, engineVars, peerVars, pc>>

\* The peer's last heartbeat and should_attempt, under the lock.
HeartbeatFallback(n) ==
  /\ mpc[n] = "fb_peer" /\ MainGoto(n, "loop")
  /\ IF peerFree[n] /\ ShouldAttempt(n)
       THEN Spawn(n, "fo_begin_skip")
       ELSE UNCHANGED pc
  /\ UNCHANGED <<resVars, hostVars, nodeVars, engineVars, peerVars>>

\* The monitor has failed pg_fail_threshold times on a PRIMARY: PostgreSQL is
\* not serving, or the probes were wrong.
MayDemote(n) == mpc[n] = "loop" /\ role[n] = "primary" /\ ~swActive[n] /\ ~maint[n]

SelfDemoteStart(n) ==
  /\ MayDemote(n)
  /\ \/ ~Writing(n) /\ UNCHANGED env
     \/ Writing(n) /\ Fault("monitor")
  /\ MainGoto(n, "sd_vip")
  /\ UNCHANGED <<holder, vip, fs, pg, hostVars, nodeVars, engineVars, peerVars, pc>>

---------------------------------------------------------------------------
\* _self_demote_after_pg_failure: best effort, an exception is only logged

SdReleaseVip(n) ==
  /\ mpc[n] = "sd_vip" /\ MainGoto(n, "sd_pg")
  /\ \E ok \in BOOLEAN : ReleaseVip(n, ok)
  /\ UNCHANGED <<hostVars, nodeVars, engineVars, peerVars, pc>>

SdStopPostgres(n) ==
  /\ mpc[n] = "sd_pg" /\ MainGoto(n, "sd_kill")
  /\ \E ok \in BOOLEAN : StopPostgres(n, ok)
  /\ UNCHANGED <<hostVars, nodeVars, engineVars, peerVars, pc>>

SdKillMountUsers(n) ==
  /\ mpc[n] = "sd_kill" /\ MainGoto(n, "sd_umount")
  /\ KillMountUsers(n)
  /\ UNCHANGED <<hostVars, nodeVars, engineVars, peerVars, pc>>

SdUnmount(n) ==
  /\ mpc[n] = "sd_umount" /\ MainGoto(n, "sd_detach")
  /\ \E ok \in BOOLEAN : UnmountDisk(n, ok)
  /\ UNCHANGED <<hostVars, nodeVars, engineVars, peerVars, pc>>

SdDetach(n) ==
  /\ mpc[n] = "sd_detach" /\ MainGoto(n, "sd_role")
  /\ \E ok \in BOOLEAN : DetachFrom(n, ok)
  /\ UNCHANGED <<hostVars, nodeVars, engineVars, peerVars, pc>>

SdBecomeStandby(n) ==
  /\ mpc[n] = "sd_role" /\ MainGoto(n, "sd_handoff")
  /\ role' = [role EXCEPT ![n] = "standby"]
  /\ disk' = [disk EXCEPT ![n] = "detached"]
  /\ grace' = [grace EXCEPT ![n] = TRUE]
  /\ UNCHANGED <<resVars, hostVars, swActive, engineVars, peerVars, pc>>

\* A command to the peer's TCP server: delivered, or lost with an exception
\* that the sender only logs.
Deliver(n, cmd) == /\ DaemonReachable(n)
                   /\ inbox' = [inbox EXCEPT ![Peer(n)] = @ \cup {cmd}]

SendToPeer(n, cmd) ==
  \/ Deliver(n, cmd) /\ UNCHANGED env
  \/ ~DaemonReachable(n) /\ UNCHANGED <<inbox, env>>
  \/ DaemonReachable(n) /\ Fault("tcp") /\ UNCHANGED inbox

\* _send_pg_fail_handoff
SdHandoff(n) ==
  /\ mpc[n] = "sd_handoff" /\ MainGoto(n, "loop")
  /\ SendToPeer(n, "handoff")
  /\ UNCHANGED <<holder, vip, fs, pg, hostVars, nodeVars, engineVars,
                 peerFree, alive, deadQ, pc>>

SelfDemoteStep(n) ==
  \/ SdReleaseVip(n)
  \/ SdStopPostgres(n)
  \/ SdKillMountUsers(n)
  \/ SdUnmount(n)
  \/ SdDetach(n)
  \/ SdBecomeStandby(n)
  \/ SdHandoff(n)

---------------------------------------------------------------------------
\* Peer TCP server, one thread per connection, up before the election

\* SWITCHOVER_REQUEST: accepted unconditionally.
HandleSwitchoverRequest(n) ==
  /\ Running(n) /\ "switchover" \in inbox[n]
  /\ inbox' = [inbox EXCEPT ![n] = @ \ {"switchover"}]
  /\ swActive' = [swActive EXCEPT ![n] = TRUE]
  /\ Spawn(n, "pr_begin")
  /\ UNCHANGED <<resVars, hostVars, role, disk, grace, engineVars,
                 peerFree, alive, deadQ, mpc>>

HandleHandoff(n) ==
  /\ Running(n) /\ "handoff" \in inbox[n]
  /\ inbox' = [inbox EXCEPT ![n] = @ \ {"handoff"}]
  /\ IF ~swActive[n] /\ ~maint[n] /\ ShouldAttempt(n)
       THEN Spawn(n, "fo_begin_skip")
       ELSE UNCHANGED pc
  /\ UNCHANGED <<resVars, hostVars, nodeVars, engineVars, peerFree, alive, deadQ, mpc>>

HandleMaintenance(n) ==
  /\ Running(n)
  /\ \E cmd \in inbox[n] \cap {"maint_on", "maint_off"} :
       /\ inbox' = [inbox EXCEPT ![n] = @ \ {cmd}]
       /\ maint' = [maint EXCEPT ![n] = (cmd = "maint_on")]
  /\ UNCHANGED <<resVars, up, net, nodeVars, engineVars, peerFree, alive, deadQ, mpc, pc>>

---------------------------------------------------------------------------
\* Management socket: what an operator asks of the daemon

RequestSwitchover(n) ==
  /\ Running(n) /\ Spend("switchover")
  /\ ~maint[n] /\ role[n] = "primary" /\ ~swActive[n]
  /\ Spawn(n, "sw_begin")
  /\ UNCHANGED <<holder, vip, fs, pg, hostVars, nodeVars, engineVars, peerVars, mpc>>

\* _enter_maintenance with its propagation: any failure of the message to the
\* peer is only logged.
MaintenanceOn(n) ==
  /\ Running(n) /\ Spend("maint")
  /\ maint' = [maint EXCEPT ![n] = TRUE]
  /\ Deliver(n, "maint_on") \/ UNCHANGED inbox
  /\ UNCHANGED <<holder, vip, fs, pg, up, net, nodeVars, engineVars,
                 peerFree, alive, deadQ, mpc, pc>>

\* _exit_maintenance with its propagation; an operator lifts the maintenance
\* from either node, while some node is in it.
MaintenanceOff(n) ==
  /\ Running(n) /\ (maint[n] \/ maint[Peer(n)])
  /\ maint' = [maint EXCEPT ![n] = FALSE]
  /\ SendToPeer(n, "maint_off")
  /\ UNCHANGED <<holder, vip, fs, pg, up, net, nodeVars, engineVars,
                 peerFree, alive, deadQ, mpc, pc>>

---------------------------------------------------------------------------
\* HeartbeatManager as the main loop sees it

\* What a heartbeat of n says, as far as the main loop of its peer uses it.
AdvertisesFree(n) == role[n] = "standby" /\ disk[n] = "detached"

HeartbeatDue(n) == /\ Running(n) /\ Running(Peer(n)) /\ net
                   /\ ~alive[n] \/ peerFree[n] # AdvertisesFree(Peer(n))
SilenceDue(n)   == /\ Running(n) /\ alive[n] /\ ~PgReachable(n)
                   /\ ~Running(Peer(n)) \/ ~net

ReceiveHeartbeat(n) ==
  /\ HeartbeatDue(n)
  /\ peerFree' = [peerFree EXCEPT ![n] = AdvertisesFree(Peer(n))]
  /\ alive' = [alive EXCEPT ![n] = TRUE]
  /\ UNCHANGED <<resVars, hostVars, nodeVars, engineVars, deadQ, inbox, mpc, pc>>

\* Mutant: the event queue has no limit.
EnqueueUnbounded(length) == length + 1

\* _emit: a full event queue drops the event.
Enqueue(length) == IF length < QueueSize THEN length + 1 ELSE length

\* The watchdog: silence beyond dead_interval and no answer from the peer's
\* PostgreSQL port.
DeclarePeerDead(n) ==
  /\ \/ SilenceDue(n) /\ UNCHANGED env
     \/ Running(n) /\ alive[n] /\ ~PgReachable(n) /\ ~SilenceDue(n) /\ Fault("udp")
  /\ alive' = [alive EXCEPT ![n] = FALSE]
  /\ deadQ' = [deadQ EXCEPT ![n] = Enqueue(@)]
  /\ UNCHANGED <<holder, vip, fs, pg, hostVars, nodeVars, engineVars, peerFree, inbox,
                 mpc, pc>>

---------------------------------------------------------------------------
\* Time.  The two 30 s windows may end at any moment.  In a patient scenario
\* they outlast whatever is in progress: a window then ends only when the
\* cluster is at rest, that is, when no thread, message, heartbeat,
\* fallback or failed PostgreSQL is waiting for a step of some daemon.

\* The main loop of n is going to start a failover on what it has read or may read.
FallbackPending(n) ==
  /\ peerFree[n] /\ ShouldAttempt(n)
  /\ \/ mpc[n] = "fb_peer"
     \/ MayFallBack(n) /\ (~grace[n] \/ mpc[n] = "fb_flags")

AtRest ==
  \A n \in Node :
    /\ up[n] => mpc[n] \in {"loop"} \cup FallbackPc
    /\ Quiet(n) /\ inbox[n] = {} /\ deadQ[n] = 0
    /\ ~FallbackPending(n) /\ ~HeartbeatDue(n) /\ ~SilenceDue(n)
    /\ ~(MayDemote(n) /\ ~Writing(n)) /\ pg[n] # "unseen"

GraceExpires(n) ==
  /\ grace[n]
  /\ env.patient => AtRest
  /\ grace' = [grace EXCEPT ![n] = FALSE]
  /\ UNCHANGED <<resVars, hostVars, role, disk, swActive, engineVars, peerVars, mpc, pc>>

BackoffExpires(n) ==
  /\ backoff[n]
  /\ env.patient => AtRest
  /\ backoff' = [backoff EXCEPT ![n] = FALSE]
  /\ UNCHANGED <<resVars, hostVars, nodeVars, attempts, peerVars, mpc, pc>>

---------------------------------------------------------------------------
\* Failures and repairs

PgCrash(n) ==
  /\ Writing(n) /\ Spend("pg")
  /\ pg' = [pg EXCEPT ![n] = "off"]
  /\ UNCHANGED <<holder, vip, fs, hostVars, nodeVars, engineVars, peerVars, mpc, pc>>

\* PostgreSQL dies of the I/O errors it gets once its disk is gone.
PgIoCrash(n) ==
  /\ pg[n] = "severed"
  /\ pg' = [pg EXCEPT ![n] = "off"]
  /\ UNCHANGED <<holder, vip, fs, env, hostVars, nodeVars, engineVars, peerVars, mpc, pc>>

\* The postmaster looks at its lock file once a minute and shuts down without it.
PgLockFileMissed(n) ==
  /\ pg[n] = "unseen"
  /\ pg' = [pg EXCEPT ![n] = "off"]
  /\ UNCHANGED <<holder, vip, fs, env, hostVars, nodeVars, engineVars, peerVars, mpc, pc>>

\* The flag file is on a tmpfs, the attachment and the alias IP survive.
VmCrash(n) ==
  /\ up[n] /\ Spend("vm")
  /\ up' = [up EXCEPT ![n] = FALSE]
  /\ fs' = [fs EXCEPT ![n] = "none"]
  /\ pg' = [pg EXCEPT ![n] = "off"]
  /\ maint' = [maint EXCEPT ![n] = FALSE]
  /\ KillDaemon(n)
  /\ UNCHANGED <<holder, vip, net>>

VmBoot(n) ==
  /\ ~up[n] /\ Spend("boot")
  /\ up' = [up EXCEPT ![n] = TRUE]
  /\ UNCHANGED <<holder, vip, fs, pg, net, maint, nodeVars, engineVars, peerVars, mpc, pc>>

\* The process dies of an uncaught exception, a kill or the lack of memory;
\* PostgreSQL goes on, and systemd restarts the daemon.
DaemonCrash(n) ==
  /\ Running(n) /\ Spend("daemon")
  /\ KillDaemon(n)
  /\ UNCHANGED <<holder, vip, fs, pg, hostVars>>

\* run(): the servers and the heartbeat threads start, then the election.
DaemonStart(n) ==
  /\ up[n] /\ mpc[n] = "down"
  /\ MainGoto(n, "elect")
  /\ UNCHANGED <<resVars, hostVars, nodeVars, engineVars, peerVars, pc>>

Partition ==
  /\ net /\ Spend("net") /\ net' = FALSE
  /\ UNCHANGED <<holder, vip, fs, pg, up, maint, nodeVars, engineVars, peerVars, mpc, pc>>

Heal ==
  /\ ~net /\ net' = TRUE
  /\ UNCHANGED <<resVars, up, maint, nodeVars, engineVars, peerVars, mpc, pc>>

---------------------------------------------------------------------------
\* The specification

\* A cold start: both VMs up, the disk attached nowhere, the alias IP on the
\* VM it was created with, no daemon started yet.
Init ==
  /\ holder = NoNode /\ vip = {InstancePrimary}
  /\ fs = [n \in Node |-> "none"] /\ pg = [n \in Node |-> "off"]
  /\ up = [n \in Node |-> TRUE] /\ net = TRUE /\ maint = [n \in Node |-> FALSE]
  /\ mpc = [n \in Node |-> "down"]
  /\ pc = [n \in Node |-> [t \in Thread |-> "idle"]]
  /\ role = [n \in Node |-> "unknown"] /\ disk = [n \in Node |-> "unknown"]
  /\ swActive = [n \in Node |-> FALSE] /\ grace = [n \in Node |-> FALSE]
  /\ attempts = [n \in Node |-> 0] /\ backoff = [n \in Node |-> FALSE]
  /\ peerFree = [n \in Node |-> FALSE]
  /\ alive = [n \in Node |-> FALSE] /\ deadQ = [n \in Node |-> 0]
  /\ inbox = [n \in Node |-> {}]
  /\ env \in Scenarios

FallbackStep(n) == ReadGrace(n) \/ ReadFlags(n) \/ HeartbeatFallback(n)
MainStep(n)   == HandlePeerDead(n) \/ FallbackStep(n) \/ SelfDemoteStart(n)
                 \/ SelfDemoteStep(n) \/ ElectionStep(n)
WorkerStep(n, t) == FailoverStep(n, t) \/ DemotionStep(n, t) \/ PromotionStep(n, t)
PeerServerStep(n) == HandleSwitchoverRequest(n) \/ HandleHandoff(n) \/ HandleMaintenance(n)
MgmtStep(n)   == RequestSwitchover(n) \/ MaintenanceOn(n) \/ MaintenanceOff(n)
HeartbeatStep(n) == ReceiveHeartbeat(n) \/ DeclarePeerDead(n)
TimerStep(n)  == GraceExpires(n) \/ BackoffExpires(n)
FailureStep(n) == PgCrash(n) \/ PgIoCrash(n) \/ PgLockFileMissed(n) \/ VmCrash(n)
                  \/ VmBoot(n) \/ DaemonCrash(n) \/ DaemonStart(n)

Next ==
  \/ \E n \in Node : \/ MainStep(n)
                     \/ \E t \in Thread : WorkerStep(n, t)
                     \/ PeerServerStep(n)
                     \/ MgmtStep(n)
                     \/ HeartbeatStep(n)
                     \/ TimerStep(n)
                     \/ FailureStep(n)
  \/ Partition
  \/ Heal

Spec == Init /\ [][Next]_vars
=============================================================================
