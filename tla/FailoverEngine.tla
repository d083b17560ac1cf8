--------------------------- MODULE FailoverEngine ---------------------------
(***************************************************************************)
(* ha/failover.py: execute() and its steps, run by a worker thread.  Every *)
(* step is an action, since the peer, the main loop and other threads run  *)
(* between two of them.  A step that raises ends the run: what the earlier *)
(* steps acquired stays acquired.                                          *)
(***************************************************************************)
EXTENDS CloudOps


\* Mutant: the limit on attempts is forgotten.
ShouldAttemptForever(n) == role[n] = "standby" /\ ~(attempts[n] > 0 /\ backoff[n])

\* should_attempt
ShouldAttempt(n) ==
  /\ role[n] = "standby"
  /\ attempts[n] < MaxAttempts
  /\ ~(attempts[n] > 0 /\ backoff[n])

\* execute, up to the first step: counts the attempt and starts the back-off.
FoBegin(n, t) ==
  /\ \/ pc[n][t] = "fo_begin" /\ Goto(n, t, "fo_verify")
     \/ pc[n][t] = "fo_begin_skip" /\ Goto(n, t, "fo_attach")
  /\ attempts' = [attempts EXCEPT ![n] = @ + 1]
  /\ backoff' = [backoff EXCEPT ![n] = TRUE]
  /\ UNCHANGED <<resVars, hostVars, nodeVars, peerVars, mpc>>

\* _step_verify_peer_state: an unknown status aborts, and so does a peer that
\* is not down and whose PostgreSQL port answers.
FoVerify(n, t) ==
  /\ pc[n][t] = "fo_verify"
  /\ \E status \in {"running", "down", "unknown"} :
       /\ InstanceStatus(Peer(n), status)
       /\ Goto(n, t, IF \/ status = "unknown"
                        \/ status = "running" /\ PgReachable(n)
                     THEN "idle" ELSE "fo_fence")
  /\ UNCHANGED <<hostVars, nodeVars, engineVars, peerVars, mpc>>

\* _step_fence, and the settle wait that follows it.
FoFence(n, t) ==
  /\ pc[n][t] = "fo_fence"
  /\ \E ok \in BOOLEAN : /\ DetachFrom(Peer(n), ok)
                         /\ Goto(n, t, IF ok THEN "fo_attach" ELSE "idle")
  /\ UNCHANGED <<hostVars, nodeVars, engineVars, peerVars, mpc>>

\* _step_attach_disk, its retries folded into one outcome.
FoAttach(n, t) ==
  /\ pc[n][t] = "fo_attach"
  /\ \E ok \in BOOLEAN : /\ AttachDiskRw(n, ok)
                         /\ Goto(n, t, IF ok THEN "fo_report" ELSE "idle")
  /\ UNCHANGED <<hostVars, nodeVars, engineVars, peerVars, mpc>>

\* Mutant: the advertised disk state is not updated.
FoReportNothing(n, t) ==
  /\ pc[n][t] = "fo_report"
  /\ Goto(n, t, "fo_mount")
  /\ UNCHANGED <<resVars, hostVars, nodeVars, engineVars, peerVars, mpc>>

\* The end of _step_attach_disk: until here the node, which holds the disk,
\* advertises that it is free.
FoReportAttached(n, t) ==
  /\ pc[n][t] = "fo_report"
  /\ disk' = [disk EXCEPT ![n] = "attached_rw"]
  /\ Goto(n, t, "fo_mount")
  /\ UNCHANGED <<resVars, hostVars, role, swActive, grace, engineVars, peerVars, mpc>>

FoMount(n, t) ==
  /\ pc[n][t] = "fo_mount"
  /\ \E ok \in BOOLEAN : /\ MountDisk(n, ok)
                         /\ Goto(n, t, IF ok THEN "fo_pg" ELSE "idle")
  /\ UNCHANGED <<hostVars, nodeVars, engineVars, peerVars, mpc>>

\* Mutant: the result of pg_ctl start is ignored.
FoStartPostgresUnchecked(n, t) ==
  /\ pc[n][t] = "fo_pg"
  /\ \E ok \in BOOLEAN : StartWithRetries(n, ok)
  /\ Goto(n, t, "fo_vip")
  /\ UNCHANGED <<hostVars, nodeVars, engineVars, peerVars, mpc>>

FoStartPostgres(n, t) ==
  /\ pc[n][t] = "fo_pg"
  /\ \E ok \in BOOLEAN : /\ StartWithRetries(n, ok)
                         /\ Goto(n, t, IF ok THEN "fo_vip" ELSE "idle")
  /\ UNCHANGED <<hostVars, nodeVars, engineVars, peerVars, mpc>>

FoAcquireVip(n, t) ==
  /\ pc[n][t] = "fo_vip"
  /\ \E ok \in BOOLEAN : /\ AcquireVip(n, ok)
                         /\ Goto(n, t, IF ok THEN "fo_promote" ELSE "idle")
  /\ UNCHANGED <<hostVars, nodeVars, engineVars, peerVars, mpc>>

\* _step_promote, and the end of execute.
FoPromote(n, t) ==
  /\ pc[n][t] = "fo_promote"
  /\ role' = [role EXCEPT ![n] = "primary"]
  /\ attempts' = [attempts EXCEPT ![n] = 0]
  /\ Goto(n, t, "idle")
  /\ UNCHANGED <<resVars, hostVars, disk, swActive, grace, backoff, peerVars, mpc>>

FailoverStep(n, t) ==
  \/ FoBegin(n, t)
  \/ FoVerify(n, t)
  \/ FoFence(n, t)
  \/ FoAttach(n, t)
  \/ FoReportAttached(n, t)
  \/ FoMount(n, t)
  \/ FoStartPostgres(n, t)
  \/ FoAcquireVip(n, t)
  \/ FoPromote(n, t)
=============================================================================
