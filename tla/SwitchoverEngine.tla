-------------------------- MODULE SwitchoverEngine --------------------------
(***************************************************************************)
(* ha/switchover.py with the two daemon wrappers that run it: the demotion *)
(* of the PRIMARY, labels sw, and the promotion of the STANDBY with its    *)
(* rollback, labels pr and rb.  A demotion step that raises ends the run   *)
(* with nothing undone; a promotion step that raises undoes the completed  *)
(* ones.                                                                   *)
(***************************************************************************)
EXTENDS CloudOps

---------------------------------------------------------------------------
\* Demotion of the PRIMARY

\* _run_switchover up to the role check of execute_as_primary.
SwBegin(n, t) ==
  /\ pc[n][t] = "sw_begin"
  /\ swActive' = [swActive EXCEPT ![n] = TRUE]
  /\ Goto(n, t, IF role[n] = "primary" THEN "sw_pre" ELSE "sw_end")
  /\ UNCHANGED <<resVars, hostVars, role, disk, grace, engineVars, peerVars, mpc>>

\* _step_pre_check: probes for 30 s.
SwPreCheck(n, t) ==
  /\ pc[n][t] = "sw_pre"
  /\ Goto(n, t, IF DaemonReachable(n) THEN "sw_vip" ELSE "sw_end")
  /\ UNCHANGED <<resVars, hostVars, nodeVars, engineVars, peerVars, mpc>>

\* Mutant: PostgreSQL is not stopped before the disk leaves.
SwReleaseVipThenUmount(n, t) ==
  /\ pc[n][t] = "sw_vip"
  /\ \E ok \in BOOLEAN : /\ ReleaseVip(n, ok)
                         /\ Goto(n, t, IF ok THEN "sw_umount" ELSE "sw_end")
  /\ UNCHANGED <<hostVars, nodeVars, engineVars, peerVars, mpc>>

SwReleaseVip(n, t) ==
  /\ pc[n][t] = "sw_vip"
  /\ \E ok \in BOOLEAN : /\ ReleaseVip(n, ok)
                         /\ Goto(n, t, IF ok THEN "sw_pg" ELSE "sw_end")
  /\ UNCHANGED <<hostVars, nodeVars, engineVars, peerVars, mpc>>

SwStopPostgres(n, t) ==
  /\ pc[n][t] = "sw_pg"
  /\ \E ok \in BOOLEAN : /\ StopPostgres(n, ok)
                         /\ Goto(n, t, IF ok THEN "sw_umount" ELSE "sw_end")
  /\ UNCHANGED <<hostVars, nodeVars, engineVars, peerVars, mpc>>

SwUmount(n, t) ==
  /\ pc[n][t] = "sw_umount"
  /\ \E ok \in BOOLEAN : /\ UnmountDisk(n, ok)
                         /\ Goto(n, t, IF ok THEN "sw_detach" ELSE "sw_end")
  /\ UNCHANGED <<hostVars, nodeVars, engineVars, peerVars, mpc>>

\* The report follows the detach at once: the role is PRIMARY for two steps more,
\* so that nobody reads it before.
SwDetach(n, t) ==
  /\ pc[n][t] = "sw_detach"
  /\ \E ok \in BOOLEAN :
       /\ DetachFrom(n, ok)
       /\ Goto(n, t, IF ok THEN "sw_signal" ELSE "sw_end")
       /\ disk' = IF ok THEN [disk EXCEPT ![n] = "detached"] ELSE disk
  /\ UNCHANGED <<hostVars, role, swActive, grace, engineVars, peerVars, mpc>>

\* _step_signal_peer: the request may arrive and its acknowledgement be lost.
SwSignalPeer(n, t) ==
  /\ pc[n][t] = "sw_signal"
  /\ \/ /\ DaemonReachable(n)
        /\ inbox' = [inbox EXCEPT ![Peer(n)] = @ \cup {"switchover"}]
        /\ \/ Goto(n, t, "sw_demote") /\ UNCHANGED env
           \/ Goto(n, t, "sw_end") /\ Fault("tcp")
     \/ /\ Goto(n, t, "sw_end") /\ UNCHANGED inbox
        /\ \/ ~DaemonReachable(n) /\ UNCHANGED env
           \/ DaemonReachable(n) /\ Fault("tcp")
  /\ UNCHANGED <<holder, vip, fs, pg, hostVars, nodeVars, engineVars,
                 peerFree, alive, deadQ, mpc>>

SwDemote(n, t) ==
  /\ pc[n][t] = "sw_demote"
  /\ role' = [role EXCEPT ![n] = "standby"]
  /\ Goto(n, t, "sw_end")
  /\ UNCHANGED <<resVars, hostVars, disk, swActive, grace, engineVars, peerVars, mpc>>

\* The finally clause of _run_switchover.
SwEnd(n, t) ==
  /\ pc[n][t] = "sw_end"
  /\ grace' = [grace EXCEPT ![n] = TRUE]
  /\ swActive' = [swActive EXCEPT ![n] = FALSE]
  /\ Goto(n, t, "idle")
  /\ UNCHANGED <<resVars, hostVars, role, disk, engineVars, peerVars, mpc>>

DemotionStep(n, t) ==
  \/ SwBegin(n, t)
  \/ SwPreCheck(n, t)
  \/ SwReleaseVip(n, t)
  \/ SwStopPostgres(n, t)
  \/ SwUmount(n, t)
  \/ SwDetach(n, t)
  \/ SwSignalPeer(n, t)
  \/ SwDemote(n, t)
  \/ SwEnd(n, t)

---------------------------------------------------------------------------
\* Promotion of the STANDBY

\* execute_as_standby up to the holder check of _step_attach_disk.
PrBegin(n, t) ==
  /\ pc[n][t] = "pr_begin"
  /\ \/ /\ role[n] # "standby"
        /\ Goto(n, t, "pr_end")
        /\ UNCHANGED resVars
     \/ /\ role[n] = "standby"
        /\ \E h \in Node \cup {NoNode} :
             /\ CurrentRwHolder(h)
             /\ Goto(n, t, IF h = Peer(n) THEN "pr_end" ELSE "pr_attach")
  /\ UNCHANGED <<hostVars, nodeVars, engineVars, peerVars, mpc>>

\* The rest of _step_attach_disk; a failure here has nothing to roll back.
PrAttach(n, t) ==
  /\ pc[n][t] = "pr_attach"
  /\ \E ok \in BOOLEAN : /\ AttachDiskRw(n, ok)
                         /\ Goto(n, t, IF ok THEN "pr_report" ELSE "pr_end")
  /\ UNCHANGED <<hostVars, nodeVars, engineVars, peerVars, mpc>>

PrReportAttached(n, t) ==
  /\ pc[n][t] = "pr_report"
  /\ disk' = [disk EXCEPT ![n] = "attached_rw"]
  /\ Goto(n, t, "pr_mount")
  /\ UNCHANGED <<resVars, hostVars, role, swActive, grace, engineVars, peerVars, mpc>>

\* Mutant: a failed mount is not rolled back.
PrMountNoRollback(n, t) ==
  /\ pc[n][t] = "pr_mount"
  /\ \E ok \in BOOLEAN : /\ MountDisk(n, ok)
                         /\ Goto(n, t, IF ok THEN "pr_pg" ELSE "pr_end")
  /\ UNCHANGED <<hostVars, nodeVars, engineVars, peerVars, mpc>>

PrMount(n, t) ==
  /\ pc[n][t] = "pr_mount"
  /\ \E ok \in BOOLEAN : /\ MountDisk(n, ok)
                         /\ Goto(n, t, IF ok THEN "pr_pg" ELSE "rb_detach")
  /\ UNCHANGED <<hostVars, nodeVars, engineVars, peerVars, mpc>>

PrStartPostgres(n, t) ==
  /\ pc[n][t] = "pr_pg"
  /\ \E ok \in BOOLEAN : /\ StartWithRetries(n, ok)
                         /\ Goto(n, t, IF ok THEN "pr_vip" ELSE "rb_umount")
  /\ UNCHANGED <<hostVars, nodeVars, engineVars, peerVars, mpc>>

PrAcquireVip(n, t) ==
  /\ pc[n][t] = "pr_vip"
  /\ \E ok \in BOOLEAN : /\ AcquireVip(n, ok)
                         /\ Goto(n, t, IF ok THEN "pr_promote" ELSE "rb_pg")
  /\ UNCHANGED <<hostVars, nodeVars, engineVars, peerVars, mpc>>

PrPromote(n, t) ==
  /\ pc[n][t] = "pr_promote"
  /\ role' = [role EXCEPT ![n] = "primary"]
  /\ Goto(n, t, "pr_end")
  /\ UNCHANGED <<resVars, hostVars, disk, swActive, grace, engineVars, peerVars, mpc>>

\* _rollback_promotion, entered at the last completed step; a rollback step
\* that raises does not stop the ones after it.
RbStopPostgres(n, t) ==
  /\ pc[n][t] = "rb_pg"
  /\ \E ok \in BOOLEAN : StopPostgres(n, ok)
  /\ Goto(n, t, "rb_umount")
  /\ UNCHANGED <<hostVars, nodeVars, engineVars, peerVars, mpc>>

RbUnmount(n, t) ==
  /\ pc[n][t] = "rb_umount"
  /\ \E ok \in BOOLEAN : UnmountDisk(n, ok)
  /\ Goto(n, t, "rb_detach")
  /\ UNCHANGED <<hostVars, nodeVars, engineVars, peerVars, mpc>>

\* That the disk is free again is reported at once; a heartbeat that still says
\* otherwise is one that was sent before.
RbDetach(n, t) ==
  /\ pc[n][t] = "rb_detach"
  /\ \E ok \in BOOLEAN :
       /\ DetachFrom(n, ok)
       /\ disk' = IF ok THEN [disk EXCEPT ![n] = "detached"] ELSE disk
  /\ Goto(n, t, "pr_end")
  /\ UNCHANGED <<hostVars, role, swActive, grace, engineVars, peerVars, mpc>>

\* The finally clause of _run_switchover_as_standby.
PrEnd(n, t) ==
  /\ pc[n][t] = "pr_end"
  /\ swActive' = [swActive EXCEPT ![n] = FALSE]
  /\ Goto(n, t, "idle")
  /\ UNCHANGED <<resVars, hostVars, role, disk, grace, engineVars, peerVars, mpc>>

PromotionStep(n, t) ==
  \/ PrBegin(n, t)
  \/ PrAttach(n, t)
  \/ PrReportAttached(n, t)
  \/ PrMount(n, t)
  \/ PrStartPostgres(n, t)
  \/ PrAcquireVip(n, t)
  \/ PrPromote(n, t)
  \/ RbStopPostgres(n, t)
  \/ RbUnmount(n, t)
  \/ RbDetach(n, t)
  \/ PrEnd(n, t)
=============================================================================
