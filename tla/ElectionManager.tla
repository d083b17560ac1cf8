--------------------------- MODULE ElectionManager ---------------------------
(***************************************************************************)
(* cluster/election.py: the startup election, run by the main thread while *)
(* the heartbeat threads and the peer server are already up.  The node     *)
(* that holds the disk resumes as PRIMARY, a node whose peer holds it      *)
(* becomes STANDBY, and a free disk is raced for.                          *)
(***************************************************************************)
EXTENDS CloudOps

\* _become_standby: the advertised disk state becomes DETACHED whatever the
\* cloud says.  The main loop follows.
BecomeStandby(n) ==
  /\ role' = [role EXCEPT ![n] = "standby"]
  /\ disk' = [disk EXCEPT ![n] = "detached"]
  /\ MainGoto(n, "loop")

\* The process ends: threads and memory are gone, the host and the cloud keep
\* what they have.
KillDaemon(n) ==
  /\ MainGoto(n, "down")
  /\ pc' = [pc EXCEPT ![n] = [t \in Thread |-> "idle"]]
  /\ role' = [role EXCEPT ![n] = "unknown"]
  /\ disk' = [disk EXCEPT ![n] = "unknown"]
  /\ swActive' = [swActive EXCEPT ![n] = FALSE]
  /\ grace' = [grace EXCEPT ![n] = FALSE]
  /\ attempts' = [attempts EXCEPT ![n] = 0]
  /\ backoff' = [backoff EXCEPT ![n] = FALSE]
  /\ peerFree' = [peerFree EXCEPT ![n] = FALSE]
  /\ alive' = [alive EXCEPT ![n] = FALSE]
  /\ deadQ' = [deadQ EXCEPT ![n] = 0]
  /\ inbox' = [inbox EXCEPT ![n] = {}]

\* elect: one question to the cloud decides the branch.
Elect(n) ==
  /\ mpc[n] = "elect"
  /\ \E h \in Node \cup {NoNode} :
       /\ CurrentRwHolder(h)
       /\ \/ h = n /\ MainGoto(n, "el_mount") /\ UNCHANGED <<role, disk>>
          \/ h = Peer(n) /\ BecomeStandby(n)
          \/ h = NoNode /\ MainGoto(n, "el_attach") /\ UNCHANGED <<role, disk>>
  /\ UNCHANGED <<hostVars, swActive, grace, engineVars, peerVars, pc>>

\* _compete_for_primary after its jitter.  A RuntimeError counts as a lost
\* race; a TimeoutError is not caught and ends the process.
ElCompete(n) ==
  /\ mpc[n] = "el_attach"
  /\ \/ /\ AttachDiskRw(n, TRUE)
        /\ MainGoto(n, "el_mount")
        /\ UNCHANGED <<nodeVars, engineVars, peerVars, pc>>
     \/ /\ AttachDiskRw(n, FALSE)
        /\ BecomeStandby(n)
        /\ UNCHANGED <<swActive, grace, engineVars, peerVars, pc>>
     \/ /\ AttachDiskRw(n, FALSE)
        /\ KillDaemon(n)
  /\ UNCHANGED hostVars

\* _become_primary; any step that raises leads to the rollback.
ElMount(n) ==
  /\ mpc[n] = "el_mount"
  /\ \E ok \in BOOLEAN : /\ MountDisk(n, ok)
                         /\ MainGoto(n, IF ok THEN "el_pg" ELSE "el_rb_pg")
  /\ UNCHANGED <<hostVars, nodeVars, engineVars, peerVars, pc>>

ElStartPostgres(n) ==
  /\ mpc[n] = "el_pg"
  /\ \E ok \in BOOLEAN : /\ StartPostgres(n, ok)
                         /\ MainGoto(n, IF ok THEN "el_vip" ELSE "el_rb_pg")
  /\ UNCHANGED <<hostVars, nodeVars, engineVars, peerVars, pc>>

ElAcquireVip(n) ==
  /\ mpc[n] = "el_vip"
  /\ \/ /\ AcquireVip(n, TRUE)
        /\ role' = [role EXCEPT ![n] = "primary"]
        /\ disk' = [disk EXCEPT ![n] = "attached_rw"]
        /\ MainGoto(n, "loop")
     \/ /\ AcquireVip(n, FALSE)
        /\ MainGoto(n, "el_rb_pg")
        /\ UNCHANGED <<role, disk>>
  /\ UNCHANGED <<hostVars, swActive, grace, engineVars, peerVars, pc>>

\* Mutant: the rollback leaves PostgreSQL alone.
ElRollbackStopNothing(n) ==
  /\ mpc[n] = "el_rb_pg"
  /\ MainGoto(n, "el_rb_umount")
  /\ UNCHANGED <<resVars, hostVars, nodeVars, engineVars, peerVars, pc>>

\* _rollback_primary stops PostgreSQL and unmounts; it does not detach.
ElRollbackStop(n) ==
  /\ mpc[n] = "el_rb_pg"
  /\ \E ok \in BOOLEAN : StopPostgres(n, ok)
  /\ MainGoto(n, "el_rb_umount")
  /\ UNCHANGED <<hostVars, nodeVars, engineVars, peerVars, pc>>

ElRollbackUnmount(n) ==
  /\ mpc[n] = "el_rb_umount"
  /\ \E ok \in BOOLEAN : UnmountDisk(n, ok)
  /\ BecomeStandby(n)
  /\ UNCHANGED <<hostVars, swActive, grace, engineVars, peerVars, pc>>

ElectionStep(n) ==
  \/ Elect(n)
  \/ ElCompete(n)
  \/ ElMount(n)
  \/ ElStartPostgres(n)
  \/ ElAcquireVip(n)
  \/ ElRollbackStop(n)
  \/ ElRollbackUnmount(n)
=============================================================================
