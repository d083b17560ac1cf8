------------------------------ MODULE CloudOps ------------------------------
(***************************************************************************)
(* What DiskManager and NetworkManager do to the cloud and to the host,    *)
(* one operator per public method.  The parameter `ok` is how the call     *)
(* ends: TRUE, it returns; FALSE, it raises.  The two are independent of   *)
(* whether the effect took place: a detach whose device lookup fails       *)
(* returns without detaching, and an operation that GCP completes after    *)
(* the poll gave up raises although its effect stands.  An outcome that    *)
(* needs an API or command failure costs one `Fault`.                      *)
(***************************************************************************)
EXTENDS HaState

\* The disk moves to h (or to nowhere): on every other node the mount goes
\* stale and a running postmaster keeps its port but loses its disk.
MoveDisk(h) ==
  /\ holder' = h
  /\ fs' = [n \in Node |-> IF n # h /\ fs[n] = "live" THEN "stale" ELSE fs[n]]
  /\ pg' = [n \in Node |-> IF n # h /\ Writing(n) THEN "severed" ELSE pg[n]]

DiskStays == UNCHANGED <<holder, fs, pg>>

---------------------------------------------------------------------------
\* DiskManager

\* current_rw_holder: an API failure reads as "attached nowhere", and so does a
\* disk that moves between its two requests (DiskCalls has both).
CurrentRwHolder(h) ==
  /\ \/ h = holder /\ UNCHANGED env
     \/ holder # NoNode /\ h = NoNode /\ Fault("query")
  /\ DiskStays /\ UNCHANGED vip

\* attach_disk_rw: forceAttach=true takes the disk from whoever holds it.
AttachDiskRw(n, ok) ==
  /\ \/ ok /\ MoveDisk(n) /\ UNCHANGED env
     \/ ~ok /\ Fault("attach") /\ (MoveDisk(n) \/ DiskStays)
  /\ UNCHANGED vip

\* detach_disk (victim is the caller) and force_detach_from_peer.  A failed
\* lookup reads as "not attached" and returns; so does the force-detach whose
\* request is lost.
DetachFrom(victim, ok) ==
  /\ \/ ok /\ holder = victim /\ MoveDisk(NoNode) /\ UNCHANGED env
     \/ ok /\ holder # victim /\ DiskStays /\ UNCHANGED env
     \/ ok /\ holder = victim /\ Fault("lookup") /\ DiskStays
     \/ ~ok /\ holder = victim /\ Fault("detach") /\ (MoveDisk(NoNode) \/ DiskStays)
  /\ UNCHANGED vip

\* Mutant: the device node is not waited for.
MountDiskBlindly(n, ok) ==
  /\ \/ ok /\ fs' = [fs EXCEPT ![n] = "live"] /\ UNCHANGED env
     \/ ~ok /\ Fault("mount") /\ UNCHANGED fs
  /\ UNCHANGED <<holder, pg, vip>>

\* mount_disk: raises when the device node is absent, replaces a stale mount.
MountDisk(n, ok) ==
  /\ \/ ok /\ holder = n /\ fs' = [fs EXCEPT ![n] = "live"] /\ UNCHANGED env
     \/ ~ok /\ holder # n /\ UNCHANGED <<fs, env>>
     \/ ~ok /\ holder = n /\ Fault("mount") /\ UNCHANGED fs
  /\ UNCHANGED <<holder, pg, vip>>

\* unmount_disk: falls back to a lazy unmount, so a running PostgreSQL does
\* not make it fail.
UnmountDisk(n, ok) ==
  /\ \/ ok /\ fs' = [fs EXCEPT ![n] = "none"] /\ UNCHANGED env
     \/ ~ok /\ fs[n] # "none" /\ Fault("umount") /\ UNCHANGED fs
  /\ UNCHANGED <<holder, pg, vip>>

\* A start that fails leaves the server as it was or in one of the states
\* `left`.  A server that pg_ctl status finds counts as a success whatever it
\* can still do; one it does not find keeps the port, and the start fails: its
\* postmaster.pid was removed, or belongs to the peer's server by now.
StartServer(n, ok, left) ==
  /\ \/ /\ ok /\ fs[n] = "live" /\ pg[n] # "unseen" /\ UNCHANGED env
        /\ pg' = [pg EXCEPT ![n] = IF @ = "off" THEN "on" ELSE @]
     \/ /\ ~ok /\ UNCHANGED <<pg, env>>
        /\ fs[n] # "live" \/ pg[n] \in {"unseen", "severed"}
     \/ /\ ~ok /\ fs[n] = "live" /\ pg[n] \in {"off", "on"} /\ Fault("start")
        /\ \E state \in left \cup {pg[n]} : pg' = [pg EXCEPT ![n] = state]
  /\ UNCHANGED <<holder, fs, vip>>

\* start_postgres: a pg_ctl that reports failure may have started the server.
StartPostgres(n, ok) == StartServer(n, ok, {"on"})

\* _step_start_postgres of both engines: between two of its attempts it removes
\* postmaster.pid, also that of a server that came up, or that ran all the time,
\* while pg_ctl reported otherwise.
StartWithRetries(n, ok) == StartServer(n, ok, {"on", "unseen"})

\* stop_postgres: a non-zero exit of pg_ctl is only logged; without a readable
\* data directory and the server's postmaster.pid it cannot stop anything;
\* TimeoutExpired raises.
StopPostgres(n, ok) ==
  /\ \/ /\ ok /\ UNCHANGED env
        /\ pg' = [pg EXCEPT ![n] = IF fs[n] = "live" /\ @ # "unseen" THEN "off" ELSE @]
     \/ ok /\ pg[n] = "severed" /\ UNCHANGED <<pg, env>>
     \/ ok /\ pg[n] # "off" /\ Fault("stop") /\ UNCHANGED pg
     \/ /\ ~ok /\ pg[n] \in {"on", "severed"} /\ Fault("stop")
        /\ pg' \in {pg, [pg EXCEPT ![n] = "off"]}
  /\ UNCHANGED <<holder, fs, vip>>

\* _kill_mount_users: SIGKILL to whoever has files open below the mount point;
\* a failed scan of /proc kills nobody.
KillMountUsers(n) ==
  /\ \/ UNCHANGED env /\ pg' = [pg EXCEPT ![n] = IF fs[n] = "none" THEN @ ELSE "off"]
     \/ pg[n] # "off" /\ Fault("kill") /\ UNCHANGED pg
  /\ UNCHANGED <<holder, fs, vip>>

\* get_instance_status as VERIFY reads it: the peer is down, it is not, or
\* the API does not answer.
InstanceStatus(n, status) ==
  /\ \/ status = (IF up[n] THEN "running" ELSE "down") /\ UNCHANGED env
     \/ status = "unknown" /\ Fault("status")
  /\ DiskStays /\ UNCHANGED vip

---------------------------------------------------------------------------
\* NetworkManager

\* acquire_vip: take the alias from the peer, then add it here.  When the
\* peer's NIC cannot be read the alias counts as absent there.
AcquireVip(n, ok) ==
  /\ \/ ok /\ vip' = {n} /\ UNCHANGED env
     \/ ok /\ vip' = vip \cup {n} /\ Fault("vip")
     \/ ~ok /\ Fault("vip") /\ vip' \in {vip, vip \ {Peer(n)}, {n}, vip \cup {n}}
  /\ DiskStays

ReleaseVip(n, ok) ==
  /\ \/ ok /\ vip' = vip \ {n} /\ UNCHANGED env
     \/ ~ok /\ Fault("vip") /\ vip' \in {vip, vip \ {n}}
  /\ DiskStays
=============================================================================
