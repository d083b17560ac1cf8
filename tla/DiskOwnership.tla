--------------------------- MODULE DiskOwnership ---------------------------
(***************************************************************************)
(* What the cluster promises about its one READ_WRITE disk, with no        *)
(* daemon, role, engine or mount in sight: the disk has at most one owner; *)
(* a server is started only where the disk is; a server whose disk is      *)
(* taken away loses it for good and can only be stopped.  It is a safety   *)
(* specification: nothing has to happen.                                   *)
(***************************************************************************)
CONSTANTS
  Host,    \* the VMs
  NoHost   \* the owner of a disk that is attached nowhere

VARIABLES
  owner,   \* the host the disk is attached to, or NoHost
  server   \* server[h]: "off", "on" (it can write), or "severed" (it no longer can)

vars == <<owner, server>>

Init ==
  /\ owner \in Host \cup {NoHost}
  /\ \E running \in SUBSET (Host \cap {owner}) :
       server = [h \in Host |-> IF h \in running THEN "on" ELSE "off"]

\* The disk goes to h, or to nobody, whoever had it.
Transfer(h) ==
  /\ owner' = h
  /\ server' = [g \in Host |-> IF g # h /\ server[g] = "on" THEN "severed" ELSE server[g]]

Start(h) ==
  /\ owner = h /\ server[h] = "off"
  /\ server' = [server EXCEPT ![h] = "on"]
  /\ UNCHANGED owner

Stop(h) ==
  /\ server[h] # "off"
  /\ server' = [server EXCEPT ![h] = "off"]
  /\ UNCHANGED owner

Next ==
  \/ \E h \in Host \cup {NoHost} : Transfer(h)
  \/ \E h \in Host : Start(h) \/ Stop(h)

Spec == Init /\ [][Next]_vars
=============================================================================
