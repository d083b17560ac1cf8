----------------------------- MODULE NicAliases -----------------------------
(***************************************************************************)
(* NetworkManager step by step: acquire_vip and release_vip of the daemons *)
(* of one or more clusters on the same pair of VMs (DEPLOYMENT_GUIDE.md,   *)
(* "multiple independent DB clusters on the same pair of VMs"), which      *)
(* share the two NICs.  CloudOps has each call in one step; here are the   *)
(* reads, the PATCH of the whole alias list under a fingerprint, its       *)
(* retries and the operation GCP completes in its own time.                *)
(*                                                                         *)
(* A cluster stands for its VIP range.  GCP is external: it accepts a      *)
(* PATCH with the current fingerprint when no other operation is under way *)
(* on the NIC (otherwise 412, 409), and changes the fingerprint with the   *)
(* list; it may refuse a range that the other NIC holds.                   *)
(***************************************************************************)
EXTENDS Naturals, FiniteSets

CONSTANTS
  Cluster,         \* the clusters, each with a daemon on both VMs
  InstancePrimary, InstanceStandby,
  MaxRetries,      \* max_retries of _patch_nic_aliases
  Faults,          \* how many API calls may fail (bound)
  Calls            \* how many calls the daemons make in all (bound)

ASSUME NicAssumption ==
  /\ InstancePrimary # InstanceStandby
  /\ MaxRetries \in Nat \ {0} /\ Faults \in Nat /\ Calls \in Nat

Node   == {InstancePrimary, InstanceStandby}
Daemon == Cluster \X Node
Vip(d) == d[1]
Own(d) == d[2]
PeerOf(d) == IF Own(d) = InstancePrimary THEN InstanceStandby ELSE InstancePrimary

VARIABLES
  aliases,     \* per NIC: the alias ranges
  fingerprint, \* per NIC: how often its list changed
  operation,   \* per NIC: the operation under way, if any
  pc,          \* per daemon: the next step of its call
  method,      \* per daemon: "acquire" or "release"
  target,      \* per daemon: the NIC it works on
  newRanges,   \* per daemon: new_ranges, computed once
  seen,        \* per daemon: the fingerprint it sends
  attempt,     \* per daemon: attempt
  before,      \* per daemon: where its VIP was when the call began (history)
  disturbed,   \* the daemons whose VIP somebody else moved since (history)
  left         \* faults and calls still to come

nicVars  == <<aliases, fingerprint, operation>>
callVars == <<method, target, newRanges, seen, attempt>>
histVars == <<before, disturbed>>
vars == <<nicVars, pc, callVars, histVars, left>>

Returned == {"ok", "failed"}
Request  == [by : Daemon, ranges : SUBSET Cluster, attempt : 1..MaxRetries]

TypeOK ==
  /\ aliases \in [Node -> SUBSET Cluster] /\ fingerprint \in [Node -> Nat]
  /\ operation \in [Node -> SUBSET Request]
  /\ pc \in [Daemon -> Returned \cup {"check", "get", "patch", "refetch", "wait", "verify"}]
  /\ method \in [Daemon -> {"none", "acquire", "release"}] /\ target \in [Daemon -> Node]
  /\ newRanges \in [Daemon -> SUBSET Cluster] /\ seen \in [Daemon -> Nat]
  /\ attempt \in [Daemon -> 1..MaxRetries]
  /\ before \in [Daemon -> SUBSET Node] /\ disturbed \subseteq Daemon
  /\ left \in [faults : 0..Faults, calls : 0..Calls]

Placed(c) == {n \in Node : c \in aliases[n]}
Fault == left.faults > 0 /\ left' = [left EXCEPT !.faults = @ - 1]
NoFault == UNCHANGED left
Goto(d, label) == pc' = [pc EXCEPT ![d] = label]
Raise(d) == Fault /\ Goto(d, "failed")

\* acquire_vip removes the alias from the peer before it adds it here.
Removing(d) == method[d] = "release" \/ target[d] # Own(d)

---------------------------------------------------------------------------
\* acquire_vip, release_vip

Call(d) ==
  /\ pc[d] \in Returned /\ left.calls > 0 /\ left' = [left EXCEPT !.calls = @ - 1]
  /\ \E m \in {"acquire", "release"} :
       /\ method' = [method EXCEPT ![d] = m]
       /\ Goto(d, IF m = "acquire" THEN "check" ELSE "get")
  /\ target' = [target EXCEPT ![d] = Own(d)]
  /\ before' = [before EXCEPT ![d] = Placed(Vip(d))] /\ disturbed' = disturbed \ {d}
  /\ UNCHANGED <<nicVars, newRanges, seen, attempt>>

\* Mutant: the peer is not looked at.
CheckPeerSkipped(d) ==
  /\ pc[d] = "check" /\ Goto(d, "get")
  /\ UNCHANGED <<nicVars, callVars, histVars, left>>

\* release_vip_from_peer: _has_alias_ip reads an API failure as "absent".
CheckPeer(d) ==
  /\ pc[d] = "check" /\ Goto(d, "get")
  /\ \/ /\ Vip(d) \in aliases[PeerOf(d)] /\ NoFault
        /\ target' = [target EXCEPT ![d] = PeerOf(d)]
     \/ /\ IF Vip(d) \in aliases[PeerOf(d)] THEN Fault ELSE NoFault
        /\ UNCHANGED target
  /\ UNCHANGED <<nicVars, method, newRanges, seen, attempt, histVars>>

\* Mutant: acquire_vip returns once the peer has given the VIP up.
ProceedNowhere(d) == Goto(d, "ok") /\ UNCHANGED target

\* The work on one NIC is done: go on with the own NIC, or return.
Proceed(d) ==
  IF target[d] # Own(d)
  THEN Goto(d, "get") /\ target' = [target EXCEPT ![d] = Own(d)]
  ELSE Goto(d, "ok") /\ UNCHANGED target

\* _add_alias_ip, _remove_alias_ip: nothing to do, or the whole new list.
GetNic(d) ==
  /\ pc[d] = "get"
  /\ \/ /\ Removing(d) <=> Vip(d) \notin aliases[target[d]]
        /\ Proceed(d) /\ NoFault /\ UNCHANGED <<newRanges, seen, attempt>>
     \/ /\ Removing(d) <=> Vip(d) \in aliases[target[d]]
        /\ newRanges' = [newRanges EXCEPT ![d] = IF Removing(d) THEN aliases[target[d]] \ {Vip(d)}
                                                 ELSE aliases[target[d]] \cup {Vip(d)}]
        /\ seen' = [seen EXCEPT ![d] = fingerprint[target[d]]]
        /\ attempt' = [attempt EXCEPT ![d] = 1]
        /\ Goto(d, "patch") /\ NoFault /\ UNCHANGED target
     \/ Raise(d) /\ UNCHANGED <<target, newRanges, seen, attempt>>
  /\ UNCHANGED <<nicVars, method, histVars>>

---------------------------------------------------------------------------
\* _patch_nic_aliases

Acceptable(d) == operation[target[d]] = {} /\ seen[d] = fingerprint[target[d]]

\* Mutant: the PATCH carries no fingerprint.
PatchAcceptedUnguarded(d) ==
  /\ pc[d] = "patch" /\ operation[target[d]] = {}
  /\ operation' = [operation EXCEPT ![target[d]] =
                     {[by |-> d, ranges |-> newRanges[d], attempt |-> attempt[d]]}]
  /\ \/ Goto(d, "wait") /\ NoFault
     \/ Raise(d)
  /\ UNCHANGED <<aliases, fingerprint, callVars, histVars>>

\* HTTP 200, or an answer that is lost.
PatchAccepted(d) ==
  /\ pc[d] = "patch" /\ Acceptable(d)
  /\ operation' = [operation EXCEPT ![target[d]] =
                     {[by |-> d, ranges |-> newRanges[d], attempt |-> attempt[d]]}]
  /\ \/ Goto(d, "wait") /\ NoFault
     \/ Raise(d)
  /\ UNCHANGED <<aliases, fingerprint, callVars, histVars>>

\* HTTP 409, 412, or (a fault) 429.
PatchRefused(d) ==
  /\ pc[d] = "patch"
  /\ IF Acceptable(d) THEN Fault ELSE NoFault
  /\ Goto(d, IF attempt[d] < MaxRetries THEN "refetch" ELSE "failed")
  /\ UNCHANGED <<nicVars, callVars, histVars>>

\* Any other answer, or none.
PatchFails(d) ==
  /\ pc[d] = "patch" /\ Raise(d)
  /\ UNCHANGED <<nicVars, callVars, histVars>>

\* A retry takes the latest fingerprint, but sends the list it had computed.
Refetch(d) ==
  /\ pc[d] = "refetch"
  /\ \/ /\ seen' = [seen EXCEPT ![d] = fingerprint[target[d]]]
        /\ attempt' = [attempt EXCEPT ![d] = @ + 1]
        /\ Goto(d, "patch") /\ NoFault
     \/ Raise(d) /\ UNCHANGED <<seen, attempt>>
  /\ UNCHANGED <<nicVars, method, target, newRanges, histVars>>

\* _wait_zone_op gives up: a poll fails, or the deadline passes.
WaitFails(d) ==
  /\ pc[d] = "wait" /\ Raise(d)
  /\ UNCHANGED <<nicVars, callVars, histVars>>

\* _verify_alias_present, _verify_alias_absent: what they find is only logged.
Verify(d) ==
  /\ pc[d] = "verify"
  /\ \/ Proceed(d) /\ NoFault
     \/ Raise(d) /\ UNCHANGED target
  /\ UNCHANGED <<nicVars, method, newRanges, seen, attempt, histVars>>

---------------------------------------------------------------------------
\* GCP

Waiting(d, n) == pc[d] = "wait" /\ target[d] = n

\* The operation is DONE.  A daemon still waiting for it goes on.
Complete(n) ==
  \E r \in operation[n] :
    /\ aliases' = [aliases EXCEPT ![n] = r.ranges]
    /\ fingerprint' = [fingerprint EXCEPT ![n] = @ + 1]
    /\ operation' = [operation EXCEPT ![n] = {}]
    /\ pc' = [pc EXCEPT ![r.by] = IF Waiting(r.by, n) THEN "verify" ELSE @]
    /\ disturbed' = disturbed \cup
         {d \in Daemon : /\ (Vip(d) \in aliases[n]) # (Vip(d) \in r.ranges)
                         /\ ~(d = r.by /\ Waiting(d, n))}
    /\ UNCHANGED <<callVars, before, left>>

\* The operation is DONE with an error.
CompleteWithError(n) ==
  \E r \in operation[n] :
    /\ \/ Fault
       \/ NoFault /\ \E m \in Node \ {n} : r.ranges \cap aliases[m] # {}
    /\ operation' = [operation EXCEPT ![n] = {}]
    /\ pc' = [pc EXCEPT ![r.by] = IF Waiting(r.by, n) THEN "failed" ELSE @]
    /\ UNCHANGED <<aliases, fingerprint, callVars, histVars>>

---------------------------------------------------------------------------
\* The specification

Init ==
  /\ aliases \in [Node -> SUBSET Cluster] /\ \A c \in Cluster : Cardinality(Placed(c)) <= 1
  /\ fingerprint = [n \in Node |-> 0] /\ operation = [n \in Node |-> {}]
  /\ pc = [d \in Daemon |-> "ok"] /\ method = [d \in Daemon |-> "none"]
  /\ target = [d \in Daemon |-> Own(d)] /\ newRanges = [d \in Daemon |-> {}]
  /\ seen = [d \in Daemon |-> 0] /\ attempt = [d \in Daemon |-> 1]
  /\ before = [d \in Daemon |-> {}] /\ disturbed = {}
  /\ left = [faults |-> Faults, calls |-> Calls]

DaemonStep(d) ==
  \/ Call(d) \/ CheckPeer(d) \/ GetNic(d) \/ PatchAccepted(d) \/ PatchRefused(d) \/ PatchFails(d)
  \/ Refetch(d) \/ WaitFails(d) \/ Verify(d)

Next ==
  \/ \E d \in Daemon : DaemonStep(d)
  \/ \E n \in Node : Complete(n) \/ CompleteWithError(n)

Spec == Init /\ [][Next]_vars

---------------------------------------------------------------------------
\* Properties

\* The fingerprint protects every first PATCH: another cluster's VIP is lost (or
\* comes back) only by a retry, which sends an old list with a new fingerprint.
FirstTryHarmless ==
  [][\A n \in Node, c \in Cluster :
       (c \in aliases[n]) # (c \in aliases[n]') =>
         \E r \in operation[n] : Vip(r.by) = c \/ r.attempt > 1]_vars

\* The call with its dozen requests does what CloudOps takes it to do in one
\* step, unless somebody else moves the VIP meanwhile: `was` and `is` are where
\* the VIP was and is.
CallIsOneStep ==
  [][\A d \in Daemon :
       LET was == before[d]
           is  == Placed(Vip(d))
           outcomes ==
             IF method[d] = "acquire"
             THEN {{Own(d)}} \cup (IF left.faults < Faults THEN {was \cup {Own(d)}} ELSE {})
                             \cup (IF pc'[d] = "ok" THEN {} ELSE {was, was \ {PeerOf(d)}})
             ELSE {was \ {Own(d)}} \cup (IF pc'[d] = "ok" THEN {} ELSE {was})
       IN pc[d] \notin Returned /\ pc'[d] \in Returned /\ d \notin disturbed => is \in outcomes]_vars

\* acquire_vip on both nodes at once, each taking the VIP from the other: when no
\* call fails, nobody releases and the other clusters are quiet, the VIP ends
\* somewhere.
VipNotLost ==
  left.faults = Faults =>
    \A c \in Cluster :
      /\ \A d \in Daemon : IF Vip(d) = c THEN pc[d] = "ok" /\ method[d] # "release" ELSE method[d] = "none"
      /\ \E d \in Daemon : method[d] = "acquire"
      => Placed(c) # {}
=============================================================================
