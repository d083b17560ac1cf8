----------------------------- MODULE DiskCalls -----------------------------
(***************************************************************************)
(* DiskManager's calls to Compute Engine request by request: attach, detach*)
(* and fence of the regional disk, and the query for its holder.  CloudOps *)
(* has each call in one step; here are the lookups that precede a request, *)
(* the operation that GCP completes in its own time, the poll that may give*)
(* up on it, and the other threads and the peer that move the disk between *)
(* two requests.                                                           *)
(*                                                                         *)
(* GCP is external: it takes any attach (forceAttach=true), takes a detach *)
(* when the disk is attached to that instance (otherwise HTTP 400), and    *)
(* carries out the operations under way in any order.                      *)
(***************************************************************************)
EXTENDS Naturals

CONSTANTS
  InstancePrimary, InstanceStandby,
  NoNode,    \* None: the disk is attached nowhere
  Thread,    \* the threads of a daemon that call DiskManager
  Faults,    \* how many requests may go wrong (bound)
  Calls      \* how many calls are made in all (bound)

Node   == {InstancePrimary, InstanceStandby}
Caller == Node \X Thread

ASSUME DiskAssumption ==
  /\ InstancePrimary # InstanceStandby /\ NoNode \notin Node
  /\ Faults \in Nat /\ Calls \in Nat

VARIABLES
  holder,     \* the node the disk is attached to READ_WRITE, or NoNode
  operations, \* the zonal operations under way
  pc,         \* per caller: the next step of its call
  method,     \* per caller: what it called
  serial,     \* per caller: the number of its call, and so of its operation
  answer,     \* per caller: what current_rw_holder found so far, or returned
  before,     \* per caller: the holder when the call began (history)
  held,       \* per caller: the holders there were during the call (history)
  disturbed,  \* the callers during whose call somebody else moved the disk (history)
  troubled,   \* the callers one of whose requests went wrong (history)
  left        \* faults and calls still to come

callVars == <<method, serial>>
histVars == <<before, held, disturbed>>
vars == <<holder, operations, pc, callVars, answer, histVars, troubled, left>>

Method    == {"query", "attach", "detach", "fence"}
Returned  == {"ok", "failed"}
Holder    == Node \cup {NoNode}
Operation == [by : Caller, serial : Nat, attach : BOOLEAN, node : Node]

TypeOK ==
  /\ holder \in Holder /\ operations \subseteq Operation
  /\ pc \in [Caller -> Returned \cup {"users", "inspect", "lookup", "post", "wait"}]
  /\ method \in [Caller -> Method] /\ serial \in [Caller -> Nat] /\ answer \in [Caller -> Holder]
  /\ before \in [Caller -> Holder] /\ held \in [Caller -> SUBSET Holder]
  /\ disturbed \subseteq Caller /\ troubled \subseteq Caller
  /\ left \in [faults : 0..Faults, calls : 0..Calls]

Own(d)  == d[1]
Peer(n) == IF n = InstancePrimary THEN InstanceStandby ELSE InstancePrimary

\* The instance whose attachment the call changes.
Target(d) == IF method[d] = "fence" THEN Peer(Own(d)) ELSE Own(d)

Goto(d, label) == pc' = [pc EXCEPT ![d] = label]
NoFault == UNCHANGED <<troubled, left>>
Fault(d) == /\ left.faults > 0 /\ left' = [left EXCEPT !.faults = @ - 1]
            /\ troubled' = troubled \cup {d}

Call(d) ==
  /\ pc[d] \in Returned /\ left.calls > 0 /\ left' = [left EXCEPT !.calls = @ - 1]
  /\ \E m \in Method :
       /\ method' = [method EXCEPT ![d] = m]
       /\ Goto(d, IF m \in {"query", "attach"} THEN "users" ELSE "lookup")
  /\ serial' = [serial EXCEPT ![d] = left.calls] /\ answer' = [answer EXCEPT ![d] = NoNode]
  /\ before' = [before EXCEPT ![d] = holder] /\ held' = [held EXCEPT ![d] = {holder}]
  /\ disturbed' = disturbed \ {d} /\ troubled' = troubled \ {d}
  /\ UNCHANGED <<holder, operations>>

---------------------------------------------------------------------------
\* current_rw_holder, which attach_disk_rw calls first

\* Mutant: an attach is skipped when the disk is attached anywhere.
SettledAnywhere(d, h) == method[d] = "query" \/ h # NoNode

\* Nothing remains to be done once the holder is known.
Settled(d, h) == method[d] = "query" \/ h = Own(d)

Answer(d, h) ==
  /\ answer' = [answer EXCEPT ![d] = h]
  /\ Goto(d, IF Settled(d, h) THEN "ok" ELSE "post")

\* The users of the regional disk.  A request that fails, or a list that lags
\* behind, reads as "attached nowhere".
GetUsers(d) ==
  /\ pc[d] = "users"
  /\ \/ holder = NoNode /\ Answer(d, NoNode) /\ NoFault
     \/ /\ holder # NoNode /\ answer' = [answer EXCEPT ![d] = holder]
        /\ Goto(d, "inspect") /\ NoFault
     \/ Answer(d, NoNode) /\ Fault(d)
  /\ UNCHANGED <<holder, operations, callVars, histVars>>

\* The user is asked whether it has the disk; by now another node may have it.
Inspect(d) ==
  /\ pc[d] = "inspect"
  /\ \/ Answer(d, IF holder = answer[d] THEN holder ELSE NoNode) /\ NoFault
     \/ Answer(d, NoNode) /\ Fault(d)
  /\ UNCHANGED <<holder, operations, callVars, histVars>>

---------------------------------------------------------------------------
\* attach_disk_rw, detach_disk, force_detach_from_peer

\* _lookup_device_name: a request that fails reads as "not attached".
Lookup(d) ==
  /\ pc[d] = "lookup"
  /\ \/ holder = Target(d) /\ Goto(d, "post") /\ NoFault
     \/ holder # Target(d) /\ Goto(d, "ok") /\ NoFault
     \/ holder = Target(d) /\ Goto(d, "ok") /\ Fault(d)
  /\ UNCHANGED <<holder, operations, callVars, answer, histVars>>

Feasible(d) == method[d] = "attach" \/ holder = Target(d)

\* Mutant: nobody waits for the operation.
SubmittedUnwatched(d) == Goto(d, "ok")

Submitted(d) == Goto(d, "wait")

\* A request that got no answer: the fence goes on regardless.
Unanswered(d) == Goto(d, IF method[d] = "fence" THEN "ok" ELSE "failed") /\ Fault(d)

PostAccepted(d) ==
  /\ pc[d] = "post" /\ Feasible(d)
  /\ operations' = operations \cup {[by |-> d, serial |-> serial[d],
                                     attach |-> method[d] = "attach", node |-> Target(d)]}
  /\ (Submitted(d) /\ NoFault) \/ Unanswered(d)
  /\ UNCHANGED <<holder, callVars, answer, histVars>>

\* HTTP 400 ("likely already fenced"), an error, or no answer.
PostRejected(d) ==
  /\ pc[d] = "post"
  /\ \/ ~Feasible(d) /\ NoFault /\ Goto(d, IF method[d] = "fence" THEN "ok" ELSE "failed")
     \/ Goto(d, "failed") /\ Fault(d)
     \/ Unanswered(d)
  /\ UNCHANGED <<holder, operations, callVars, answer, histVars>>

\* _wait_zone_op: a poll fails, or the deadline passes; the operation goes on.
WaitFails(d) ==
  /\ pc[d] = "wait"
  /\ (Goto(d, "failed") /\ Fault(d)) \/ Unanswered(d)
  /\ UNCHANGED <<holder, operations, callVars, answer, histVars>>

---------------------------------------------------------------------------
\* GCP

Waiting(d, o) == pc[d] = "wait" /\ o.by = d /\ o.serial = serial[d]
Finish(o, label) == pc' = [pc EXCEPT ![o.by] = IF Waiting(o.by, o) THEN label ELSE @]

\* An operation is DONE: an attach takes the disk from whoever has it.
Complete ==
  \E o \in operations :
    /\ operations' = operations \ {o}
    /\ o.attach \/ holder = o.node
    /\ holder' = IF o.attach THEN o.node ELSE NoNode
    /\ Finish(o, "ok")
    /\ held' = [d \in Caller |-> IF pc[d] \in Returned THEN held[d] ELSE held[d] \cup {holder'}]
    /\ disturbed' = IF holder' = holder THEN disturbed
                    ELSE disturbed \cup {d \in Caller : ~Waiting(d, o)}
    /\ UNCHANGED <<callVars, answer, before, troubled, left>>

\* An operation is DONE with an error: there is nothing to detach, or it failed.
CompleteWithError ==
  \E o \in operations :
    /\ operations' = operations \ {o}
    /\ \/ ~o.attach /\ holder # o.node /\ NoFault
       \/ Fault(o.by)
    /\ Finish(o, "failed")
    /\ UNCHANGED <<holder, callVars, answer, histVars>>

---------------------------------------------------------------------------
\* The specification

Init ==
  /\ holder \in Holder /\ operations = {}
  /\ pc = [d \in Caller |-> "ok"] /\ method = [d \in Caller |-> "query"]
  /\ serial = [d \in Caller |-> 0] /\ answer = [d \in Caller |-> holder]
  /\ before = [d \in Caller |-> holder] /\ held = [d \in Caller |-> {holder}]
  /\ disturbed = {} /\ troubled = {}
  /\ left = [faults |-> Faults, calls |-> Calls]

CallerStep(d) == \/ Call(d) \/ GetUsers(d) \/ Inspect(d) \/ Lookup(d)
                 \/ PostAccepted(d) \/ PostRejected(d) \/ WaitFails(d)

Next == (\E d \in Caller : CallerStep(d)) \/ Complete \/ CompleteWithError

Spec == Init /\ [][Next]_vars

---------------------------------------------------------------------------
\* Properties

\* What a call that returned tells its caller was true at some moment of the
\* call, though not always at its end: an attached node had the disk, a detached
\* one did not unless a request went wrong, and a reported holder had it.  "None"
\* is weaker: the disk was free, it moved, or a request went wrong.
ReturnsAreTrue ==
  \A d \in Caller : pc[d] = "ok" =>
    /\ method[d] = "attach" => Own(d) \in held[d]
    /\ method[d] \in {"detach", "fence"} => held[d] # {Target(d)} \/ d \in troubled
    /\ method[d] = "query" =>
         \/ answer[d] \in held[d]
         \/ answer[d] = NoNode /\ (d \in troubled \/ \E g, h \in held[d] : g # h)

\* A call during which nobody else moves the disk does what CloudOps takes it to do
\* in one step: the same holders, answers and failures, and a failure or a wrong
\* answer only at the cost of a fault.
Outcomes(d, was, ok, trouble) ==
  CASE method[d] = "query"  -> IF ok THEN {was} ELSE {}
    [] method[d] = "attach" -> IF ok THEN {Own(d)} ELSE IF trouble THEN {was, Own(d)} ELSE {}
    [] OTHER -> (IF ok /\ was # Target(d) THEN {was} ELSE {}) \cup
                (IF was = Target(d) /\ (ok \/ trouble) THEN {NoNode} ELSE {}) \cup
                (IF was = Target(d) /\ trouble THEN {was} ELSE {})
DiskCallIsOneStep ==
  [][\A d \in Caller :
       pc[d] \notin Returned /\ pc'[d] \in Returned /\ d \notin disturbed' =>
         /\ holder' \in Outcomes(d, before[d], pc'[d] = "ok", d \in troubled')
         /\ method[d] = "query" => answer'[d] = before[d] \/ (answer'[d] = NoNode /\ d \in troubled')]_vars
=============================================================================
