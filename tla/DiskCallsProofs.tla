-------------------------- MODULE DiskCallsProofs --------------------------
(***************************************************************************)
(* What DiskManager's calls report, proved for any number of threads,      *)
(* calls and faults.                                                       *)
(***************************************************************************)
EXTENDS DiskCalls, TLAPS

LEMMA TargetIsNode ==
  ASSUME TypeOK, NEW d \in Caller
  PROVE  Own(d) \in Node /\ Target(d) \in Node
BY DiskAssumption DEF TypeOK, Caller, Own, Target, Peer, Node

LEMMA FaultTyping ==
  ASSUME TypeOK, NEW d \in Caller, Fault(d)
  PROVE  /\ troubled' = troubled \cup {d}
         /\ left' \in [faults : 0..Faults, calls : 0..Calls] /\ left'.calls = left.calls
BY DiskAssumption DEF TypeOK, Fault

---------------------------------------------------------------------------
\* Types

CallTypes ==
  /\ pc \in [Caller -> Returned \cup {"users", "inspect", "lookup", "post", "wait"}]
  /\ answer \in [Caller -> Holder]

LEMMA RequestTyping ==
  ASSUME TypeOK, NEW d \in Caller,
         GetUsers(d) \/ Inspect(d) \/ Lookup(d) \/ PostRejected(d) \/ WaitFails(d)
  PROVE  TypeOK'
<1>1. CallTypes'
  BY DEF TypeOK, CallTypes, Holder, Returned, GetUsers, Inspect, Lookup, PostRejected, WaitFails,
         Answer, Goto, Unanswered
<1>2. (troubled \subseteq Caller)' /\ (left \in [faults : 0..Faults, calls : 0..Calls])'
  BY FaultTyping DEF TypeOK, GetUsers, Inspect, Lookup, PostRejected, WaitFails, Unanswered, NoFault
<1>3. UNCHANGED <<holder, operations, callVars, histVars>>
  BY DEF GetUsers, Inspect, Lookup, PostRejected, WaitFails
<1>4. QED
  BY <1>1, <1>2, <1>3 DEF TypeOK, CallTypes, callVars, histVars

LEMMA PostTyping ==
  ASSUME TypeOK, NEW d \in Caller, PostAccepted(d)
  PROVE  TypeOK'
<1>1. [by |-> d, serial |-> serial[d], attach |-> method[d] = "attach", node |-> Target(d)]
        \in Operation
  BY TargetIsNode DEF TypeOK, Operation
<1>2. operations' \subseteq Operation
  BY <1>1 DEF PostAccepted, TypeOK
<1>3. (troubled \subseteq Caller)' /\ (left \in [faults : 0..Faults, calls : 0..Calls])'
  BY FaultTyping DEF TypeOK, PostAccepted, Unanswered, NoFault
<1>4. CallTypes'
  BY DEF TypeOK, CallTypes, PostAccepted, Submitted, Unanswered, Goto, Returned
<1>5. QED
  BY <1>2, <1>3, <1>4 DEF TypeOK, CallTypes, PostAccepted, callVars, histVars

LEMMA CallTyping ==
  ASSUME TypeOK, NEW d \in Caller, Call(d)
  PROVE  TypeOK'
<1>1. left' \in [faults : 0..Faults, calls : 0..Calls] /\ left.calls \in Nat
  BY DiskAssumption DEF TypeOK, Call
<1>2. PICK m \in Method : /\ method' = [method EXCEPT ![d] = m]
                          /\ Goto(d, IF m \in {"query", "attach"} THEN "users" ELSE "lookup")
  BY DEF Call
<1>3. (pc \in [Caller -> Returned \cup {"users", "inspect", "lookup", "post", "wait"}])'
  BY <1>2 DEF TypeOK, Goto
<1>4. (method \in [Caller -> Method])'
  BY <1>2 DEF TypeOK
<1>5. QED
  BY <1>1, <1>3, <1>4 DEF TypeOK, Call, Holder

LEMMA CompleteTyping ==
  ASSUME TypeOK, Complete \/ CompleteWithError
  PROVE  TypeOK'
<1>1. PICK o \in operations :
        /\ operations' = operations \ {o}
        /\ Finish(o, "ok") \/ Finish(o, "failed")
        /\ holder' \in {o.node, NoNode, holder}
        /\ NoFault \/ Fault(o.by)
  BY DEF Complete, CompleteWithError, NoFault
<1>2. o.by \in Caller /\ o.node \in Node
  BY DEF TypeOK, Operation
<1>3. holder' \in Holder /\ operations' \subseteq Operation
  BY <1>1, <1>2 DEF TypeOK, Holder
<1>4. (pc \in [Caller -> Returned \cup {"users", "inspect", "lookup", "post", "wait"}])'
  BY <1>1, <1>2 DEF TypeOK, Finish, Returned
<1>5. (troubled \subseteq Caller)' /\ (left \in [faults : 0..Faults, calls : 0..Calls])'
  BY <1>1, <1>2, FaultTyping DEF TypeOK, NoFault
<1>6. (held \in [Caller -> SUBSET Holder])' /\ (disturbed \subseteq Caller)'
  BY <1>3 DEF TypeOK, Complete, CompleteWithError, histVars
<1>7. UNCHANGED <<callVars, answer, before>>
  BY DEF Complete, CompleteWithError, histVars
<1>8. QED
  BY <1>3, <1>4, <1>5, <1>6, <1>7 DEF TypeOK, callVars

LEMMA NextTyping == TypeOK /\ [Next]_vars => TypeOK'
<1> SUFFICES ASSUME TypeOK, [Next]_vars PROVE TypeOK'
  OBVIOUS
<1>1. CASE UNCHANGED vars
  BY <1>1 DEF TypeOK, vars, callVars, histVars
<1>2. ASSUME NEW d \in Caller, CallerStep(d) PROVE TypeOK'
  BY <1>2, RequestTyping, PostTyping, CallTyping DEF CallerStep
<1>3. QED
  BY <1>1, <1>2, CompleteTyping DEF Next

\* Types hold for any number of threads, calls and faults.
THEOREM DiskCallsTyped == Spec => []TypeOK
<1>1. Init => TypeOK
  BY DiskAssumption DEF Init, TypeOK, Returned, Method
<1>2. QED
  BY <1>1, NextTyping, PTL DEF Spec

---------------------------------------------------------------------------
\* True answers

\* ReturnsAreTrue, strengthened: what a call in progress has found so far, and
\* that an operation with the number of the current call is the one it asked for.
CallSteps(d) ==
  /\ pc[d] \in {"users", "inspect"} => method[d] \in {"query", "attach"}
  /\ pc[d] = "lookup" => method[d] \in {"detach", "fence"}
  /\ pc[d] \in {"post", "wait"} => method[d] # "query"
  /\ pc[d] \notin Returned => holder \in held[d] /\ serial[d] > left.calls
  /\ pc[d] = "inspect" => answer[d] \in held[d]

AskedFor(o) ==
  /\ o.serial > left.calls
  /\ o.serial = serial[o.by] =>
       o.attach = (method[o.by] = "attach") /\ o.node = Target(o.by)

ReturnTrue(d) ==
  pc[d] = "ok" =>
    /\ method[d] = "attach" => Own(d) \in held[d]
    /\ method[d] \in {"detach", "fence"} => held[d] # {Target(d)} \/ d \in troubled
    /\ method[d] = "query" =>
         \/ answer[d] \in held[d]
         \/ answer[d] = NoNode /\ (d \in troubled \/ \E g, h \in held[d] : g # h)

CallInv == /\ \A d \in Caller : CallSteps(d) /\ ReturnTrue(d)
           /\ \A o \in operations : AskedFor(o)

\* A request of d leaves the other callers as they are.
LEMMA OthersKeep ==
  ASSUME TypeOK, CallInv, NEW d \in Caller, NEW e \in Caller, e # d,
         GetUsers(d) \/ Inspect(d) \/ Lookup(d) \/ PostRejected(d) \/ WaitFails(d)
           \/ PostAccepted(d)
  PROVE  CallSteps(e)' /\ ReturnTrue(e)'
<1>1. pc'[e] = pc[e] /\ answer'[e] = answer[e]
  BY DEF TypeOK, GetUsers, Inspect, Lookup, PostRejected, PostAccepted, WaitFails, Answer, Goto,
         Unanswered, Submitted
<1>2. UNCHANGED <<holder, callVars, histVars>>
  BY DEF GetUsers, Inspect, Lookup, PostRejected, PostAccepted, WaitFails
<1>3. left'.calls = left.calls /\ troubled \subseteq troubled'
  BY FaultTyping DEF GetUsers, Inspect, Lookup, PostRejected, PostAccepted, WaitFails, Unanswered,
                     NoFault
<1>4. QED
  BY <1>1, <1>2, <1>3 DEF CallInv, CallSteps, ReturnTrue, Target, callVars, histVars

LEMMA RequestKeeps ==
  ASSUME TypeOK, CallInv, NEW d \in Caller,
         GetUsers(d) \/ Inspect(d) \/ Lookup(d) \/ PostRejected(d) \/ WaitFails(d)
           \/ PostAccepted(d)
  PROVE  CallSteps(d)' /\ ReturnTrue(d)'
<1>1. UNCHANGED <<holder, method, serial, held>>
  BY DEF GetUsers, Inspect, Lookup, PostRejected, PostAccepted, WaitFails, callVars, histVars
<1>2. left'.calls = left.calls
  BY FaultTyping DEF GetUsers, Inspect, Lookup, PostRejected, PostAccepted, WaitFails, Unanswered,
                     NoFault
<1>3. Fault(d) => d \in troubled'
  BY FaultTyping
<1>4. UNCHANGED Own(d) /\ UNCHANGED Target(d) /\ Target(d) \in Node
  BY <1>1, TargetIsNode DEF Own, Target
<1> USE <1>1, <1>2, <1>3, <1>4
<1>5. CASE GetUsers(d)
  <2>1. answer'[d] = NoNode \/ answer'[d] = holder
    BY <1>5 DEF GetUsers, Answer, TypeOK
  <2>2. \/ pc'[d] = "inspect" /\ answer'[d] = holder
        \/ pc'[d] = "post" /\ method[d] # "query"
        \/ pc'[d] = "ok" /\ answer'[d] = Own(d)
        \/ pc'[d] = "ok" /\ method[d] = "query" /\ answer'[d] = NoNode
                         /\ (holder = NoNode \/ d \in troubled')
    BY <1>5 DEF GetUsers, Answer, Settled, Goto, TypeOK
  <2>3. Own(d) # NoNode
    BY TargetIsNode, DiskAssumption
  <2>4. QED
    BY <1>5, <2>1, <2>2, <2>3 DEF GetUsers, CallInv, CallSteps, ReturnTrue, Returned
<1>6. CASE Inspect(d)
  <2>1. /\ method[d] \in {"query", "attach"}
        /\ holder \in held[d] /\ answer[d] \in held[d] /\ serial[d] > left.calls
    BY <1>6 DEF Inspect, CallInv, CallSteps, Returned
  <2>2. \/ answer'[d] = holder
        \/ answer'[d] = NoNode /\ holder # answer[d]
        \/ answer'[d] = NoNode /\ d \in troubled'
    BY <1>6 DEF Inspect, Answer, TypeOK
  <2>3. \/ pc'[d] = "post" /\ method[d] # "query"
        \/ pc'[d] = "ok" /\ (method[d] = "query" \/ answer'[d] = Own(d))
    BY <1>6 DEF Inspect, Answer, Settled, Goto, TypeOK
  <2>4. Own(d) # NoNode
    BY TargetIsNode, DiskAssumption
  <2>5. QED
    BY <2>1, <2>2, <2>3, <2>4 DEF CallSteps, ReturnTrue, Returned
<1>7. CASE Lookup(d)
  <2>1. \/ pc'[d] = "post"
        \/ pc'[d] = "ok" /\ (holder # Target(d) \/ d \in troubled')
    BY <1>7 DEF Lookup, Goto, TypeOK
  <2>2. QED
    BY <1>7, <2>1 DEF Lookup, CallInv, CallSteps, ReturnTrue, Returned
<1>8. CASE PostRejected(d) \/ PostAccepted(d) \/ WaitFails(d)
  <2>1. \/ pc'[d] = "failed"
        \/ pc'[d] = "wait"
        \/ pc'[d] = "ok" /\ method[d] = "fence" /\ (holder # Target(d) \/ d \in troubled')
    BY <1>8 DEF PostRejected, PostAccepted, WaitFails, Unanswered, Submitted, Feasible, Goto, TypeOK
  <2>2. pc[d] \in {"post", "wait"}
    BY <1>8 DEF PostRejected, PostAccepted, WaitFails
  <2>3. QED
    BY <2>1, <2>2 DEF CallInv, CallSteps, ReturnTrue, Returned
<1>9. QED
  BY <1>5, <1>6, <1>7, <1>8

LEMMA OperationsKeep ==
  ASSUME TypeOK, CallInv, NEW d \in Caller,
         GetUsers(d) \/ Inspect(d) \/ Lookup(d) \/ PostRejected(d) \/ WaitFails(d)
           \/ PostAccepted(d)
  PROVE  \A o \in operations' : AskedFor(o)'
<1>1. UNCHANGED callVars
  BY DEF GetUsers, Inspect, Lookup, PostRejected, PostAccepted, WaitFails
<1>2. left'.calls = left.calls
  BY FaultTyping DEF GetUsers, Inspect, Lookup, PostRejected, PostAccepted, WaitFails, Unanswered,
                     NoFault
<1>3. ASSUME NEW o \in operations PROVE AskedFor(o)'
  BY <1>1, <1>2, <1>3 DEF CallInv, AskedFor, Target, callVars
<1>4. CASE UNCHANGED operations
  BY <1>3, <1>4
<1>5. CASE PostAccepted(d)
  <2>1. ASSUME NEW o \in operations', o \notin operations
        PROVE  /\ o.by = d /\ o.serial = serial[d] /\ o.node = Target(d)
               /\ o.attach = (method[d] = "attach")
    BY <1>5, <2>1 DEF PostAccepted
  <2>2. serial[d] > left.calls
    BY <1>5 DEF PostAccepted, CallInv, CallSteps, Returned
  <2>3. ASSUME NEW o \in operations', o \notin operations PROVE AskedFor(o)'
    BY <1>1, <1>2, <2>1, <2>2, <2>3 DEF AskedFor, Target, callVars
  <2>4. QED
    BY <1>3, <2>3
<1>6. QED
  BY <1>4, <1>5 DEF GetUsers, Inspect, Lookup, PostRejected, WaitFails

LEMMA CallKeeps ==
  ASSUME TypeOK, CallInv, NEW d \in Caller, Call(d)
  PROVE  CallInv'
<1>1. /\ left.calls \in Nat /\ left.calls > 0 /\ left'.calls = left.calls - 1
      /\ serial' = [serial EXCEPT ![d] = left.calls]
      /\ held' = [held EXCEPT ![d] = {holder}]
      /\ troubled' = troubled \ {d} /\ answer' = [answer EXCEPT ![d] = NoNode]
      /\ UNCHANGED <<holder, operations>>
  BY DiskAssumption DEF TypeOK, Call
<1>2. PICK m \in Method :
        /\ method' = [method EXCEPT ![d] = m]
        /\ pc' = [pc EXCEPT ![d] = IF m \in {"query", "attach"} THEN "users" ELSE "lookup"]
  BY DEF Call, Goto
<1>3. CallSteps(d)' /\ ReturnTrue(d)'
  BY <1>1, <1>2 DEF TypeOK, CallSteps, ReturnTrue, Returned, Method
<1>4. ASSUME NEW e \in Caller, e # d PROVE CallSteps(e)' /\ ReturnTrue(e)'
  <2>1. /\ pc'[e] = pc[e] /\ method'[e] = method[e] /\ serial'[e] = serial[e]
        /\ held'[e] = held[e] /\ answer'[e] = answer[e]
        /\ (e \in troubled <=> e \in troubled')
    BY <1>1, <1>2, <1>4 DEF TypeOK
  <2>2. serial[e] \in Nat
    BY DEF TypeOK
  <2>3. QED
    BY <1>1, <2>1, <2>2 DEF CallInv, CallSteps, ReturnTrue, Target
<1>5. ASSUME NEW o \in operations PROVE AskedFor(o)'
  <2>1. o.by \in Caller /\ o.serial \in Nat /\ o.serial > left.calls
    BY DEF TypeOK, Operation, CallInv, AskedFor
  <2>2. CASE o.by = d
    BY <1>1, <2>1, <2>2 DEF TypeOK, AskedFor
  <2>3. CASE o.by # d
    <3>1. method'[o.by] = method[o.by] /\ serial'[o.by] = serial[o.by]
      BY <1>1, <1>2, <2>1, <2>3 DEF TypeOK
    <3>2. QED
      BY <1>1, <2>1, <3>1 DEF CallInv, AskedFor, Target
  <2>4. QED
    BY <2>2, <2>3
<1>6. QED
  BY <1>1, <1>3, <1>4, <1>5 DEF CallInv

LEMMA CompleteKeeps ==
  ASSUME TypeOK, CallInv, Complete
  PROVE  CallInv'
<1>1. PICK o \in operations :
        /\ operations' = operations \ {o}
        /\ holder' = IF o.attach THEN o.node ELSE NoNode
        /\ Finish(o, "ok")
        /\ held' = [d \in Caller |-> IF pc[d] \in Returned THEN held[d]
                                     ELSE held[d] \cup {holder'}]
  BY DEF Complete
<1>2. UNCHANGED <<method, serial, answer, troubled, left>>
  BY DEF Complete, callVars
<1>3. ASSUME NEW d \in Caller PROVE CallSteps(d)' /\ ReturnTrue(d)'
  <2>1. Own(d)' = Own(d) /\ Target(d)' = Target(d) /\ Target(d) \in Node /\ Target(d) # NoNode
    BY <1>2, TargetIsNode, DiskAssumption DEF Own, Target
  <2>2. CASE Waiting(d, o)
    <3>1. pc'[d] = "ok" /\ pc[d] = "wait" /\ held'[d] = held[d] \cup {holder'}
      BY <1>1, <2>2 DEF Finish, Waiting, TypeOK, Returned
    <3>2. o.attach = (method[d] = "attach") /\ o.node = Target(d) /\ method[d] # "query"
      BY <2>2, <3>1 DEF CallInv, AskedFor, CallSteps, Waiting
    <3>3. CASE o.attach
      BY <1>1, <1>2, <2>1, <3>1, <3>2, <3>3 DEF CallSteps, ReturnTrue, Returned, Target
    <3>4. CASE ~o.attach
      BY <1>1, <1>2, <2>1, <3>1, <3>2, <3>4 DEF CallSteps, ReturnTrue, Returned
    <3>5. QED
      BY <3>3, <3>4
  <2>3. CASE ~Waiting(d, o)
    <3>1. pc'[d] = pc[d]
      BY <1>1, <2>3 DEF Finish, Waiting, TypeOK
    <3>2. IF pc[d] \in Returned THEN held'[d] = held[d] ELSE held'[d] = held[d] \cup {holder'}
      BY <1>1
    <3>3. QED
      BY <1>2, <2>1, <3>1, <3>2 DEF CallInv, CallSteps, ReturnTrue, Returned
  <2>4. QED
    BY <2>2, <2>3
<1>4. \A q \in operations' : AskedFor(q)'
  BY <1>1, <1>2 DEF CallInv, AskedFor, Target
<1>5. QED
  BY <1>3, <1>4 DEF CallInv

LEMMA ErrorKeeps ==
  ASSUME TypeOK, CallInv, CompleteWithError
  PROVE  CallInv'
<1>1. PICK o \in operations :
        /\ operations' = operations \ {o}
        /\ Finish(o, "failed")
        /\ NoFault \/ Fault(o.by)
        /\ UNCHANGED <<holder, callVars, answer, histVars>>
  BY DEF CompleteWithError, NoFault
<1>2. o.by \in Caller
  BY DEF TypeOK, Operation
<1>3. left'.calls = left.calls /\ troubled \subseteq troubled'
  BY <1>1, <1>2, FaultTyping DEF NoFault
<1>4. \A d \in Caller : pc'[d] = pc[d] \/ pc'[d] = "failed"
  BY <1>1, <1>2 DEF Finish, TypeOK
<1>5. \A d \in Caller : CallSteps(d)' /\ ReturnTrue(d)'
  BY <1>1, <1>3, <1>4 DEF CallInv, CallSteps, ReturnTrue, Target, Returned, callVars, histVars
<1>6. \A q \in operations' : AskedFor(q)'
  BY <1>1, <1>3 DEF CallInv, AskedFor, Target, callVars
<1>7. QED
  BY <1>5, <1>6 DEF CallInv

LEMMA NextKeepsCalls == TypeOK /\ CallInv /\ [Next]_vars => CallInv'
<1> SUFFICES ASSUME TypeOK, CallInv, [Next]_vars PROVE CallInv'
  OBVIOUS
<1>1. CASE UNCHANGED vars
  BY <1>1 DEF vars, callVars, histVars, CallInv, CallSteps, ReturnTrue, AskedFor, Target
<1>2. ASSUME NEW d \in Caller, CallerStep(d) PROVE CallInv'
  <2>1. CASE Call(d)
    BY <2>1, CallKeeps
  <2>2. CASE \/ GetUsers(d) \/ Inspect(d) \/ Lookup(d) \/ PostRejected(d) \/ WaitFails(d)
             \/ PostAccepted(d)
    <3>1. \A e \in Caller : CallSteps(e)' /\ ReturnTrue(e)'
      BY <2>2, OthersKeep, RequestKeeps
    <3>2. QED
      BY <2>2, <3>1, OperationsKeep DEF CallInv
  <2>3. QED
    BY <1>2, <2>1, <2>2 DEF CallerStep
<1>3. QED
  BY <1>1, <1>2, CompleteKeeps, ErrorKeeps DEF Next

\* What a call of DiskManager that returned normally reports was true at some
\* moment of the call, for any number of threads, calls and faults: no lookup that
\* is out of date and no operation of another call passes for its result.
THEOREM ReportsHold == Spec => []ReturnsAreTrue
<1>1. Init => CallInv
  BY DEF Init, CallInv, CallSteps, ReturnTrue, Returned
<1>2. TypeOK /\ CallInv /\ [Next]_vars => CallInv'
  BY NextKeepsCalls
<1>3. CallInv => ReturnsAreTrue
  BY DEF CallInv, ReturnTrue, ReturnsAreTrue
<1>4. QED
  BY <1>1, <1>2, <1>3, DiskCallsTyped, PTL DEF Spec

---------------------------------------------------------------------------
\* One step

\* While nobody else moves the disk, it stays where it was when the call began;
\* the user the query inspects is the holder, and a detach or fence that has
\* come past its lookup has something to detach.
Alone(d) ==
  pc[d] \notin Returned /\ d \notin disturbed =>
    /\ holder = before[d]
    /\ pc[d] = "inspect" => answer[d] = holder
    /\ pc[d] \in {"post", "wait"} /\ method[d] \in {"detach", "fence"} => holder = Target(d)

AloneInv == \A d \in Caller : Alone(d)

OneStep(d) ==
  pc[d] \notin Returned /\ pc'[d] \in Returned /\ d \notin disturbed' =>
    /\ holder' \in Outcomes(d, before[d], pc'[d] = "ok", d \in troubled')
    /\ method[d] = "query" => answer'[d] = before[d] \/ (answer'[d] = NoNode /\ d \in troubled')

\* The outcomes, one conclusion per kind of call.
LEMMA QueryOutcome ==
  ASSUME NEW d \in Caller, NEW was, NEW trouble \in BOOLEAN, method[d] = "query"
  PROVE  Outcomes(d, was, TRUE, trouble) = {was}
BY DEF Outcomes

LEMMA AttachOutcome ==
  ASSUME NEW d \in Caller, NEW was, NEW trouble \in BOOLEAN, method[d] = "attach"
  PROVE  /\ Own(d) \in Outcomes(d, was, TRUE, trouble)
         /\ trouble => /\ was \in Outcomes(d, was, FALSE, trouble)
                       /\ Own(d) \in Outcomes(d, was, FALSE, trouble)
BY DEF Outcomes

LEMMA DetachOutcome ==
  ASSUME NEW d \in Caller, NEW was, NEW ok \in BOOLEAN, NEW trouble \in BOOLEAN,
         method[d] \in {"detach", "fence"}
  PROVE  /\ ok /\ was # Target(d) => was \in Outcomes(d, was, ok, trouble)
         /\ trouble /\ was = Target(d) => /\ was \in Outcomes(d, was, ok, trouble)
                                          /\ NoNode \in Outcomes(d, was, ok, trouble)
         /\ ok /\ was = Target(d) => NoNode \in Outcomes(d, was, ok, trouble)
BY DEF Outcomes

\* A request of d finds the disk where it was, and whatever goes wrong with it
\* costs a fault.
LEMMA RequestAlone ==
  ASSUME TypeOK, CallInv, AloneInv, NEW d \in Caller,
         GetUsers(d) \/ Inspect(d) \/ Lookup(d) \/ PostRejected(d) \/ WaitFails(d)
           \/ PostAccepted(d)
  PROVE  Alone(d)' /\ OneStep(d)
<1>1. /\ UNCHANGED <<holder, method, before, disturbed>>
      /\ UNCHANGED Own(d) /\ UNCHANGED Target(d) /\ Target(d) # NoNode /\ Own(d) # NoNode
  BY TargetIsNode, DiskAssumption
     DEF GetUsers, Inspect, Lookup, PostRejected, PostAccepted, WaitFails, callVars, histVars,
         Own, Target
<1>2. Fault(d) => d \in troubled'
  BY FaultTyping
<1>3. (d \in troubled') \in BOOLEAN /\ method[d] \in Method
  BY DEF TypeOK
<1>4. CASE d \in disturbed
  BY <1>1, <1>4 DEF Alone, OneStep
<1>5. CASE d \notin disturbed
  <2>1. /\ pc[d] \notin Returned /\ holder = before[d] /\ CallSteps(d)
        /\ pc[d] = "inspect" => answer[d] = holder
        /\ pc[d] \in {"post", "wait"} /\ method[d] \in {"detach", "fence"} => holder = Target(d)
    BY <1>5 DEF AloneInv, Alone, CallInv, Returned, GetUsers, Inspect, Lookup, PostRejected,
                PostAccepted, WaitFails
  <2>2. CASE GetUsers(d)
    <3>1. method[d] \in {"query", "attach"}
      BY <2>1, <2>2 DEF GetUsers, CallSteps
    <3>2. \/ pc'[d] = "inspect" /\ answer'[d] = holder
          \/ pc'[d] = "post" /\ method[d] # "query"
          \/ /\ pc'[d] = "ok" /\ method[d] = "query"
             /\ answer'[d] = NoNode /\ (holder = NoNode \/ d \in troubled')
      BY <1>1, <1>2, <2>2 DEF GetUsers, Answer, Settled, Goto, TypeOK
    <3>3. QED
      BY <1>1, <1>3, <2>1, <3>1, <3>2, QueryOutcome DEF Alone, OneStep, Returned
  <2>3. CASE Inspect(d)
    <3>1. method[d] \in {"query", "attach"}
      BY <2>1, <2>3 DEF Inspect, CallSteps
    <3>2. answer'[d] = holder \/ (answer'[d] = NoNode /\ d \in troubled')
      BY <1>2, <2>1, <2>3 DEF Inspect, Answer, TypeOK
    <3>3. \/ pc'[d] = "post" /\ method[d] # "query"
          \/ pc'[d] = "ok" /\ (method[d] = "query" \/ answer'[d] = Own(d))
      BY <2>3 DEF Inspect, Answer, Settled, Goto, TypeOK
    <3>4. CASE pc'[d] = "post"
      BY <1>1, <2>1, <3>1, <3>4 DEF Alone, OneStep, Returned
    <3>5. CASE pc'[d] = "ok" /\ method[d] = "query"
      BY <1>1, <1>3, <2>1, <3>2, <3>5, QueryOutcome DEF Alone, OneStep, Returned
    <3>6. CASE pc'[d] = "ok" /\ method[d] = "attach"
      <4>1. holder' = Own(d)
        BY <1>1, <3>2, <3>3, <3>6
      <4>2. QED
        BY <1>3, <2>1, <3>6, <4>1, AttachOutcome DEF Alone, OneStep, Returned
    <3>7. QED
      BY <3>1, <3>3, <3>4, <3>5, <3>6
  <2>4. CASE Lookup(d)
    <3>1. method[d] \in {"detach", "fence"}
      BY <2>1, <2>4 DEF Lookup, CallSteps
    <3>2. \/ pc'[d] = "post" /\ holder = Target(d)
          \/ pc'[d] = "ok" /\ (holder # Target(d) \/ d \in troubled')
      BY <1>2, <2>4 DEF Lookup, Goto, TypeOK
    <3>3. QED
      BY <1>1, <1>3, <2>1, <3>1, <3>2, DetachOutcome DEF Alone, OneStep, Returned
  <2>5. CASE PostRejected(d) \/ PostAccepted(d) \/ WaitFails(d)
    <3>1. /\ method[d] \in {"attach", "detach", "fence"}
          /\ method[d] \in {"detach", "fence"} => holder = Target(d)
      BY <1>3, <2>1, <2>5 DEF PostRejected, PostAccepted, WaitFails, CallSteps, Method
    <3>2. \/ pc'[d] = "wait"
          \/ pc'[d] = "failed" /\ d \in troubled'
          \/ pc'[d] = "ok" /\ method[d] = "fence" /\ d \in troubled'
      BY <1>2, <2>5, <3>1
         DEF PostRejected, PostAccepted, WaitFails, Unanswered, Submitted, Feasible, Goto, TypeOK
    <3>3. QED
      BY <1>1, <1>3, <2>1, <3>1, <3>2, AttachOutcome, DetachOutcome
         DEF Alone, OneStep, Returned
  <2>6. QED
    BY <2>2, <2>3, <2>4, <2>5
<1>6. QED
  BY <1>4, <1>5

LEMMA OthersAlone ==
  ASSUME TypeOK, AloneInv, NEW d \in Caller, CallerStep(d), NEW e \in Caller, e # d
  PROVE  Alone(e)' /\ OneStep(e)
<1>1. /\ pc'[e] = pc[e] /\ answer'[e] = answer[e]
      /\ method'[e] = method[e] /\ before'[e] = before[e]
      /\ holder' = holder /\ (e \in disturbed' <=> e \in disturbed)
  BY DEF TypeOK, CallerStep, Call, GetUsers, Inspect, Lookup, PostRejected, PostAccepted, WaitFails,
         Answer, Goto, Unanswered, Submitted, callVars, histVars
<1>2. QED
  BY <1>1 DEF AloneInv, Alone, OneStep, Target

LEMMA CallAlone ==
  ASSUME TypeOK, NEW d \in Caller, Call(d)
  PROVE  Alone(d)' /\ OneStep(d)
<1>1. /\ before'[d] = holder /\ holder' = holder /\ pc'[d] \in {"users", "lookup"}
      /\ pc[d] \in Returned
  BY DEF TypeOK, Call, Goto
<1>2. QED
  BY <1>1 DEF Alone, OneStep, Returned

\* The operation that moves the disk is that of the caller waiting for it, which
\* returns, or it disturbs the call.
LEMMA CompleteAlone ==
  ASSUME TypeOK, CallInv, AloneInv, Complete, NEW d \in Caller
  PROVE  Alone(d)' /\ OneStep(d)
<1>1. PICK o \in operations :
        /\ o.attach \/ holder = o.node
        /\ holder' = IF o.attach THEN o.node ELSE NoNode
        /\ Finish(o, "ok")
        /\ disturbed' = IF holder' = holder THEN disturbed
                        ELSE disturbed \cup {e \in Caller : ~Waiting(e, o)}
  BY DEF Complete
<1>2. UNCHANGED <<method, answer, before, troubled>> /\ UNCHANGED Target(d)
  BY DEF Complete, callVars, Target
<1>3. (d \in troubled') \in BOOLEAN /\ method[d] \in Method
  BY DEF TypeOK
<1>4. CASE Waiting(d, o)
  <2>1. pc'[d] = "ok" /\ pc[d] = "wait"
    BY <1>1, <1>4 DEF Finish, Waiting, TypeOK
  <2>2. o.attach = (method[d] = "attach") /\ o.node = Target(d) /\ method[d] # "query"
    BY <1>4, <2>1 DEF CallInv, AskedFor, CallSteps, Waiting
  <2>3. d \notin disturbed' => d \notin disturbed
    BY <1>1
  <2>4. CASE method[d] = "attach"
    <3>1. holder' = Own(d)
      BY <1>1, <2>2, <2>4 DEF Target
    <3>2. QED
      BY <1>3, <2>1, <2>4, <3>1, AttachOutcome DEF Alone, OneStep, Returned
  <2>5. CASE method[d] \in {"detach", "fence"}
    <3>1. holder' = NoNode
      BY <1>1, <2>2, <2>5
    <3>2. d \notin disturbed => before[d] = Target(d)
      BY <2>1, <2>5 DEF AloneInv, Alone, Returned
    <3>3. QED
      BY <1>3, <2>1, <2>3, <2>5, <3>1, <3>2, DetachOutcome DEF Alone, OneStep, Returned
  <2>6. QED
    BY <1>3, <2>2, <2>4, <2>5 DEF Method
<1>5. CASE ~Waiting(d, o)
  <2>1. pc'[d] = pc[d]
    BY <1>1, <1>5 DEF Finish, Waiting, TypeOK
  <2>2. d \notin disturbed' => holder' = holder /\ d \notin disturbed
    BY <1>1, <1>5
  <2>3. QED
    BY <1>2, <2>1, <2>2 DEF AloneInv, Alone, OneStep
<1>6. QED
  BY <1>4, <1>5

LEMMA ErrorAlone ==
  ASSUME TypeOK, CallInv, AloneInv, CompleteWithError, NEW d \in Caller
  PROVE  Alone(d)' /\ OneStep(d)
<1>1. PICK o \in operations :
        /\ (~o.attach /\ holder # o.node) \/ Fault(o.by)
        /\ Finish(o, "failed")
  BY DEF CompleteWithError
<1>2. UNCHANGED <<holder, method, answer, before, disturbed>> /\ UNCHANGED Target(d)
  BY DEF CompleteWithError, callVars, histVars, Target
<1>3. (d \in troubled') \in BOOLEAN /\ method[d] \in Method /\ o.by \in Caller
  BY DEF TypeOK, Operation
<1>4. CASE Waiting(d, o) /\ d \notin disturbed
  <2>1. pc'[d] = "failed" /\ pc[d] = "wait" /\ o.by = d
    BY <1>1, <1>4 DEF Finish, Waiting, TypeOK
  <2>2. o.attach = (method[d] = "attach") /\ o.node = Target(d) /\ method[d] # "query"
    BY <1>4, <2>1 DEF CallInv, AskedFor, CallSteps, Waiting
  <2>3. /\ holder = before[d]
        /\ method[d] \in {"detach", "fence"} => holder = Target(d)
    BY <1>4, <2>1 DEF AloneInv, Alone, Returned
  <2>4. method[d] \in {"attach", "detach", "fence"}
    BY <1>3, <2>2 DEF Method
  <2>5. d \in troubled'
    BY <1>1, <1>3, <2>1, <2>2, <2>3, <2>4, FaultTyping
  <2>6. QED
    BY <1>2, <2>1, <2>3, <2>4, <2>5, AttachOutcome, DetachOutcome DEF Alone, OneStep, Returned
<1>5. CASE ~Waiting(d, o) \/ d \in disturbed
  <2>1. ~Waiting(d, o) => pc'[d] = pc[d]
    BY <1>1 DEF Finish, Waiting, TypeOK
  <2>2. QED
    BY <1>2, <1>5, <2>1 DEF AloneInv, Alone, OneStep
<1>6. QED
  BY <1>4, <1>5

LEMMA NextAlone ==
  ASSUME TypeOK, CallInv, AloneInv, [Next]_vars
  PROVE  AloneInv' /\ \A d \in Caller : OneStep(d)
<1>1. CASE UNCHANGED vars
  BY <1>1 DEF vars, callVars, histVars, AloneInv, Alone, OneStep, Target
<1>2. ASSUME NEW d \in Caller, CallerStep(d) PROVE \A e \in Caller : Alone(e)' /\ OneStep(e)
  <2>1. Alone(d)' /\ OneStep(d)
    BY <1>2, CallAlone, RequestAlone DEF CallerStep
  <2>2. QED
    BY <1>2, <2>1, OthersAlone
<1>3. CASE Complete \/ CompleteWithError
  BY <1>3, CompleteAlone, ErrorAlone DEF AloneInv
<1>4. QED
  BY <1>1, <1>2, <1>3 DEF Next, AloneInv

\* A call during which nobody else moves the disk, with all its requests, does what
\* the one-step operations of CloudOps do, for any number of threads, calls and
\* faults.
THEOREM CallsAreOneStep == Spec => DiskCallIsOneStep
<1>1. Init => CallInv /\ AloneInv
  BY DEF Init, CallInv, CallSteps, ReturnTrue, AloneInv, Alone, Returned
<1>2. TypeOK /\ CallInv /\ AloneInv /\ [Next]_vars => CallInv' /\ AloneInv'
  BY NextKeepsCalls, NextAlone
<1>3. TypeOK /\ CallInv /\ AloneInv /\ [Next]_vars => [\A d \in Caller : OneStep(d)]_vars
  BY NextAlone
<1>4. Spec => [][\A d \in Caller : OneStep(d)]_vars
  BY <1>1, <1>2, <1>3, DiskCallsTyped, PTL DEF Spec
<1>5. QED
  BY <1>4 DEF OneStep, DiskCallIsOneStep
=============================================================================
