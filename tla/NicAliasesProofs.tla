-------------------------- MODULE NicAliasesProofs --------------------------
(***************************************************************************)
(* What the fingerprint protects, what a call does that nobody disturbs,   *)
(* and why two nodes that both take the VIP do not lose it: for any number *)
(* of clusters, calls, retries and faults.                                 *)
(***************************************************************************)
EXTENDS NicAliases, TLAPS

\* A list that will be, or was, accepted at the first attempt differs from what
\* is on the NIC in the caller's own VIP only.
SameButVip(n, ranges, c) == ranges \ {c} = aliases[n] \ {c}

FingerprintInv ==
  /\ TypeOK
  /\ \A d \in Daemon : pc[d] = "refetch" => attempt[d] < MaxRetries
  /\ \A d \in Daemon : pc[d] = "patch" =>
       /\ seen[d] <= fingerprint[target[d]]
       /\ attempt[d] = 1 /\ seen[d] = fingerprint[target[d]]
            => SameButVip(target[d], newRanges[d], Vip(d))
  /\ \A n \in Node : \A r \in operation[n] : r.attempt = 1 => SameButVip(n, r.ranges, Vip(r.by))

LEMMA DaemonParts ==
  ASSUME NEW d \in Daemon
  PROVE  Vip(d) \in Cluster /\ Own(d) \in Node /\ PeerOf(d) \in Node
BY DEF Daemon, Vip, Own, PeerOf, Node

LEMMA FingerprintInit == Init => FingerprintInv
<1> SUFFICES ASSUME Init PROVE FingerprintInv
  OBVIOUS
<1>1. left \in [faults : 0..Faults, calls : 0..Calls]
  BY NicAssumption DEF Init
<1>2. TypeOK
  BY <1>1, NicAssumption, DaemonParts DEF Init, TypeOK, Returned
<1> QED
  BY <1>2 DEF Init, FingerprintInv

LEMMA FaultTyping ==
  ASSUME TypeOK, Fault \/ NoFault
  PROVE  left' \in [faults : 0..Faults, calls : 0..Calls]
BY NicAssumption DEF TypeOK, Fault, NoFault

LEMMA GotoTyping ==
  ASSUME TypeOK, NEW d \in Daemon,
         NEW label \in Returned \cup {"check", "get", "patch", "refetch", "wait", "verify"}, Goto(d, label)
  PROVE  /\ pc' \in [Daemon -> Returned \cup {"check", "get", "patch", "refetch", "wait", "verify"}]
         /\ pc'[d] = label /\ \A e \in Daemon \ {d} : pc'[e] = pc[e]
BY DEF TypeOK, Goto

\* A step of a daemon that leaves the NICs alone and prepares no PATCH.
LEMMA CallerStep ==
  ASSUME FingerprintInv, NEW d \in Daemon, UNCHANGED <<nicVars, newRanges, seen, attempt>>,
         NEW label \in Returned \cup {"check", "get", "wait", "verify"}, Goto(d, label),
         target' \in [Daemon -> Node], \A e \in Daemon \ {d} : target'[e] = target[e],
         method' \in [Daemon -> {"none", "acquire", "release"}],
         before' \in [Daemon -> SUBSET Node], disturbed' \subseteq Daemon,
         left' \in [faults : 0..Faults, calls : 0..Calls]
  PROVE  FingerprintInv'
<1>1. /\ pc' \in [Daemon -> Returned \cup {"check", "get", "patch", "refetch", "wait", "verify"}]
      /\ pc'[d] = label /\ \A e \in Daemon \ {d} : pc'[e] = pc[e]
  BY GotoTyping DEF FingerprintInv
<1>2. TypeOK'
  BY <1>1 DEF FingerprintInv, TypeOK, nicVars
<1>3. pc'[d] \notin {"patch", "refetch"}
  BY <1>1 DEF Returned
<1> QED
  BY <1>1, <1>2, <1>3 DEF FingerprintInv, SameButVip, nicVars

LEMMA ProceedLabel ==
  ASSUME TypeOK, NEW d \in Daemon, Proceed(d)
  PROVE  /\ Goto(d, "get") \/ Goto(d, "ok")
         /\ target' \in [Daemon -> Node] /\ \A e \in Daemon \ {d} : target'[e] = target[e]
BY DaemonParts DEF TypeOK, Proceed

LEMMA CallKeeps ==
  ASSUME FingerprintInv, NEW d \in Daemon, Call(d)
  PROVE  FingerprintInv'
<1>1. TypeOK
  BY DEF FingerprintInv
<1>2. PICK label \in {"check", "get"} : Goto(d, label)
  BY DEF Call
<1>3. method' \in [Daemon -> {"none", "acquire", "release"}]
  BY <1>1 DEF Call, TypeOK
<1>4. /\ target' \in [Daemon -> Node] /\ \A e \in Daemon \ {d} : target'[e] = target[e]
      /\ before' \in [Daemon -> SUBSET Node] /\ disturbed' \subseteq Daemon
  BY <1>1, DaemonParts DEF Call, TypeOK, Placed
<1>5. left' \in [faults : 0..Faults, calls : 0..Calls]
  BY <1>1, NicAssumption DEF Call, TypeOK
<1> QED
  BY <1>2, <1>3, <1>4, <1>5, CallerStep DEF Call

LEMMA CheckPeerKeeps ==
  ASSUME FingerprintInv, NEW d \in Daemon, CheckPeer(d)
  PROVE  FingerprintInv'
<1>1. TypeOK
  BY DEF FingerprintInv
<1>2. /\ target' \in [Daemon -> Node] /\ \A e \in Daemon \ {d} : target'[e] = target[e]
  BY <1>1, DaemonParts DEF CheckPeer, TypeOK
<1>3. left' \in [faults : 0..Faults, calls : 0..Calls]
  BY <1>1, FaultTyping DEF CheckPeer
<1> QED
  BY <1>1, <1>2, <1>3, CallerStep DEF CheckPeer, histVars, TypeOK

\* The calls that only end, or go on to the next NIC.
LEMMA ReturnKeeps ==
  ASSUME FingerprintInv, NEW d \in Daemon,
         UNCHANGED <<nicVars, method, newRanges, seen, attempt, histVars>>,
         \/ Proceed(d) /\ NoFault
         \/ Raise(d) /\ UNCHANGED target
  PROVE  FingerprintInv'
<1>1. TypeOK
  BY DEF FingerprintInv
<1>2. PICK label \in {"get", "ok", "failed"} : Goto(d, label)
  BY <1>1, ProceedLabel DEF Raise
<1>3. target' \in [Daemon -> Node] /\ \A e \in Daemon \ {d} : target'[e] = target[e]
  BY <1>1, ProceedLabel DEF TypeOK
<1>4. left' \in [faults : 0..Faults, calls : 0..Calls]
  BY <1>1, FaultTyping DEF Raise
<1>5. label \in Returned \cup {"check", "get", "wait", "verify"}
  BY DEF Returned
<1>6. /\ method' \in [Daemon -> {"none", "acquire", "release"}]
      /\ before' \in [Daemon -> SUBSET Node] /\ disturbed' \subseteq Daemon
  BY <1>1 DEF histVars, TypeOK
<1> QED
  BY <1>2, <1>3, <1>4, <1>5, <1>6, CallerStep

\* The list is computed from the NIC that the fingerprint is read from.
LEMMA GetNicKeeps ==
  ASSUME FingerprintInv, NEW d \in Daemon, GetNic(d)
  PROVE  FingerprintInv'
<1>1. TypeOK
  BY DEF FingerprintInv
<1> DEFINE ranges == IF Removing(d) THEN aliases[target[d]] \ {Vip(d)}
                                    ELSE aliases[target[d]] \cup {Vip(d)}
<1>2. CASE /\ newRanges' = [newRanges EXCEPT ![d] = ranges]
           /\ seen' = [seen EXCEPT ![d] = fingerprint[target[d]]]
           /\ attempt' = [attempt EXCEPT ![d] = 1]
           /\ Goto(d, "patch") /\ NoFault /\ UNCHANGED target
  <2>1. /\ pc' \in [Daemon -> Returned \cup {"check", "get", "patch", "refetch", "wait", "verify"}]
        /\ pc'[d] = "patch" /\ \A e \in Daemon \ {d} : pc'[e] = pc[e]
    BY <1>1, <1>2, GotoTyping
  <2>2. target[d] \in Node /\ ranges \subseteq Cluster /\ fingerprint[target[d]] \in Nat
    BY <1>1, DaemonParts DEF TypeOK
  <2>3. TypeOK'
    <3>1. newRanges' \in [Daemon -> SUBSET Cluster] /\ seen' \in [Daemon -> Nat]
      BY <1>1, <1>2, <2>2 DEF TypeOK
    <3>2. attempt' \in [Daemon -> 1..MaxRetries]
      BY <1>1, <1>2, NicAssumption DEF TypeOK
    <3> QED
      BY <1>1, <1>2, <2>1, <3>1, <3>2 DEF GetNic, TypeOK, nicVars, histVars, NoFault
  <2>4. SameButVip(target[d], ranges, Vip(d))
    BY DEF SameButVip
  <2>5. /\ newRanges'[d] = ranges /\ seen'[d] = fingerprint[target[d]]
        /\ \A e \in Daemon \ {d} : /\ newRanges'[e] = newRanges[e] /\ seen'[e] = seen[e]
                                   /\ attempt'[e] = attempt[e]
    BY <1>1, <1>2 DEF TypeOK
  <2> HIDE DEF ranges
  <2> QED
    BY <1>2, <2>1, <2>2, <2>3, <2>4, <2>5 DEF GetNic, FingerprintInv, SameButVip, nicVars
<1>3. CASE \/ Proceed(d) /\ NoFault /\ UNCHANGED <<newRanges, seen, attempt>>
           \/ Raise(d) /\ UNCHANGED <<target, newRanges, seen, attempt>>
  BY <1>3, ReturnKeeps DEF GetNic
<1> QED
  BY <1>2, <1>3 DEF GetNic

\* Only a list that goes with the current fingerprint is accepted.
LEMMA PatchAcceptedKeeps ==
  ASSUME FingerprintInv, NEW d \in Daemon, PatchAccepted(d)
  PROVE  FingerprintInv'
<1>1. TypeOK
  BY DEF FingerprintInv
<1> DEFINE r == [by |-> d, ranges |-> newRanges[d], attempt |-> attempt[d]]
<1>2. target[d] \in Node /\ r \in Request
  BY <1>1 DEF TypeOK, Request
<1>3. PICK label \in {"wait", "failed"} : Goto(d, label)
  BY DEF PatchAccepted, Raise
<1>4. /\ pc' \in [Daemon -> Returned \cup {"check", "get", "patch", "refetch", "wait", "verify"}]
      /\ pc'[d] = label /\ \A e \in Daemon \ {d} : pc'[e] = pc[e]
  BY <1>1, <1>3, GotoTyping DEF Returned
<1>5. left' \in [faults : 0..Faults, calls : 0..Calls]
  BY <1>1, FaultTyping DEF PatchAccepted, Raise
<1>6. operation' = [operation EXCEPT ![target[d]] = {r}]
  BY DEF PatchAccepted
<1>7. TypeOK'
  BY <1>1, <1>2, <1>4, <1>5, <1>6 DEF PatchAccepted, TypeOK, callVars, histVars
<1>8. r.attempt = 1 => SameButVip(target[d], r.ranges, Vip(r.by))
  BY DEF FingerprintInv, PatchAccepted, Acceptable
<1>9. \A n \in Node : \A q \in operation'[n] : (q = r /\ n = target[d]) \/ q \in operation[n]
  BY <1>1, <1>6 DEF TypeOK
<1> HIDE DEF r
<1> QED
  BY <1>3, <1>4, <1>7, <1>8, <1>9 DEF PatchAccepted, FingerprintInv, SameButVip, callVars

LEMMA PatchRefusedKeeps ==
  ASSUME FingerprintInv, NEW d \in Daemon, PatchRefused(d)
  PROVE  FingerprintInv'
<1>1. TypeOK
  BY DEF FingerprintInv
<1>2. PICK label \in {"refetch", "failed"} :
        Goto(d, label) /\ (label = "refetch" => attempt[d] < MaxRetries)
  BY DEF PatchRefused
<1>3. /\ pc' \in [Daemon -> Returned \cup {"check", "get", "patch", "refetch", "wait", "verify"}]
      /\ pc'[d] = label /\ \A e \in Daemon \ {d} : pc'[e] = pc[e]
  BY <1>1, <1>2, GotoTyping DEF Returned
<1>4. left' \in [faults : 0..Faults, calls : 0..Calls]
  BY <1>1, FaultTyping DEF PatchRefused
<1>5. TypeOK'
  BY <1>1, <1>3, <1>4 DEF PatchRefused, TypeOK, nicVars, callVars, histVars
<1> QED
  BY <1>2, <1>3, <1>5 DEF PatchRefused, FingerprintInv, SameButVip, nicVars, callVars

LEMMA FailKeeps ==
  ASSUME FingerprintInv, NEW d \in Daemon, PatchFails(d) \/ WaitFails(d)
  PROVE  FingerprintInv'
BY ReturnKeeps DEF PatchFails, WaitFails, callVars

\* From the second attempt on the list is not compared with the NIC any more.
LEMMA RefetchKeeps ==
  ASSUME FingerprintInv, NEW d \in Daemon, Refetch(d)
  PROVE  FingerprintInv'
<1>1. TypeOK /\ attempt[d] < MaxRetries
  BY DEF FingerprintInv, Refetch
<1>2. CASE /\ seen' = [seen EXCEPT ![d] = fingerprint[target[d]]]
           /\ attempt' = [attempt EXCEPT ![d] = @ + 1]
           /\ Goto(d, "patch") /\ NoFault
  <2>1. /\ pc' \in [Daemon -> Returned \cup {"check", "get", "patch", "refetch", "wait", "verify"}]
        /\ pc'[d] = "patch" /\ \A e \in Daemon \ {d} : pc'[e] = pc[e]
    BY <1>1, <1>2, GotoTyping
  <2>2. /\ fingerprint[target[d]] \in Nat /\ seen'[d] = fingerprint[target[d]]
        /\ attempt'[d] = attempt[d] + 1 /\ attempt'[d] \in 1..MaxRetries /\ attempt'[d] # 1
        /\ \A e \in Daemon \ {d} : seen'[e] = seen[e] /\ attempt'[e] = attempt[e]
    BY <1>1, <1>2, NicAssumption DEF TypeOK
  <2>3. seen' \in [Daemon -> Nat] /\ attempt' \in [Daemon -> 1..MaxRetries]
    BY <1>1, <1>2, <2>2 DEF TypeOK
  <2>4. TypeOK'
    BY <1>1, <1>2, <2>1, <2>3 DEF Refetch, TypeOK, nicVars, histVars, NoFault
  <2> QED
    BY <1>1, <2>1, <2>2, <2>4 DEF Refetch, FingerprintInv, SameButVip, nicVars, TypeOK
<1>3. CASE Raise(d) /\ UNCHANGED <<seen, attempt>>
  BY <1>3, ReturnKeeps DEF Refetch
<1> QED
  BY <1>2, <1>3 DEF Refetch

LEMMA VerifyKeeps ==
  ASSUME FingerprintInv, NEW d \in Daemon, Verify(d)
  PROVE  FingerprintInv'
BY ReturnKeeps DEF Verify
\* What GCP does to the daemon that waits for the operation.
LEMMA WakeTyping ==
  ASSUME TypeOK, NEW d \in Daemon, NEW label \in {"verify", "failed"}, NEW woken \in BOOLEAN,
         pc' = [pc EXCEPT ![d] = IF woken THEN label ELSE @]
  PROVE  /\ pc' \in [Daemon -> Returned \cup {"check", "get", "patch", "refetch", "wait", "verify"}]
         /\ \A e \in Daemon : pc'[e] = pc[e] \/ pc'[e] = label
BY DEF TypeOK, Returned

\* The list on the NIC changes together with the fingerprint: what a daemon has
\* in hand for this NIC is out of date and will be refused.
LEMMA CompleteKeeps ==
  ASSUME FingerprintInv, NEW n \in Node, Complete(n)
  PROVE  FingerprintInv'
<1>1. TypeOK
  BY DEF FingerprintInv
<1>2. PICK r \in operation[n] :
        /\ aliases' = [aliases EXCEPT ![n] = r.ranges]
        /\ fingerprint' = [fingerprint EXCEPT ![n] = @ + 1]
        /\ operation' = [operation EXCEPT ![n] = {}]
        /\ pc' = [pc EXCEPT ![r.by] = IF Waiting(r.by, n) THEN "verify" ELSE @]
        /\ disturbed' \subseteq Daemon
    BY <1>1 DEF Complete, TypeOK
<1>3. r.by \in Daemon /\ r.ranges \subseteq Cluster
  BY <1>1 DEF TypeOK, Request
<1>4. Waiting(r.by, n) \in BOOLEAN
  BY DEF Waiting
<1>5. /\ pc' \in [Daemon -> Returned \cup {"check", "get", "patch", "refetch", "wait", "verify"}]
      /\ \A e \in Daemon : pc'[e] = pc[e] \/ pc'[e] = "verify"
  BY <1>1, <1>2, <1>3, <1>4, WakeTyping
<1>6. UNCHANGED <<callVars, before, left>>
  BY DEF Complete
<1>7. aliases' \in [Node -> SUBSET Cluster] /\ fingerprint' \in [Node -> Nat]
  BY <1>1, <1>2, <1>3 DEF TypeOK
<1>8. operation' \in [Node -> SUBSET Request]
  BY <1>1, <1>2 DEF TypeOK
<1>9. TypeOK'
  BY <1>1, <1>2, <1>5, <1>6, <1>7, <1>8 DEF TypeOK, callVars
<1>10. /\ fingerprint'[n] = fingerprint[n] + 1 /\ operation'[n] = {}
       /\ \A m \in Node \ {n} : /\ aliases'[m] = aliases[m] /\ fingerprint'[m] = fingerprint[m]
                                /\ operation'[m] = operation[m]
  BY <1>1, <1>2 DEF TypeOK
<1>11. ASSUME NEW d \in Daemon, pc'[d] = "patch"
       PROVE  /\ seen[d] <= fingerprint'[target[d]]
              /\ attempt[d] = 1 /\ seen[d] = fingerprint'[target[d]]
                   => SameButVip(target[d], newRanges[d], Vip(d))'
  <2>1. pc[d] = "patch" /\ target[d] \in Node /\ seen[d] \in Nat /\ fingerprint[target[d]] \in Nat
    BY <1>1, <1>5, <1>11 DEF TypeOK
  <2>2. seen[d] <= fingerprint[target[d]]
    BY <2>1 DEF FingerprintInv
  <2>3. CASE target[d] = n
    BY <1>10, <2>1, <2>2, <2>3
  <2>4. CASE target[d] # n
    BY <1>6, <1>10, <2>1, <2>2, <2>4 DEF FingerprintInv, SameButVip, callVars
  <2> QED
    BY <2>3, <2>4
<1>12. \A m \in Node : \A q \in operation'[m] : q.attempt = 1 => SameButVip(m, q.ranges, Vip(q.by))'
  BY <1>10 DEF FingerprintInv, SameButVip
<1>13. \A d \in Daemon : pc'[d] = "refetch" => attempt'[d] < MaxRetries
  BY <1>5, <1>6 DEF FingerprintInv, callVars
<1> QED
  BY <1>6, <1>9, <1>11, <1>12, <1>13 DEF FingerprintInv, callVars

LEMMA CompleteWithErrorKeeps ==
  ASSUME FingerprintInv, NEW n \in Node, CompleteWithError(n)
  PROVE  FingerprintInv'
<1>1. TypeOK
  BY DEF FingerprintInv
<1>2. PICK r \in operation[n] : pc' = [pc EXCEPT ![r.by] = IF Waiting(r.by, n) THEN "failed" ELSE @]
  BY DEF CompleteWithError
<1>3. r.by \in Daemon /\ Waiting(r.by, n) \in BOOLEAN
  BY <1>1 DEF TypeOK, Request, Waiting
<1>4. /\ pc' \in [Daemon -> Returned \cup {"check", "get", "patch", "refetch", "wait", "verify"}]
      /\ \A e \in Daemon : pc'[e] = pc[e] \/ pc'[e] = "failed"
  BY <1>1, <1>2, <1>3, WakeTyping
<1>5. left' \in [faults : 0..Faults, calls : 0..Calls]
  BY <1>1, FaultTyping DEF CompleteWithError
<1>6. /\ operation' = [operation EXCEPT ![n] = {}]
      /\ UNCHANGED <<aliases, fingerprint, callVars, histVars>>
  BY DEF CompleteWithError
<1>7. TypeOK'
  BY <1>1, <1>4, <1>5, <1>6 DEF TypeOK, callVars, histVars
<1>8. \A m \in Node : operation'[m] \subseteq operation[m]
  BY <1>1, <1>6 DEF TypeOK
<1> QED
  BY <1>4, <1>6, <1>7, <1>8 DEF FingerprintInv, SameButVip, callVars

LEMMA FingerprintStep ==
  ASSUME FingerprintInv, [Next]_vars
  PROVE  FingerprintInv'
<1>1. CASE \E d \in Daemon : DaemonStep(d)
  BY <1>1, CallKeeps, CheckPeerKeeps, GetNicKeeps, PatchAcceptedKeeps, PatchRefusedKeeps, FailKeeps,
     RefetchKeeps, VerifyKeeps DEF DaemonStep
<1>2. CASE \E n \in Node : Complete(n) \/ CompleteWithError(n)
  BY <1>2, CompleteKeeps, CompleteWithErrorKeeps
<1>3. CASE UNCHANGED vars
  BY <1>3 DEF vars, nicVars, callVars, histVars, FingerprintInv, TypeOK, SameButVip
<1> QED
  BY <1>1, <1>2, <1>3 DEF Next

LEMMA FingerprintAlways == Spec => []FingerprintInv
BY FingerprintInit, FingerprintStep, PTL DEF Spec

\* The types of NetworkManager's calls, the retry counter within max_retries.
THEOREM NicAliasesTyped == Spec => []TypeOK
<1>1. FingerprintInv => TypeOK
  BY DEF FingerprintInv
<1> QED
  BY <1>1, FingerprintAlways, PTL

\* Only GCP changes a list, and only to one that was accepted.
LEMMA ListChanges ==
  ASSUME TypeOK, [Next]_vars, NEW n \in Node, aliases'[n] # aliases[n]
  PROVE  \E r \in operation[n] : aliases'[n] = r.ranges
<1>1. CASE \E d \in Daemon : DaemonStep(d)
  BY <1>1 DEF DaemonStep, Call, CheckPeer, GetNic, PatchAccepted, PatchRefused, PatchFails, Refetch,
              WaitFails, Verify, nicVars
<1>2. CASE \E m \in Node : Complete(m)
  BY <1>2 DEF Complete, TypeOK
<1>3. CASE \E m \in Node : CompleteWithError(m)
  BY <1>3 DEF CompleteWithError
<1> QED
  BY <1>1, <1>2, <1>3 DEF Next, vars, nicVars

\* A first PATCH never touches another cluster's VIP.
THEOREM FingerprintProtects == Spec => FirstTryHarmless
<1>1. ASSUME FingerprintInv, [Next]_vars, NEW n \in Node, NEW c \in Cluster,
             (c \in aliases[n]) # (c \in aliases[n]')
      PROVE  \E r \in operation[n] : Vip(r.by) = c \/ r.attempt > 1
  <2>1. TypeOK
    BY <1>1 DEF FingerprintInv
  <2>2. PICK r \in operation[n] : aliases'[n] = r.ranges
    BY <1>1, <2>1, ListChanges
  <2>3. r.attempt \in Nat /\ r.attempt >= 1
    BY <2>1, <2>2, NicAssumption DEF TypeOK, Request
  <2>4. CASE r.attempt = 1
    <3>1. SameButVip(n, r.ranges, Vip(r.by))
      BY <1>1, <2>2, <2>4 DEF FingerprintInv
    <3> QED
      BY <1>1, <2>2, <3>1 DEF SameButVip
  <2>5. CASE r.attempt # 1
    BY <2>2, <2>3, <2>5
  <2> QED
    BY <2>4, <2>5
<1> DEFINE Harmless == \A n \in Node, c \in Cluster :
             (c \in aliases[n]) # (c \in aliases[n]') =>
               \E r \in operation[n] : Vip(r.by) = c \/ r.attempt > 1
<1>2. FingerprintInv /\ [Next]_vars => [Harmless]_vars
  BY <1>1
<1> QED
  BY <1>2, FingerprintAlways, PTL DEF Spec, FirstTryHarmless

---------------------------------------------------------------------------
\* The request a call has under way: it is for the caller's own VIP, and while
\* the caller waits, the operation on the NIC is the caller's.

Sent(d) == [by |-> d, ranges |-> newRanges[d], attempt |-> attempt[d]]

RequestAt(d) ==
  /\ method[d] = "none" => pc[d] = "ok"
  /\ method[d] = "release" \/ pc[d] = "check" => target[d] = Own(d)
  /\ pc[d] = "check" => method[d] = "acquire"
  /\ pc[d] \in {"patch", "refetch", "wait"} => (Vip(d) \in newRanges[d] <=> ~Removing(d))
  /\ pc[d] = "wait" => operation[target[d]] = {Sent(d)}

\* Where the VIP is at each step of a call that nobody disturbs.  acquire_vip
\* works on the own NIC with the peer's alias gone, or after a failure to see it.
PeerDone(d) ==
  \/ Placed(Vip(d)) = before[d] \ {PeerOf(d)}
  \/ left.faults < Faults /\ Placed(Vip(d)) = before[d]

Taken(d) ==
  \/ Placed(Vip(d)) = {Own(d)}
  \/ left.faults < Faults /\ Placed(Vip(d)) = before[d] \cup {Own(d)}

PlaceAt(d) ==
  /\ pc[d] = "check" => Placed(Vip(d)) = before[d]
  /\ pc[d] \in {"get", "patch", "refetch", "wait"} /\ Removing(d) => Placed(Vip(d)) = before[d]
  /\ pc[d] \in {"get", "patch", "refetch", "wait"} /\ ~Removing(d) => PeerDone(d)
  /\ pc[d] = "verify" /\ Removing(d) => Placed(Vip(d)) = before[d] \ {target[d]}
  /\ pc[d] = "verify" /\ ~Removing(d) => Taken(d)

CallInv ==
  /\ FingerprintInv
  /\ \A d \in Daemon : RequestAt(d)
  /\ \A d \in Daemon : pc[d] \notin Returned /\ d \notin disturbed => PlaceAt(d)

LEMMA TwoNics ==
  ASSUME NEW d \in Daemon
  PROVE  Node = {Own(d), PeerOf(d)} /\ Own(d) # PeerOf(d)
BY NicAssumption DEF Daemon, Own, PeerOf, Node

LEMMA CallInit == Init => CallInv
<1> SUFFICES ASSUME Init PROVE CallInv
  OBVIOUS
<1>1. ASSUME NEW d \in Daemon
      PROVE  pc[d] = "ok" /\ method[d] = "none" /\ target[d] = Own(d)
  BY DEF Init
<1> QED
  BY <1>1, FingerprintInit DEF CallInv, RequestAt, Returned

\* The lists do not change, the other daemons neither; faults are only used up.
LEMMA DaemonFrame ==
  ASSUME TypeOK, NEW d \in Daemon, DaemonStep(d)
  PROVE  /\ aliases' = aliases
         /\ \A e \in Daemon \ {d} :
              /\ pc'[e] = pc[e] /\ method'[e] = method[e] /\ target'[e] = target[e]
              /\ newRanges'[e] = newRanges[e] /\ attempt'[e] = attempt[e]
              /\ before'[e] = before[e] /\ (e \in disturbed' <=> e \in disturbed)
         /\ left'.faults <= left.faults
<1>1. left'.faults <= left.faults
  BY NicAssumption DEF TypeOK, DaemonStep, Call, CheckPeer, GetNic, PatchAccepted, PatchRefused, PatchFails,
     Refetch, WaitFails, Verify, Raise, Fault, NoFault
<1>2. CASE Call(d)
  BY <1>1, <1>2 DEF Call, TypeOK, Goto, nicVars
<1>3. CASE CheckPeer(d)
  BY <1>1, <1>3 DEF CheckPeer, TypeOK, Goto, nicVars, histVars
<1>4. CASE GetNic(d)
  BY <1>1, <1>4 DEF GetNic, Proceed, Raise, TypeOK, Goto, nicVars, histVars
<1>5. CASE PatchAccepted(d)
  BY <1>1, <1>5 DEF PatchAccepted, Raise, TypeOK, Goto, callVars, histVars
<1>6. CASE PatchRefused(d) \/ PatchFails(d) \/ WaitFails(d)
  BY <1>1, <1>6 DEF PatchRefused, PatchFails, WaitFails, Raise, TypeOK, Goto, nicVars, callVars, histVars
<1>7. CASE Refetch(d)
  BY <1>1, <1>7 DEF Refetch, Raise, TypeOK, Goto, nicVars, histVars
<1>8. CASE Verify(d)
  BY <1>1, <1>8 DEF Verify, Proceed, Raise, TypeOK, Goto, nicVars, histVars
<1> QED
  BY <1>2, <1>3, <1>4, <1>5, <1>6, <1>7, <1>8 DEF DaemonStep

LEMMA OperationFrame ==
  ASSUME NEW d \in Daemon, DaemonStep(d)
  PROVE  \/ operation' = operation
         \/ /\ pc[d] = "patch" /\ operation[target[d]] = {}
            /\ operation' = [operation EXCEPT ![target[d]] = {Sent(d)}]
BY DEF DaemonStep, Call, CheckPeer, GetNic, PatchAccepted, Acceptable, PatchRefused, PatchFails,
       Refetch, WaitFails, Verify, nicVars, Sent

\* What a daemon has in hand is not touched by the steps of the others.
LEMMA OthersKeep ==
  ASSUME CallInv, NEW d \in Daemon, DaemonStep(d), NEW e \in Daemon \ {d}
  PROVE  /\ RequestAt(e)'
         /\ (pc[e] \notin Returned /\ e \notin disturbed => PlaceAt(e))'
<1>1. TypeOK
  BY DEF CallInv, FingerprintInv
<1>2. /\ aliases' = aliases
      /\ pc'[e] = pc[e] /\ method'[e] = method[e] /\ target'[e] = target[e]
      /\ newRanges'[e] = newRanges[e] /\ attempt'[e] = attempt[e]
      /\ before'[e] = before[e] /\ (e \in disturbed' <=> e \in disturbed)
      /\ left'.faults <= left.faults
  BY <1>1, DaemonFrame
<1>3. RequestAt(e) /\ (pc[e] \notin Returned /\ e \notin disturbed => PlaceAt(e))
  BY DEF CallInv
<1>4. pc[e] = "wait" => operation'[target[e]] = operation[target[e]]
  BY <1>1, <1>3, OperationFrame DEF RequestAt, TypeOK
<1>5. left.faults < Faults => left'.faults < Faults
  <2>1. left.faults \in Nat /\ left'.faults \in Nat
    <3>1. TypeOK'
      BY FingerprintStep DEF CallInv, FingerprintInv, Next
    <3> QED
      BY <1>1, <3>1, NicAssumption DEF TypeOK
  <2> QED
    BY <1>2, <2>1, NicAssumption
<1>6. RequestAt(e)'
  BY <1>2, <1>3, <1>4 DEF RequestAt, Removing, Sent
<1>7. (pc[e] \notin Returned /\ e \notin disturbed => PlaceAt(e))'
  BY <1>2, <1>3, <1>5 DEF PlaceAt, PeerDone, Taken, Placed, Removing
<1> QED
  BY <1>6, <1>7

\* What is to be shown of the daemon that takes the step.
OwnAt(d) == RequestAt(d) /\ (pc[d] \notin Returned /\ d \notin disturbed => PlaceAt(d))

\* A fault is seen in the budget from then on.
LEMMA FaultSpent ==
  ASSUME TypeOK
  PROVE  /\ Fault => left'.faults < Faults
         /\ NoFault => (left'.faults < Faults <=> left.faults < Faults)
BY NicAssumption DEF TypeOK, Fault, NoFault

LEMMA PcAfter ==
  ASSUME TypeOK, NEW d \in Daemon, NEW label, Goto(d, label)
  PROVE  pc'[d] = label
BY DEF TypeOK, Goto

LEMMA CallOwn ==
  ASSUME CallInv, NEW d \in Daemon, Call(d)
  PROVE  OwnAt(d)'
<1>1. TypeOK
  BY DEF CallInv, FingerprintInv
<1>2. PICK m \in {"acquire", "release"} :
        /\ method' = [method EXCEPT ![d] = m]
        /\ Goto(d, IF m = "acquire" THEN "check" ELSE "get")
  BY DEF Call
<1>3. /\ method'[d] = m /\ pc'[d] = (IF m = "acquire" THEN "check" ELSE "get")
      /\ target'[d] = Own(d) /\ before'[d] = Placed(Vip(d)) /\ aliases' = aliases
  BY <1>1, <1>2, PcAfter DEF Call, TypeOK, nicVars
<1> QED
  BY <1>3 DEF OwnAt, RequestAt, PlaceAt, Removing, Placed

LEMMA CheckPeerOwn ==
  ASSUME CallInv, NEW d \in Daemon, CheckPeer(d)
  PROVE  OwnAt(d)'
<1>1. TypeOK /\ RequestAt(d)
  BY DEF CallInv, FingerprintInv
<1>2. /\ pc[d] = "check" /\ pc'[d] = "get" /\ method'[d] = method[d] /\ method[d] = "acquire"
      /\ aliases' = aliases /\ before' = before /\ disturbed' = disturbed /\ target[d] = Own(d)
  BY <1>1, PcAfter DEF CheckPeer, nicVars, histVars, RequestAt
<1>3. d \notin disturbed => Placed(Vip(d)) = before[d]
  BY <1>2 DEF CallInv, PlaceAt, Returned
<1>4. CASE target' = [target EXCEPT ![d] = PeerOf(d)]
  <2>1. target'[d] = PeerOf(d) /\ PeerOf(d) # Own(d)
    BY <1>1, <1>4, TwoNics DEF TypeOK
  <2> QED
    BY <1>2, <1>3, <2>1 DEF OwnAt, RequestAt, PlaceAt, Removing, Placed
<1>5. CASE /\ IF Vip(d) \in aliases[PeerOf(d)] THEN Fault ELSE NoFault
           /\ UNCHANGED target
  <2>1. Vip(d) \in aliases[PeerOf(d)] => left'.faults < Faults
    BY <1>1, <1>5, FaultSpent
  <2>2. Vip(d) \notin aliases[PeerOf(d)] => Placed(Vip(d)) = Placed(Vip(d)) \ {PeerOf(d)}
    BY DEF Placed
  <2>3. d \notin disturbed => PeerDone(d)'
    BY <1>2, <1>3, <2>1, <2>2 DEF PeerDone, Placed
  <2> QED
    BY <1>2, <1>5, <2>3 DEF OwnAt, RequestAt, PlaceAt, Removing
<1> QED
  BY <1>4, <1>5 DEF CheckPeer

\* From the peer's NIC the call goes on to the own one, from there it returns.
LEMMA ProceedOwn ==
  ASSUME TypeOK, NEW d \in Daemon, RequestAt(d), pc[d] \notin Returned,
         Proceed(d), UNCHANGED <<aliases, method, before, disturbed>>,
         d \notin disturbed /\ Removing(d) => Placed(Vip(d)) = before[d] \ {target[d]}
  PROVE  OwnAt(d)'
<1>1. CASE target[d] # Own(d)
  <2>1. pc'[d] = "get" /\ target'[d] = Own(d) /\ target[d] = PeerOf(d)
    BY <1>1, PcAfter, TwoNics DEF Proceed, TypeOK
  <2>2. method[d] = "acquire"
    BY <1>1 DEF RequestAt, TypeOK, Returned
  <2>3. d \notin disturbed => PeerDone(d)'
    BY <1>1, <2>1 DEF PeerDone, Removing, Placed
  <2> QED
    BY <2>1, <2>2, <2>3 DEF OwnAt, RequestAt, PlaceAt, Removing
<1>2. CASE target[d] = Own(d)
  <2>1. pc'[d] = "ok" /\ target' = target
    BY <1>2, PcAfter DEF Proceed
  <2>2. method[d] # "none"
    BY DEF RequestAt, Returned
  <2> QED
    BY <1>2, <2>1, <2>2 DEF OwnAt, RequestAt, Returned
<1> QED
  BY <1>1, <1>2

LEMMA RaiseOwn ==
  ASSUME TypeOK, NEW d \in Daemon, RequestAt(d), pc[d] \notin Returned,
         Goto(d, "failed"), UNCHANGED <<method, target>>
  PROVE  OwnAt(d)'
BY PcAfter DEF OwnAt, RequestAt, Returned

LEMMA GetNicOwn ==
  ASSUME CallInv, NEW d \in Daemon, GetNic(d)
  PROVE  OwnAt(d)'
<1>1. TypeOK /\ RequestAt(d)
  BY DEF CallInv, FingerprintInv
<1>2. /\ pc[d] = "get" /\ pc[d] \notin Returned
      /\ UNCHANGED <<aliases, method, before, disturbed>>
  BY DEF GetNic, nicVars, histVars, Returned
<1>3. /\ method[d] \in {"acquire", "release"}
      /\ d \notin disturbed => PlaceAt(d)
  BY <1>1, <1>2 DEF RequestAt, TypeOK, CallInv
<1>4. CASE /\ Removing(d) <=> Vip(d) \notin aliases[target[d]]
           /\ Proceed(d)
  <2>1. d \notin disturbed /\ Removing(d) => Placed(Vip(d)) = before[d] \ {target[d]}
    BY <1>2, <1>3, <1>4 DEF PlaceAt, Placed
  <2> QED
    BY <1>1, <1>2, <1>4, <2>1, ProceedOwn
<1>5. CASE /\ newRanges' = [newRanges EXCEPT ![d] = IF Removing(d) THEN aliases[target[d]] \ {Vip(d)}
                                                    ELSE aliases[target[d]] \cup {Vip(d)}]
           /\ Goto(d, "patch") /\ NoFault /\ UNCHANGED target
  <2>1. pc'[d] = "patch" /\ (Removing(d)' <=> Removing(d))
    BY <1>1, <1>2, <1>5, PcAfter DEF Removing
  <2>2. Vip(d) \in newRanges'[d] <=> ~Removing(d)
    BY <1>1, <1>5 DEF TypeOK
  <2>3. RequestAt(d)'
    BY <1>1, <1>2, <1>3, <1>5, <2>1, <2>2 DEF RequestAt
  <2>4. d \notin disturbed => PlaceAt(d)'
    BY <1>1, <1>2, <1>3, <1>5, <2>1, FaultSpent DEF PlaceAt, PeerDone, Placed
  <2> QED
    BY <1>2, <2>3, <2>4 DEF OwnAt
<1>6. CASE Raise(d) /\ UNCHANGED target
  BY <1>1, <1>2, <1>6, RaiseOwn DEF Raise
<1> QED
  BY <1>4, <1>5, <1>6 DEF GetNic

LEMMA PatchAcceptedOwn ==
  ASSUME CallInv, NEW d \in Daemon, PatchAccepted(d)
  PROVE  OwnAt(d)'
<1>1. TypeOK /\ RequestAt(d)
  BY DEF CallInv, FingerprintInv
<1>2. /\ pc[d] = "patch" /\ pc[d] \notin Returned
      /\ UNCHANGED <<aliases, method, target, newRanges, attempt, before, disturbed>>
  BY DEF PatchAccepted, callVars, histVars, Returned
<1>3. operation'[target[d]] = {Sent(d)}
  BY <1>1 DEF PatchAccepted, Sent, TypeOK
<1>4. CASE Goto(d, "wait") /\ NoFault
  <2>1. pc'[d] = "wait"
    BY <1>1, <1>4, PcAfter
  <2>2. RequestAt(d)'
    BY <1>1, <1>2, <1>3, <2>1 DEF RequestAt, Removing, Sent
  <2>3. d \notin disturbed => PlaceAt(d)
    BY <1>2 DEF CallInv
  <2>4. d \notin disturbed => PlaceAt(d)'
    BY <1>1, <1>2, <1>4, <2>1, <2>3, FaultSpent DEF PlaceAt, PeerDone, Placed, Removing
  <2> QED
    BY <1>2, <2>2, <2>4 DEF OwnAt
<1>5. CASE Raise(d)
  BY <1>1, <1>2, <1>5, RaiseOwn DEF Raise
<1> QED
  BY <1>4, <1>5 DEF PatchAccepted

\* A refused PATCH is sent again, or the call gives up.
LEMMA RetryOwn ==
  ASSUME CallInv, NEW d \in Daemon, pc[d] \in {"patch", "refetch"},
         NEW label \in {"patch", "refetch", "failed"}, Goto(d, label),
         UNCHANGED <<aliases, method, target, newRanges, before, disturbed>>,
         Fault \/ NoFault
  PROVE  OwnAt(d)'
<1>1. TypeOK /\ RequestAt(d)
  BY DEF CallInv, FingerprintInv
<1>2. pc[d] \notin Returned /\ pc'[d] = label
  BY <1>1, PcAfter DEF Returned
<1>3. CASE label = "failed"
  BY <1>1, <1>2, <1>3, RaiseOwn
<1>4. CASE label # "failed"
  <2>1. RequestAt(d)'
    BY <1>1, <1>2, <1>4 DEF RequestAt, Removing
  <2>2. d \notin disturbed => PlaceAt(d)
    BY <1>2 DEF CallInv
  <2>3. left.faults < Faults => left'.faults < Faults
    BY <1>1, FaultSpent
  <2>4. d \notin disturbed => PlaceAt(d)'
    BY <1>2, <1>4, <2>2, <2>3 DEF PlaceAt, PeerDone, Placed, Removing
  <2> QED
    BY <2>1, <2>4 DEF OwnAt
<1> QED
  BY <1>3, <1>4

LEMMA PatchRefusedOwn ==
  ASSUME CallInv, NEW d \in Daemon, PatchRefused(d)
  PROVE  OwnAt(d)'
BY RetryOwn DEF PatchRefused, nicVars, callVars, histVars

LEMMA RefetchOwn ==
  ASSUME CallInv, NEW d \in Daemon, Refetch(d)
  PROVE  OwnAt(d)'
BY RetryOwn DEF Refetch, Raise, nicVars, histVars

LEMMA FailsOwn ==
  ASSUME CallInv, NEW d \in Daemon, PatchFails(d) \/ WaitFails(d)
  PROVE  OwnAt(d)'
<1>1. TypeOK /\ RequestAt(d) /\ pc[d] \notin Returned
  BY DEF CallInv, FingerprintInv, PatchFails, WaitFails, Returned
<1> QED
  BY <1>1, RaiseOwn DEF PatchFails, WaitFails, Raise, callVars

LEMMA VerifyOwn ==
  ASSUME CallInv, NEW d \in Daemon, Verify(d)
  PROVE  OwnAt(d)'
<1>1. TypeOK /\ RequestAt(d)
  BY DEF CallInv, FingerprintInv
<1>2. /\ pc[d] = "verify" /\ pc[d] \notin Returned
      /\ UNCHANGED <<aliases, method, before, disturbed>>
  BY DEF Verify, nicVars, histVars, Returned
<1>3. d \notin disturbed /\ Removing(d) => Placed(Vip(d)) = before[d] \ {target[d]}
  BY <1>2 DEF CallInv, PlaceAt
<1>4. CASE Proceed(d)
  BY <1>1, <1>2, <1>3, <1>4, ProceedOwn
<1>5. CASE Raise(d) /\ UNCHANGED target
  BY <1>1, <1>2, <1>5, RaiseOwn DEF Raise
<1> QED
  BY <1>4, <1>5 DEF Verify

\* The operation that completes is the caller's own, and does what the call is
\* about; or it is another's, and leaves the VIP where it is.
LEMMA CompleteOwn ==
  ASSUME CallInv, NEW n \in Node, Complete(n), NEW d \in Daemon
  PROVE  OwnAt(d)'
<1>1. TypeOK /\ RequestAt(d)
  BY DEF CallInv, FingerprintInv
<1>2. PICK r \in operation[n] :
        /\ aliases' = [aliases EXCEPT ![n] = r.ranges]
        /\ operation' = [operation EXCEPT ![n] = {}]
        /\ pc' = [pc EXCEPT ![r.by] = IF Waiting(r.by, n) THEN "verify" ELSE @]
        /\ disturbed' = disturbed \cup
             {e \in Daemon : /\ (Vip(e) \in aliases[n]) # (Vip(e) \in r.ranges)
                             /\ ~(e = r.by /\ Waiting(e, n))}
  BY DEF Complete
<1>3. UNCHANGED <<method, target, newRanges, attempt, before, left>>
  BY DEF Complete, callVars
<1>4. aliases'[n] = r.ranges /\ \A m \in Node \ {n} : aliases'[m] = aliases[m]
  BY <1>1, <1>2 DEF TypeOK
<1>5. Waiting(d, n) => r = Sent(d)
  BY <1>1, <1>2 DEF Waiting, RequestAt
<1>6. CASE d = r.by /\ Waiting(d, n)
  <2>1. /\ pc'[d] = "verify" /\ pc[d] = "wait" /\ target[d] = n /\ r.ranges = newRanges[d]
    BY <1>1, <1>2, <1>5, <1>6 DEF TypeOK, Waiting, Sent
  <2>2. RequestAt(d)'
    BY <1>1, <1>3, <2>1 DEF RequestAt
  <2>3. d \notin disturbed' => d \notin disturbed
    BY <1>2
  <2>4. d \notin disturbed => PlaceAt(d)
    BY <2>1 DEF CallInv, Returned
  <2>5. Vip(d) \in r.ranges <=> ~Removing(d)
    BY <1>1, <2>1 DEF RequestAt
  <2>6. CASE Removing(d)
    <3>1. Placed(Vip(d))' = Placed(Vip(d)) \ {n}
      BY <1>4, <2>5, <2>6 DEF Placed
    <3>2. d \notin disturbed => Placed(Vip(d))' = before[d] \ {n}
      BY <2>1, <2>4, <2>6, <3>1 DEF PlaceAt
    <3> QED
      BY <1>3, <2>1, <2>2, <2>3, <2>6, <3>2 DEF OwnAt, PlaceAt, Removing
  <2>7. CASE ~Removing(d)
    <3>1. n = Own(d) /\ Placed(Vip(d))' = Placed(Vip(d)) \cup {n}
      BY <1>4, <2>1, <2>5, <2>7 DEF Placed, Removing
    <3>2. d \notin disturbed => PeerDone(d)
      BY <2>1, <2>4, <2>7 DEF PlaceAt
    <3>3. before[d] \subseteq {Own(d), PeerOf(d)} /\ Own(d) # PeerOf(d)
      BY <1>1, TwoNics DEF TypeOK
    <3>4. d \notin disturbed => Taken(d)'
      BY <1>3, <3>1, <3>2, <3>3 DEF PeerDone, Taken
    <3> QED
      BY <1>3, <2>1, <2>2, <2>3, <2>7, <3>4 DEF OwnAt, PlaceAt, Removing
  <2> QED
    BY <2>6, <2>7
<1>7. CASE ~(d = r.by /\ Waiting(d, n))
  <2>1. pc'[d] = pc[d]
    BY <1>1, <1>2, <1>7 DEF TypeOK
  <2>2. ~Waiting(d, n)
    BY <1>5, <1>7 DEF Sent
  <2>3. pc[d] = "wait" => operation'[target[d]] = operation[target[d]]
    BY <1>1, <1>2, <2>2 DEF Waiting, TypeOK
  <2>4. RequestAt(d)'
    BY <1>1, <1>3, <2>1, <2>3 DEF RequestAt, Removing, Sent
  <2>5. d \notin disturbed' => d \notin disturbed /\ (Vip(d) \in aliases[n] <=> Vip(d) \in r.ranges)
    BY <1>2, <1>7
  <2>6. d \notin disturbed' => Placed(Vip(d))' = Placed(Vip(d))
    BY <1>4, <2>5 DEF Placed
  <2>7. pc[d] \notin Returned /\ d \notin disturbed' => PlaceAt(d)
    BY <2>5 DEF CallInv
  <2>8. pc[d] \notin Returned /\ d \notin disturbed' => PlaceAt(d)'
    BY <1>3, <2>1, <2>6, <2>7 DEF PlaceAt, PeerDone, Taken, Removing
  <2> QED
    BY <2>1, <2>4, <2>8 DEF OwnAt
<1> QED
  BY <1>6, <1>7

LEMMA CompleteWithErrorOwn ==
  ASSUME CallInv, NEW n \in Node, CompleteWithError(n), NEW d \in Daemon
  PROVE  OwnAt(d)'
<1>1. TypeOK /\ RequestAt(d)
  BY DEF CallInv, FingerprintInv
<1>2. PICK r \in operation[n] :
        /\ operation' = [operation EXCEPT ![n] = {}]
        /\ pc' = [pc EXCEPT ![r.by] = IF Waiting(r.by, n) THEN "failed" ELSE @]
  BY DEF CompleteWithError
<1>3. /\ UNCHANGED <<aliases, method, target, newRanges, attempt, before, disturbed>>
      /\ left.faults < Faults => left'.faults < Faults
  BY <1>1, FaultSpent DEF CompleteWithError, callVars, histVars
<1>4. Waiting(d, n) => r = Sent(d)
  BY <1>1, <1>2 DEF Waiting, RequestAt
<1>5. CASE d = r.by /\ Waiting(d, n)
  <2>1. pc'[d] = "failed" /\ method[d] # "none"
    BY <1>1, <1>2, <1>5 DEF TypeOK, Waiting, RequestAt
  <2> QED
    BY <1>1, <1>3, <2>1 DEF OwnAt, RequestAt, Returned
<1>6. CASE ~(d = r.by /\ Waiting(d, n))
  <2>1. pc'[d] = pc[d]
    BY <1>1, <1>2, <1>6 DEF TypeOK
  <2>2. pc[d] = "wait" => operation'[target[d]] = operation[target[d]]
    BY <1>1, <1>2, <1>4, <1>6 DEF Waiting, TypeOK, Sent
  <2>3. RequestAt(d)'
    BY <1>1, <1>3, <2>1, <2>2 DEF RequestAt, Removing, Sent
  <2>4. pc[d] \notin Returned /\ d \notin disturbed => PlaceAt(d)
    BY DEF CallInv
  <2>5. pc[d] \notin Returned /\ d \notin disturbed => PlaceAt(d)'
    BY <1>3, <2>1, <2>4 DEF PlaceAt, PeerDone, Taken, Placed, Removing
  <2> QED
    BY <1>3, <2>1, <2>3, <2>5 DEF OwnAt
<1> QED
  BY <1>5, <1>6

LEMMA CallStep ==
  ASSUME CallInv, [Next]_vars
  PROVE  CallInv'
<1>1. FingerprintInv'
  BY FingerprintStep DEF CallInv
<1>2. ASSUME NEW d \in Daemon, DaemonStep(d), NEW e \in Daemon
      PROVE  OwnAt(e)'
  <2>1. CASE e = d
    BY <1>2, <2>1, CallOwn, CheckPeerOwn, GetNicOwn, PatchAcceptedOwn, PatchRefusedOwn, RefetchOwn,
       FailsOwn, VerifyOwn DEF DaemonStep
  <2>2. CASE e # d
    BY <1>2, <2>2, OthersKeep DEF OwnAt
  <2> QED
    BY <2>1, <2>2
<1>3. ASSUME UNCHANGED vars, NEW e \in Daemon
      PROVE  OwnAt(e)'
  BY <1>3 DEF CallInv, OwnAt, RequestAt, PlaceAt, PeerDone, Taken, Placed, Removing, Sent,
              vars, nicVars, callVars, histVars
<1>4. \A e \in Daemon : OwnAt(e)'
  BY <1>2, <1>3, CompleteOwn, CompleteWithErrorOwn DEF Next
<1> QED
  BY <1>1, <1>4 DEF CallInv, OwnAt

LEMMA CallAlways == Spec => []CallInv
BY CallInit, CallStep, PTL DEF Spec

\* The VIP where a call that did not fail leaves it.
LEMMA ReturnsDone ==
  ASSUME CallInv, [Next]_vars, NEW d \in Daemon, d \notin disturbed,
         pc[d] \notin Returned, pc'[d] = "ok"
  PROVE  IF method[d] = "acquire" THEN Taken(d) ELSE Placed(Vip(d)) = before[d] \ {Own(d)}
<1>1. TypeOK /\ RequestAt(d) /\ PlaceAt(d)
  BY DEF CallInv, FingerprintInv
<1>2. ASSUME NEW e \in Daemon, DaemonStep(e), e # d
      PROVE  FALSE
  BY <1>1, <1>2, DaemonFrame DEF Returned
<1>3. CASE \E n \in Node : Complete(n) \/ CompleteWithError(n)
  <2>1. PICK r \in Daemon : \E label \in {"verify", "failed"}, woken \in BOOLEAN :
          pc' = [pc EXCEPT ![r] = IF woken THEN label ELSE @]
    BY <1>1, <1>3 DEF Complete, CompleteWithError, Waiting, TypeOK, Request
  <2> QED
    BY <1>1, <2>1, WakeTyping DEF Returned
<1>4. CASE DaemonStep(d)
  <2>1. (GetNic(d) \/ Verify(d)) /\ target[d] = Own(d) /\ Proceed(d)
    BY <1>1, <1>4, PcAfter DEF DaemonStep, Call, CheckPeer, GetNic, PatchAccepted, PatchRefused,
       PatchFails, Refetch, WaitFails, Verify, Proceed, Raise
  <2>2. method[d] = "acquire" \/ method[d] = "release"
    BY <1>1 DEF RequestAt, TypeOK, Returned
  <2>3. Removing(d) <=> method[d] = "release"
    BY <2>1, <2>2 DEF Removing
  <2>4. CASE Verify(d)
    <3>1. pc[d] = "verify"
      BY <2>4 DEF Verify
    <3> QED
      BY <1>1, <2>1, <2>2, <2>3, <3>1 DEF PlaceAt
  <2>5. CASE GetNic(d)
    <3>1. pc[d] = "get" /\ (Removing(d) <=> Vip(d) \notin aliases[Own(d)])
      BY <1>1, <2>1, <2>5, PcAfter DEF GetNic, Raise
    <3>2. Own(d) \in Placed(Vip(d)) <=> ~Removing(d)
      BY <3>1, DaemonParts DEF Placed
    <3>3. Removing(d) => Placed(Vip(d)) = before[d]
      BY <1>1, <3>1 DEF PlaceAt
    <3>4. ~Removing(d) => PeerDone(d)
      BY <1>1, <3>1 DEF PlaceAt
    <3>5. before[d] \subseteq {Own(d), PeerOf(d)} /\ Own(d) # PeerOf(d)
      BY <1>1, TwoNics DEF TypeOK
    <3> QED
      BY <2>2, <2>3, <3>2, <3>3, <3>4, <3>5 DEF PeerDone, Taken
  <2> QED
    BY <2>1, <2>4, <2>5
<1>5. CASE UNCHANGED vars
  BY <1>5 DEF vars, Returned
<1> QED
  BY <1>2, <1>3, <1>4, <1>5 DEF Next

\* Where a call leaves the VIP, whether it failed or not.
LEMMA ReturnsSomewhere ==
  ASSUME CallInv, NEW d \in Daemon, d \notin disturbed, pc[d] \notin Returned
  PROVE  IF method[d] = "acquire"
         THEN Placed(Vip(d)) \in {before[d], before[d] \ {PeerOf(d)}} \/ Taken(d)
         ELSE Placed(Vip(d)) \in {before[d], before[d] \ {Own(d)}}
<1>1. TypeOK /\ RequestAt(d) /\ PlaceAt(d)
  BY DEF CallInv, FingerprintInv
<1>2. pc[d] \in {"check", "get", "patch", "refetch", "wait", "verify"}
  BY <1>1 DEF TypeOK
<1>3. target[d] = Own(d) \/ target[d] = PeerOf(d)
  BY <1>1, TwoNics DEF TypeOK
<1>4. method[d] # "acquire" => method[d] = "release" /\ target[d] = Own(d) /\ pc[d] # "check"
  BY <1>1, <1>2 DEF RequestAt, TypeOK
<1>5. CASE pc[d] # "verify"
  <2>1. Placed(Vip(d)) = before[d] \/ (~Removing(d) /\ PeerDone(d))
    BY <1>1, <1>2, <1>5 DEF PlaceAt
  <2> QED
    BY <1>4, <2>1 DEF PeerDone, Removing
<1>6. CASE pc[d] = "verify"
  <2>1. IF Removing(d) THEN Placed(Vip(d)) = before[d] \ {target[d]} ELSE Taken(d)
    BY <1>1, <1>6 DEF PlaceAt
  <2> QED
    BY <1>3, <1>4, <2>1 DEF Removing
<1> QED
  BY <1>5, <1>6

\* A call nobody disturbs has the outcomes CloudOps gives it in one step.
THEOREM VipCallsAreOneStep == Spec => CallIsOneStep
<1> DEFINE OneStep ==
      \A d \in Daemon :
       LET was == before[d]
           is  == Placed(Vip(d))
           outcomes ==
             IF method[d] = "acquire"
             THEN {{Own(d)}} \cup (IF left.faults < Faults THEN {was \cup {Own(d)}} ELSE {})
                             \cup (IF pc'[d] = "ok" THEN {} ELSE {was, was \ {PeerOf(d)}})
             ELSE {was \ {Own(d)}} \cup (IF pc'[d] = "ok" THEN {} ELSE {was})
       IN pc[d] \notin Returned /\ pc'[d] \in Returned /\ d \notin disturbed => is \in outcomes
<1>1. ASSUME CallInv, [Next]_vars
      PROVE  OneStep
  <2> SUFFICES ASSUME NEW d \in Daemon,
                      pc[d] \notin Returned, pc'[d] \in Returned, d \notin disturbed
               PROVE  Placed(Vip(d)) \in
                        (IF method[d] = "acquire"
                         THEN {{Own(d)}}
                                \cup (IF left.faults < Faults THEN {before[d] \cup {Own(d)}} ELSE {})
                                \cup (IF pc'[d] = "ok" THEN {} ELSE {before[d], before[d] \ {PeerOf(d)}})
                         ELSE {before[d] \ {Own(d)}} \cup (IF pc'[d] = "ok" THEN {} ELSE {before[d]}))
    OBVIOUS
  <2>1. CASE pc'[d] = "ok"
    <3>1. IF method[d] = "acquire" THEN Taken(d) ELSE Placed(Vip(d)) = before[d] \ {Own(d)}
      BY <1>1, <2>1, ReturnsDone
    <3> QED
      BY <2>1, <3>1 DEF Taken
  <2>2. CASE pc'[d] # "ok"
    <3>1. IF method[d] = "acquire"
          THEN Placed(Vip(d)) \in {before[d], before[d] \ {PeerOf(d)}} \/ Taken(d)
          ELSE Placed(Vip(d)) \in {before[d], before[d] \ {Own(d)}}
      BY <1>1, ReturnsSomewhere
    <3> QED
      BY <2>2, <3>1 DEF Taken
  <2> QED
    BY <2>1, <2>2
<1>2. CallInv /\ [Next]_vars => [OneStep]_vars
  BY <1>1
<1> QED
  BY <1>2, CallAlways, PTL DEF Spec, CallIsOneStep

---------------------------------------------------------------------------
\* Without failures every operation has a caller that waits for it, so whoever
\* takes the VIP off a NIC will still add it to the own one.

Alone(c) == \A d \in Daemon : Vip(d) # c => method[d] = "none"

Owes(d) ==
  /\ method[d] # "none"
  /\ \/ method[d] = "release"
     \/ pc[d] \notin {"ok", "verify"}
     \/ pc[d] = "verify" /\ target[d] # Own(d)

NobodyLeaves == \A n \in Node : \A r \in operation[n] : Waiting(r.by, n)

SomebodyWillAdd ==
  \A c \in Cluster : \A d \in Daemon :
    Alone(c) /\ Vip(d) = c /\ method[d] # "none" =>
      Placed(c) # {} \/ \E e \in Daemon : Vip(e) = c /\ Owes(e)

VipInv == CallInv /\ (left.faults = Faults => NobodyLeaves /\ SomebodyWillAdd)

LEMMA VipInit == Init => VipInv
BY CallInit DEF Init, VipInv, NobodyLeaves, SomebodyWillAdd

LEMMA FullBudget ==
  ASSUME TypeOK, left'.faults = Faults, Fault \/ NoFault
  PROVE  left.faults = Faults /\ ~Fault
BY NicAssumption DEF TypeOK, Fault, NoFault

\* The daemon that takes a step still owes the VIP, or has found it on its NIC.
LEMMA StillOwes ==
  ASSUME CallInv, NEW d \in Daemon, DaemonStep(d), left'.faults = Faults
  PROVE  /\ left.faults = Faults
         /\ pc[d] # "wait" /\ (PatchAccepted(d) => pc'[d] = "wait")
         /\ method'[d] # "none" /\ method[d] = "none" => Owes(d)'
         /\ Owes(d) => Owes(d)' \/ Own(d) \in Placed(Vip(d))
         /\ method'[d] = "none" => method[d] = "none"
<1>1. TypeOK /\ RequestAt(d)
  BY DEF CallInv, FingerprintInv
<1>2. left.faults = Faults
  <2>1. left.faults \in 0..Faults /\ left'.faults <= left.faults
    BY <1>1, DaemonFrame DEF TypeOK
  <2> QED
    BY <2>1, NicAssumption
<1>3. ~Fault
  BY <1>1, <1>2, NicAssumption DEF Fault, TypeOK
<1>4. CASE Call(d)
  <2>1. PICK m \in {"acquire", "release"} :
        /\ method' = [method EXCEPT ![d] = m]
        /\ Goto(d, IF m = "acquire" THEN "check" ELSE "get")
    BY <1>4 DEF Call
  <2>2. method'[d] = m /\ pc'[d] = (IF m = "acquire" THEN "check" ELSE "get")
    BY <1>1, <2>1, PcAfter DEF TypeOK
  <2>3. pc[d] # "wait" /\ pc[d] # "patch"
    BY <1>4 DEF Call, Returned
  <2> QED
    BY <1>2, <2>2, <2>3 DEF Owes, PatchAccepted
<1>5. CASE CheckPeer(d)
  <2>1. pc[d] = "check" /\ pc'[d] = "get" /\ method' = method
    BY <1>1, <1>5, PcAfter DEF CheckPeer
  <2> QED
    BY <1>1, <1>2, <2>1 DEF Owes, PatchAccepted, RequestAt
<1>6. CASE Proceed(d) /\ UNCHANGED method /\ pc[d] \in {"get", "verify"}
           /\ (Removing(d) \/ Own(d) \in Placed(Vip(d)) \/ pc[d] = "verify")
  <2>1. target[d] # Own(d) => pc'[d] = "get"
    BY <1>1, <1>6, PcAfter DEF Proceed
  <2>2. method[d] # "none"
    BY <1>1, <1>6 DEF RequestAt
  <2>3. target[d] = Own(d) => target'[d] = Own(d) /\ pc'[d] = "ok"
    BY <1>1, <1>6, PcAfter DEF Proceed
  <2> QED
    BY <1>2, <1>6, <2>1, <2>2, <2>3 DEF Owes, PatchAccepted, Removing
<1>7. CASE GetNic(d)
  <2>1. pc[d] = "get" /\ UNCHANGED method
    BY <1>7 DEF GetNic
  <2>2. CASE Proceed(d) /\ (Removing(d) <=> Vip(d) \notin aliases[target[d]])
    <3>1. ~Removing(d) => Own(d) \in Placed(Vip(d))
      BY <2>2, DaemonParts DEF Removing, Placed
    <3> QED
      BY <1>6, <2>1, <2>2, <3>1
  <2>3. CASE Goto(d, "patch")
    BY <1>1, <1>2, <2>1, <2>3, PcAfter DEF Owes, PatchAccepted, RequestAt
  <2> QED
    BY <1>3, <1>7, <2>2, <2>3 DEF GetNic, Raise
<1>8. CASE PatchAccepted(d)
  <2>1. pc[d] = "patch" /\ pc'[d] = "wait" /\ method' = method
    BY <1>1, <1>3, <1>8, PcAfter DEF PatchAccepted, Raise, callVars
  <2> QED
    BY <1>1, <1>2, <2>1 DEF Owes, RequestAt
<1>9. CASE PatchRefused(d)
  <2>1. pc[d] = "patch" /\ pc'[d] \in {"refetch", "failed"} /\ method' = method
    BY <1>1, <1>9, PcAfter DEF PatchRefused, callVars
  <2>2. ~PatchAccepted(d)
    BY <1>3, <1>9 DEF PatchRefused, PatchAccepted
  <2> QED
    BY <1>1, <1>2, <2>1, <2>2 DEF Owes, RequestAt
<1>10. CASE Refetch(d)
  <2>1. pc[d] = "refetch" /\ pc'[d] = "patch" /\ method' = method
    BY <1>1, <1>3, <1>10, PcAfter DEF Refetch, Raise
  <2> QED
    BY <1>1, <1>2, <2>1 DEF Owes, PatchAccepted, RequestAt
<1>11. CASE Verify(d)
  BY <1>3, <1>6, <1>11 DEF Verify, Raise
<1>12. ~PatchFails(d) /\ ~WaitFails(d)
  BY <1>3 DEF PatchFails, WaitFails, Raise
<1> QED
  BY <1>4, <1>5, <1>7, <1>8, <1>9, <1>10, <1>11, <1>12 DEF DaemonStep

LEMMA DaemonKeepsVip ==
  ASSUME VipInv, NEW d \in Daemon, DaemonStep(d), left'.faults = Faults
  PROVE  (NobodyLeaves /\ SomebodyWillAdd)'
<1>1. TypeOK /\ CallInv
  BY DEF VipInv, CallInv, FingerprintInv
<1>2. /\ left.faults = Faults
      /\ pc[d] # "wait" /\ (PatchAccepted(d) => pc'[d] = "wait")
      /\ method'[d] # "none" /\ method[d] = "none" => Owes(d)'
      /\ Owes(d) => Owes(d)' \/ Own(d) \in Placed(Vip(d))
      /\ method'[d] = "none" => method[d] = "none"
  BY <1>1, StillOwes
<1>3. NobodyLeaves /\ SomebodyWillAdd
  BY <1>2 DEF VipInv
<1>4. /\ aliases' = aliases
      /\ \A e \in Daemon \ {d} : pc'[e] = pc[e] /\ method'[e] = method[e] /\ target'[e] = target[e]
  BY <1>1, DaemonFrame
<1>5. NobodyLeaves'
  <2> SUFFICES ASSUME NEW n \in Node, NEW r \in operation'[n]
               PROVE  Waiting(r.by, n)'
    BY DEF NobodyLeaves
  <2>1. CASE r \in operation[n]
    <3>1. Waiting(r.by, n) /\ r.by \in Daemon
      BY <1>1, <1>3, <2>1 DEF NobodyLeaves, TypeOK, Request
    <3>2. r.by # d
      BY <1>2, <3>1 DEF Waiting
    <3> QED
      BY <1>4, <3>1, <3>2 DEF Waiting
  <2>2. CASE r \notin operation[n]
    <3>1. PatchAccepted(d)
      BY <2>2 DEF DaemonStep, Call, CheckPeer, GetNic, PatchRefused, PatchFails, Refetch, WaitFails,
                  Verify, nicVars
    <3>2. r.by = d /\ n = target[d] /\ target' = target
      BY <1>1, <2>2, <3>1 DEF PatchAccepted, callVars, TypeOK
    <3> QED
      BY <1>2, <3>1, <3>2 DEF Waiting
  <2> QED
    BY <2>1, <2>2
<1>6. SomebodyWillAdd'
  <2> SUFFICES ASSUME NEW c \in Cluster, NEW a \in Daemon, Alone(c)', Vip(a) = c,
                      method'[a] # "none", Placed(c)' = {}
               PROVE  \E e \in Daemon : Vip(e) = c /\ Owes(e)'
    BY DEF SomebodyWillAdd
  <2>1. Alone(c) /\ Placed(c) = {}
    BY <1>2, <1>4 DEF Alone, Placed
  <2>2. CASE method[a] # "none"
    <3>1. PICK e \in Daemon : Vip(e) = c /\ Owes(e)
      BY <1>3, <2>1, <2>2 DEF SomebodyWillAdd
    <3>2. CASE e = d
      BY <1>2, <2>1, <3>1, <3>2
    <3>3. CASE e # d
      BY <1>4, <3>1, <3>3 DEF Owes
    <3> QED
      BY <3>2, <3>3
  <2>3. CASE method[a] = "none"
    BY <1>2, <1>4, <2>3
  <2> QED
    BY <2>2, <2>3
<1> QED
  BY <1>5, <1>6

\* An operation that takes the VIP off the NIC wakes its caller, who goes on.
LEMMA GcpKeepsVip ==
  ASSUME VipInv, NEW n \in Node, Complete(n) \/ CompleteWithError(n), left'.faults = Faults
  PROVE  (NobodyLeaves /\ SomebodyWillAdd)'
<1>1. TypeOK /\ CallInv
  BY DEF VipInv, CallInv, FingerprintInv
<1>2. left.faults = Faults
  BY <1>1, FullBudget DEF Complete, CompleteWithError, NoFault
<1>3. NobodyLeaves /\ SomebodyWillAdd
  BY <1>2 DEF VipInv
<1>4. PICK r \in operation[n] :
        /\ aliases' = [aliases EXCEPT ![n] = r.ranges] \/ aliases' = aliases
        /\ operation' = [operation EXCEPT ![n] = {}]
        /\ \E label \in {"verify", "failed"} :
             /\ pc' = [pc EXCEPT ![r.by] = IF Waiting(r.by, n) THEN label ELSE @]
             /\ label = "verify" => aliases' = [aliases EXCEPT ![n] = r.ranges]
             /\ label = "failed" => aliases' = aliases
  BY DEF Complete, CompleteWithError
<1>5. method' = method /\ target' = target
  BY DEF Complete, CompleteWithError, callVars
<1>6. r.by \in Daemon /\ pc[r.by] = "wait" /\ target[r.by] = n
  BY <1>1, <1>3 DEF NobodyLeaves, Waiting, TypeOK, Request
<1>7. RequestAt(r.by) /\ r.ranges = newRanges[r.by]
  BY <1>1, <1>6 DEF CallInv, RequestAt, Sent
<1>8. /\ pc'[r.by] \in {"verify", "failed"} /\ \A e \in Daemon \ {r.by} : pc'[e] = pc[e]
      /\ pc'[r.by] = "verify" => aliases' = [aliases EXCEPT ![n] = r.ranges]
  BY <1>1, <1>4, <1>6 DEF Waiting, TypeOK
<1>9. NobodyLeaves'
  <2> SUFFICES ASSUME NEW m \in Node, NEW q \in operation'[m]
               PROVE  Waiting(q.by, m)'
    BY DEF NobodyLeaves
  <2>1. m # n /\ q \in operation[m]
    BY <1>1, <1>4 DEF TypeOK
  <2>2. Waiting(q.by, m) /\ q.by \in Daemon
    BY <1>1, <1>3, <2>1 DEF NobodyLeaves, TypeOK, Request
  <2>3. q.by # r.by
    BY <1>6, <2>1, <2>2 DEF Waiting
  <2> QED
    BY <1>5, <1>8, <2>2, <2>3 DEF Waiting
<1>10. method[r.by] # "none"
  BY <1>6, <1>7 DEF RequestAt
<1>11. SomebodyWillAdd'
  <2> SUFFICES ASSUME NEW c \in Cluster, Alone(c)', Placed(c)' = {}
               PROVE  \E e \in Daemon : Vip(e) = c /\ Owes(e)'
    BY DEF SomebodyWillAdd
  <2>1. Vip(r.by) = c
    BY <1>5, <1>6, <1>10 DEF Alone
  <2>2. CASE pc'[r.by] = "failed"
    BY <1>5, <1>6, <1>10, <2>1, <2>2 DEF Owes
  <2>3. CASE pc'[r.by] = "verify"
    <3>1. c \notin r.ranges
      BY <1>1, <1>8, <2>3 DEF Placed, TypeOK
    <3>2. Removing(r.by)
      BY <1>6, <1>7, <2>1, <3>1 DEF RequestAt
    <3> QED
      BY <1>5, <1>6, <1>10, <2>1, <2>3, <3>2 DEF Owes, Removing
  <2> QED
    BY <1>8, <2>2, <2>3
<1> QED
  BY <1>9, <1>11

LEMMA VipStep ==
  ASSUME VipInv, [Next]_vars
  PROVE  VipInv'
<1>1. CallInv'
  BY CallStep DEF VipInv
<1>2. CASE UNCHANGED vars
  BY <1>1, <1>2 DEF VipInv, NobodyLeaves, SomebodyWillAdd, Waiting, Alone, Owes, Placed,
                    vars, nicVars, callVars, histVars
<1>3. CASE Next
  BY <1>1, <1>3, DaemonKeepsVip, GcpKeepsVip DEF Next, VipInv
<1> QED
  BY <1>2, <1>3

\* Two nodes that take the VIP from each other do not end with none of them
\* having it, however their requests interleave and however often they call.
THEOREM VipStaysSomewhere == Spec => []VipNotLost
<1>1. VipInv => VipNotLost
  BY DEF VipInv, VipNotLost, SomebodyWillAdd, Alone, Owes
<1> QED
  BY <1>1, VipInit, VipStep, PTL DEF Spec
=============================================================================
