--------------------------- MODULE HeartbeatProofs ---------------------------
(***************************************************************************)
(* What is_peer_alive() means, for all intervals and delays.               *)
(***************************************************************************)
EXTENDS Heartbeat, FiniteSetTheorems, TLAPS

\* How long the peer can have been silent and still count as alive, by where
\* the watchdog is.  While it is about to announce a death nothing but a
\* heartbeat of this very moment makes the peer alive again.
Recent ==
  alive => \/ wpc = "wait"  /\ (silence <= DeadInterval + wtime \/ portSilence <= wtime)
           \/ wpc = "probe" /\ \/ silence <= DeadInterval + CheckInterval + wtime
                               \/ portSilence <= CheckInterval + wtime
           \/ wpc = "emit" /\ silence = 0

TimingInv ==
  /\ TypeOK
  /\ PortOpen => portSilence = 0
  /\ alive => heard
  /\ heard => infoAge <= silence + MaxDelay
  /\ wtime <= IF wpc = "wait" THEN CheckInterval ELSE IF wpc = "probe" THEN ProbeTimeout ELSE 0
  /\ Recent

\* A clock that only measures advances by one until it stops.
LEMMA LaterBounds ==
  ASSUME NEW t \in 0..Horizon
  PROVE  Later(t) \in 0..Horizon /\ Later(t) <= t + 1 /\ (Later(t) = t + 1 \/ Later(t) = Horizon)
BY IntervalAssumption DEF Later

LEMMA TimingInit == Init => TimingInv
<1> SUFFICES ASSUME Init PROVE TimingInv
  OBVIOUS
<1>1. [age |-> 0, free |-> FALSE] \in Packet
  BY IntervalAssumption DEF Packet
<1>2. flight \subseteq Packet /\ packet \in Packet
  BY <1>1 DEF Init
<1>3. left \in [losses : 0..Losses, changes : 0..Changes]
  BY IntervalAssumption DEF Init
<1>4. /\ peer \in {"free", "holding", "serving", "down"} /\ path \subseteq {"udp", "tcp"}
      /\ rpc \in {"recv", "store", "emit"} /\ wasAlive \in BOOLEAN
      /\ wpc \in {"wait", "probe", "emit"} /\ lastEvent \in {"none", "peer_dead", "peer_recovered"}
      /\ heard \in BOOLEAN /\ alive \in BOOLEAN /\ snapFree \in BOOLEAN
  BY DEF Init
<1>5. /\ sendIn \in 0..HeartbeatInterval /\ wtime \in Nat /\ queued \in 0..QueueSize
      /\ silence \in 0..Horizon /\ infoAge \in 0..Horizon /\ portSilence \in 0..Horizon
  BY IntervalAssumption DEF Init
<1>6. TypeOK
  BY <1>2, <1>3, <1>4, <1>5 DEF TypeOK
<1> QED
  BY <1>6, IntervalAssumption DEF Init, TimingInv, Recent, PortOpen

\* Packets stay packets.
LEMMA FlightTyping ==
  ASSUME TypeOK, [Next]_vars
  PROVE  flight' \subseteq Packet
<1> USE IntervalAssumption
<1>1. CASE Send
  <2>1. [age |-> 0, free |-> peer = "free"] \in Packet
    BY DEF Packet
  <2> QED
    BY <1>1, <2>1 DEF Send, TypeOK
<1>2. CASE Receive \/ Lose
  BY <1>2 DEF Receive, Lose, TypeOK
<1>3. CASE Tick
  BY <1>3 DEF Tick, TypeOK, Packet
<1>4. CASE Store \/ EmitRecovered \/ WatchdogStep \/ Drain \/ PeerChanges \/ PathChanges
           \/ UNCHANGED vars
  BY <1>4 DEF Store, EmitRecovered, WatchdogStep, Sample, ProbeAnswered, ProbeFails, EmitDead,
              Drain, PeerChanges, PathChanges, vars, netVars, TypeOK
<1> QED
  BY <1>1, <1>2, <1>3, <1>4 DEF Next, ReceiverStep

\* The event queue keeps its bound.
LEMMA EventTyping ==
  ASSUME TypeOK, NEW event \in {"peer_dead", "peer_recovered"}, Emit(event)
  PROVE  queued' \in 0..QueueSize /\ lastEvent' \in {"none", "peer_dead", "peer_recovered"}
BY IntervalAssumption DEF Emit, TypeOK, eventVars

\* One step of any thread, of the network, the peer or time keeps the invariant.
LEMMA TimingStep ==
  ASSUME TimingInv, [Next]_vars
  PROVE  TimingInv'
<1> USE IntervalAssumption DEF TimingInv, eventVars
<1>0. flight' \subseteq Packet
  BY FlightTyping
<1>1. CASE Send
  BY <1>0, <1>1 DEF Send, TypeOK, Recent, PortOpen, stateVars, recvVars, dogVars
<1>2. CASE Receive
  BY <1>0, <1>2 DEF Receive, TypeOK, Recent, PortOpen, stateVars, dogVars
<1>3. CASE Store
  <2>1. packet.age \in 0..MaxDelay /\ packet.free \in BOOLEAN
    BY DEF TypeOK, Packet
  <2> QED
    BY <1>0, <1>3, <2>1 DEF Store, TypeOK, Recent, PortOpen, netVars, dogVars
<1>4. CASE EmitRecovered
  BY <1>0, <1>4, EventTyping DEF EmitRecovered, TypeOK, Recent, PortOpen, netVars, stateVars, dogVars
<1>5. CASE Sample
  BY <1>0, <1>5 DEF Sample, TypeOK, Recent, PortOpen, netVars, stateVars, recvVars
<1>6. CASE ProbeAnswered
  BY <1>0, <1>6 DEF ProbeAnswered, TypeOK, Recent, PortOpen, netVars, stateVars, recvVars
<1>7. CASE ProbeFails
  <2>1. TypeOK'
    BY <1>0, <1>7 DEF ProbeFails, TypeOK, netVars, recvVars
  <2>2. alive' = FALSE /\ wpc' = "emit" /\ wtime' = 0
    BY <1>7 DEF ProbeFails
  <2>3. UNCHANGED <<peer, path, heard, silence, infoAge, portSilence>>
    BY <1>7 DEF ProbeFails, netVars
  <2> QED
    BY <2>1, <2>2, <2>3 DEF Recent, PortOpen
<1>8. CASE EmitDead
  BY <1>0, <1>8, EventTyping DEF EmitDead, TypeOK, Recent, PortOpen, netVars, stateVars, recvVars
<1>9. CASE Lose
  BY <1>0, <1>9 DEF Lose, TypeOK, Recent, PortOpen, stateVars, recvVars, dogVars
<1>10. CASE PeerChanges
  BY <1>0, <1>10 DEF PeerChanges, Change, PortHeard, TypeOK, Recent, PortOpen, stateVars, recvVars,
                     dogVars
<1>11. CASE PathChanges
  BY <1>0, <1>11 DEF PathChanges, Change, PortHeard, TypeOK, Recent, PortOpen, stateVars, recvVars,
                     dogVars
<1>12. CASE Tick
  <2>1. /\ silence' = Later(silence) /\ infoAge' = Later(infoAge)
        /\ portSilence' = IF PortOpen THEN 0 ELSE Later(portSilence)
        /\ wtime' = wtime + 1 /\ wpc' = wpc /\ wpc \in {"wait", "probe"}
        /\ alive' = alive /\ heard' = heard /\ peer' = peer /\ path' = path
    BY <1>12 DEF Tick, TypeOK, stateVars
  <2>2. /\ silence' \in 0..Horizon /\ silence' <= silence + 1
        /\ silence' = silence + 1 \/ silence' = Horizon
        /\ infoAge' \in 0..Horizon /\ infoAge' <= infoAge + 1
        /\ portSilence' \in 0..Horizon /\ portSilence' <= portSilence + 1
    BY <2>1, LaterBounds DEF TypeOK
  <2>3. TypeOK'
    BY <1>0, <1>12, <2>1, <2>2 DEF Tick, TypeOK, stateVars, recvVars
  <2>4. Recent'
    BY <2>1, <2>2 DEF Recent, TypeOK
  <2>5. (PortOpen => portSilence = 0)'
    BY <2>1 DEF PortOpen
  <2>6. (heard => infoAge <= silence + MaxDelay)'
    BY <2>1, <2>2 DEF TypeOK
  <2>7. wtime' <= IF wpc' = "wait" THEN CheckInterval ELSE IF wpc' = "probe" THEN ProbeTimeout ELSE 0
    BY <1>12, <2>1 DEF Tick, TypeOK
  <2> QED
    BY <2>1, <2>3, <2>4, <2>5, <2>6, <2>7
<1>13. CASE Drain
  BY <1>0, <1>13 DEF Drain, TypeOK, Recent, PortOpen, netVars, stateVars, recvVars, dogVars
<1>14. CASE UNCHANGED vars
  BY <1>14 DEF vars, netVars, stateVars, recvVars, dogVars, TypeOK, Recent, PortOpen
<1> QED
  BY <1>1, <1>2, <1>3, <1>4, <1>5, <1>6, <1>7, <1>8, <1>9, <1>10, <1>11, <1>12, <1>13, <1>14
     DEF Next, ReceiverStep, WatchdogStep

\* Inductive for every value of the intervals, the delay and the bounds.
LEMMA TimingAlways == Spec => []TimingInv
BY TimingInit, TimingStep, PTL DEF Spec

\* Every value the code stores has its type.
THEOREM HeartbeatTyped == Spec => []TypeOK
<1>1. TimingInv => TypeOK
  BY DEF TimingInv
<1> QED
  BY <1>1, TimingAlways, PTL

\* is_peer_alive() is never staler than the intervals allow, whatever the
\* network does and however receiver and watchdog interleave.
THEOREM WatchdogInTime == Spec => []AliveIsRecent
<1>1. TimingInv => AliveIsRecent
  BY IntervalAssumption DEF TimingInv, TypeOK, Recent, AliveIsRecent, NoticeTime
<1> QED
  BY <1>1, TimingAlways, PTL

---------------------------------------------------------------------------
\* Lost packets

Lost   == Losses - left.losses
Stable == left.changes = Changes

\* The heartbeats under way that were sent since the last one was stored, and
\* at least y ago.
Newer(y) == {p \in flight : y <= p.age /\ p.age < silence}

\* The longest silence in which at most n heartbeats were sent that are not lost.
Gap(n) == (Lost + n + 1) * HeartbeatInterval

\* What was sent since the last heartbeat is lost or under way; so the next one is
\* due within one more interval, and y ago it was not further off than that.
Counted ==
  /\ silence + sendIn <= Gap(Cardinality(Newer(0)))
  /\ \A y \in 1..(MaxDelay + 1) : silence < Gap(Cardinality(Newer(y))) + y

\* Nothing but losses: the peer sends, and the silence is that of the packets lost
\* in a row and one delay; the watchdog goes to probe, and declares a death, only
\* when that is more than the dead interval and the port is closed.
LossInv ==
  Stable =>
    /\ path = {"udp", "tcp"} /\ peer # "down"
    /\ \A p \in flight : p.age + sendIn >= HeartbeatInterval
    /\ heard => silence <= Gap(0) + MaxDelay
    /\ heard /\ rpc # "store" => Counted
    /\ wpc = "probe" \/ (heard /\ ~alive) => Gap(0) + MaxDelay > DeadInterval
    /\ heard /\ ~alive => peer # "serving"

LEMMA TimesInterval ==
  ASSUME NEW a \in Nat, NEW b \in Nat, a <= b
  PROVE  /\ a * HeartbeatInterval \in Nat
         /\ a * HeartbeatInterval <= b * HeartbeatInterval
         /\ (a + 1) * HeartbeatInterval = a * HeartbeatInterval + HeartbeatInterval
<1> DEFINE c == b - a
<1>1. HeartbeatInterval \in Nat /\ c \in Nat /\ b = a + c
  BY IntervalAssumption
<1> HIDE DEF c
<1>2. a * HeartbeatInterval \in Nat /\ c * HeartbeatInterval \in Nat
  BY <1>1
<1>3. (a + c) * HeartbeatInterval = a * HeartbeatInterval + c * HeartbeatInterval
  BY <1>1
<1>4. (a + 1) * HeartbeatInterval = a * HeartbeatInterval + HeartbeatInterval
  BY <1>1
<1>5. b * HeartbeatInterval = a * HeartbeatInterval + c * HeartbeatInterval
  BY <1>1, <1>3
<1> QED
  BY <1>2, <1>4, <1>5

LEMMA PacketsFinite == IsFiniteSet(Packet)
<1> DEFINE ages == 0..MaxDelay
           pack == [t \in ages \X BOOLEAN |-> [age |-> t[1], free |-> t[2]]]
<1>1. IsFiniteSet(ages) /\ IsFiniteSet(BOOLEAN)
  <2>1. BOOLEAN = {TRUE} \cup {FALSE}
    OBVIOUS
  <2>2. IsFiniteSet({TRUE} \cup {FALSE})
    BY FS_Singleton, FS_AddElement
  <2>3. IsFiniteSet(ages)
    BY FS_Interval, IntervalAssumption
  <2> QED
    BY <2>1, <2>2, <2>3
<1>2. IsFiniteSet(ages \X BOOLEAN)
  BY <1>1, FS_Product
<1>3. pack \in Surjection(ages \X BOOLEAN, Packet)
  <2>1. pack \in [ages \X BOOLEAN -> Packet]
    BY DEF Packet
  <2>2. ASSUME NEW p \in Packet PROVE \E t \in ages \X BOOLEAN : pack[t] = p
    <3>1. <<p.age, p.free>> \in ages \X BOOLEAN
      BY DEF Packet
    <3>2. pack[<<p.age, p.free>>] = p
      BY <3>1 DEF Packet
    <3> QED
      BY <3>1, <3>2
  <2> QED
    BY <2>1, <2>2 DEF Surjection
<1> QED
  BY <1>2, <1>3, FS_Surjection

\* What is counted can be counted.
LEMMA CountTyping ==
  ASSUME TypeOK
  PROVE  /\ Lost \in Nat /\ IsFiniteSet(flight)
         /\ \A y \in Nat : IsFiniteSet(Newer(y)) /\ Cardinality(Newer(y)) \in Nat
<1>1. IsFiniteSet(flight)
  BY PacketsFinite, FS_Subset DEF TypeOK
<1>2. ASSUME NEW y \in Nat PROVE IsFiniteSet(Newer(y)) /\ Cardinality(Newer(y)) \in Nat
  BY <1>1, FS_Subset, FS_CardinalityType DEF Newer
<1> QED
  BY <1>1, <1>2, IntervalAssumption DEF TypeOK, Lost

LEMMA GapBounds ==
  ASSUME TypeOK, NEW m \in Nat, NEW n \in Nat, m <= n
  PROVE  Gap(m) \in Nat /\ Gap(m) <= Gap(n) /\ Gap(m) >= HeartbeatInterval
                        /\ Gap(m + 1) = Gap(m) + HeartbeatInterval
<1>1. Lost \in Nat
  BY CountTyping
<1>2. /\ (Lost + m + 1) * HeartbeatInterval \in Nat
      /\ (Lost + m + 1) * HeartbeatInterval <= (Lost + n + 1) * HeartbeatInterval
      /\ ((Lost + m + 1) + 1) * HeartbeatInterval = (Lost + m + 1) * HeartbeatInterval + HeartbeatInterval
  BY <1>1, TimesInterval
<1>3. 1 * HeartbeatInterval <= (Lost + m + 1) * HeartbeatInterval
  BY <1>1, TimesInterval
<1>4. 1 * HeartbeatInterval = HeartbeatInterval /\ (Lost + m + 1) + 1 = Lost + (m + 1) + 1
  BY <1>1, IntervalAssumption
<1> QED
  BY <1>2, <1>3, <1>4 DEF Gap

\* The packets of a set under way.
LEMMA PacketCount ==
  ASSUME NEW S, S \subseteq Packet
  PROVE  IsFiniteSet(S) /\ Cardinality(S) \in Nat
BY PacketsFinite, FS_Subset, FS_CardinalityType

\* A step that loses as many packets as it takes from those under way does not
\* shorten the gap.
LEMMA GapKept ==
  ASSUME TypeOK, TypeOK', NEW m \in Nat, NEW n \in Nat, Lost + m <= Lost' + n
  PROVE  Gap(m) <= Gap(n)' /\ Gap(m) \in Nat /\ Gap(n)' \in Nat
<1> DEFINE now   == Losses - left.losses
           after == Losses - left'.losses
<1>1. now \in Nat /\ after \in Nat /\ now + m <= after + n
  BY IntervalAssumption DEF TypeOK, Lost
<1> HIDE DEF now, after
<1>2. now + m + 1 \in Nat /\ after + n + 1 \in Nat /\ now + m + 1 <= after + n + 1
  BY <1>1
<1>3. /\ (now + m + 1) * HeartbeatInterval <= (after + n + 1) * HeartbeatInterval
      /\ (now + m + 1) * HeartbeatInterval \in Nat
      /\ (after + n + 1) * HeartbeatInterval \in Nat
  BY <1>2, TimesInterval
<1> QED
  BY <1>3 DEF Gap, Lost, now, after

LEMMA CountedKept ==
  ASSUME TypeOK, Counted, UNCHANGED <<flight, silence, sendIn, left>>
  PROVE  Counted'
<1>1. ASSUME NEW y \in Nat
      PROVE  Newer(y)' = Newer(y) /\ Gap(Cardinality(Newer(y)))' = Gap(Cardinality(Newer(y)))
  BY DEF Newer, Gap, Lost
<1> QED
  BY <1>1, IntervalAssumption DEF Counted

LEMMA SendCounted ==
  ASSUME TypeOK, Send, "udp" \in path, \A p \in flight : p.age + sendIn >= HeartbeatInterval
  PROVE  /\ Counted => Counted'
         /\ \A p \in flight' : p.age + sendIn' >= HeartbeatInterval
<1> DEFINE q == [age |-> 0, free |-> peer = "free"]
<1>1. /\ sendIn = 0 /\ sendIn' = HeartbeatInterval /\ flight' = flight \cup {q}
      /\ UNCHANGED <<silence, left>>
  BY DEF Send, stateVars
<1>2. /\ q.age = 0 /\ \A p \in flight : p.age \in Nat /\ p.age >= HeartbeatInterval
      /\ silence \in Nat /\ sendIn \in Nat /\ HeartbeatInterval \in Nat \ {0}
  BY <1>1, IntervalAssumption DEF TypeOK, Packet
<1> HIDE DEF q
<1>3. q \notin flight
  BY <1>2
<1>4. \A n : Gap(n)' = Gap(n)
  BY <1>1 DEF Gap, Lost
<1>5. ASSUME Counted, NEW y \in 1..(MaxDelay + 1)
      PROVE  (silence < Gap(Cardinality(Newer(y))) + y)'
  <2>1. Newer(y)' = Newer(y)
    BY <1>1, <1>2 DEF Newer
  <2> QED
    BY <1>1, <1>4, <1>5, <2>1 DEF Counted
<1>6. ASSUME Counted PROVE (silence + sendIn <= Gap(Cardinality(Newer(0))))'
  <2> DEFINE n == Cardinality(Newer(0))
  <2>1. n \in Nat /\ IsFiniteSet(Newer(0))
    BY CountTyping
  <2>2. silence <= Gap(n) /\ Gap(n) \in Nat /\ Gap(n + 1) = Gap(n) + HeartbeatInterval
        /\ Gap(n) >= HeartbeatInterval
    BY <1>1, <1>2, <1>6, <2>1, GapBounds DEF Counted
  <2>3. CASE silence = 0
    <3>1. Newer(0)' = Newer(0)
      BY <1>1, <1>2, <2>3 DEF Newer
    <3> QED
      BY <1>1, <1>2, <1>4, <2>2, <2>3, <3>1
  <2>4. CASE silence # 0
    <3>1. Newer(0)' = Newer(0) \cup {q} /\ q \notin Newer(0)
      BY <1>1, <1>2, <1>3, <2>4 DEF Newer
    <3>2. Cardinality(Newer(0)') = n + 1
      BY <2>1, <3>1, FS_AddElement
    <3>3. Gap(Cardinality(Newer(0)))' = Gap(n + 1)
      BY <1>4, <3>2
    <3> HIDE DEF n
    <3> QED
      BY <1>1, <1>2, <2>2, <3>3
  <2> QED
    BY <2>3, <2>4
<1>7. \A p \in flight' : p.age + sendIn' >= HeartbeatInterval
  BY <1>1, <1>2
<1> QED
  BY <1>5, <1>6, <1>7 DEF Counted

\* A packet that is lost is counted as lost.
LEMMA LoseCounted ==
  ASSUME TypeOK, TypeOK', Counted, Lose, "udp" \in path
  PROVE  Counted'
<1>1. PICK p \in flight : flight' = flight \ {p}
  BY DEF Lose
<1>2. UNCHANGED <<silence, sendIn>> /\ left.losses \in Nat /\ left'.losses = left.losses - 1
  BY DEF Lose, stateVars, TypeOK
<1>3. Lost \in Nat /\ Lost' = Lost + 1
  BY <1>2, IntervalAssumption DEF Lost, TypeOK
<1>4. ASSUME NEW y \in Nat
      PROVE  /\ Gap(Cardinality(Newer(y))) <= Gap(Cardinality(Newer(y)))'
             /\ Gap(Cardinality(Newer(y))) \in Nat /\ Gap(Cardinality(Newer(y)))' \in Nat
  <2>1. Newer(y)' = Newer(y) \ {p}
    BY <1>1, <1>2 DEF Newer
  <2>2. IsFiniteSet(Newer(y)) /\ Cardinality(Newer(y)) \in Nat
    BY CountTyping
  <2>3. /\ IsFiniteSet(Newer(y) \ {p})
        /\ Cardinality(Newer(y) \ {p}) = IF p \in Newer(y) THEN Cardinality(Newer(y)) - 1
                                                            ELSE Cardinality(Newer(y))
    BY <2>2, FS_RemoveElement
  <2>4. Cardinality(Newer(y)') \in Nat
    BY <2>1, <2>3, FS_CardinalityType
  <2>5. PICK m \in Nat, n \in Nat :
          m = Cardinality(Newer(y)) /\ n = Cardinality(Newer(y)') /\ m <= n + 1
    BY <2>1, <2>2, <2>3, <2>4
  <2>6. Gap(m) <= Gap(n)' /\ Gap(m) \in Nat /\ Gap(n)' \in Nat
    BY <1>3, <2>5, GapKept
  <2> QED
    BY <2>5, <2>6 DEF Gap
<1>5. silence \in Nat /\ sendIn \in Nat
  BY IntervalAssumption DEF TypeOK
<1>6. (silence + sendIn <= Gap(Cardinality(Newer(0))))'
  BY <1>2, <1>4, <1>5 DEF Counted
<1>7. ASSUME NEW y \in 1..(MaxDelay + 1)
      PROVE  (silence < Gap(Cardinality(Newer(y))) + y)'
  <2>1. y \in Nat
    BY IntervalAssumption
  <2>2. silence < Gap(Cardinality(Newer(y))) + y
    BY DEF Counted
  <2> QED
    BY <1>2, <1>4, <1>5, <2>1, <2>2
<1> QED
  BY <1>6, <1>7 DEF Counted

LEMMA LoseGap ==
  ASSUME TypeOK, TypeOK', Lose
  PROVE  Gap(0) <= Gap(0)' /\ Gap(0)' \in Nat
<1>1. Lost \in Nat /\ Lost' \in Nat /\ Lost + 0 <= Lost' + 0
  BY IntervalAssumption DEF Lose, Lost, TypeOK
<1> QED
  BY <1>1, GapKept

\* As time passes, the packets that were y old are those that are y + 1 old.
LEMMA TickCounted ==
  ASSUME TypeOK, TypeOK', Counted, Tick, peer # "down"
  PROVE  Counted' /\ silence' <= Gap(0)' + MaxDelay
<1> DEFINE older(p) == [p EXCEPT !.age = @ + 1]
<1>1. /\ flight' = {older(p) : p \in flight} /\ flight \subseteq Packet /\ flight' \subseteq Packet
      /\ sendIn' = sendIn - 1 /\ sendIn > 0 /\ left' = left
  BY DEF Tick, TypeOK
<1>2. \A p \in flight : older(p).age = p.age + 1 /\ older(p).free = p.free
  BY <1>1 DEF Packet
<1> HIDE DEF older
<1>3. /\ silence \in Nat /\ silence' \in Nat /\ sendIn \in Nat
      /\ silence' = silence + 1 \/ (silence' = silence /\ silence > MaxDelay)
  BY LaterBounds, IntervalAssumption DEF Tick, TypeOK, Later
<1>4. \A p \in flight' : p.age \in Nat /\ p.age <= MaxDelay
  BY <1>1, IntervalAssumption DEF Packet
<1>5. \A p \in flight : p.age \in Nat /\ p.age <= MaxDelay
  BY <1>1, IntervalAssumption DEF Packet
<1>6. \A n : Gap(n)' = Gap(n)
  BY <1>1 DEF Gap, Lost
<1>7. ASSUME NEW y \in Nat
      PROVE  /\ Cardinality(Newer(y)) \in Nat /\ Cardinality(Newer(y + 1)') \in Nat
             /\ Cardinality(Newer(y)) <= Cardinality(Newer(y + 1)')
  <2> DEFINE f == [p \in Newer(y) |-> older(p)]
  <2>1. ASSUME NEW p \in Newer(y) PROVE older(p) \in Newer(y + 1)'
    <3>1. p \in flight /\ y <= p.age /\ p.age < silence
      BY DEF Newer
    <3>2. older(p) \in flight' /\ older(p).age = p.age + 1
      BY <1>1, <1>2, <3>1
    <3>3. p.age \in Nat /\ p.age + 1 <= MaxDelay
      BY <1>4, <1>5, <3>1, <3>2
    <3>4. y + 1 <= older(p).age /\ older(p).age < silence'
      BY <1>3, <3>1, <3>2, <3>3, IntervalAssumption
    <3> QED
      BY <3>2, <3>4 DEF Newer
  <2>2. \A p, q \in Newer(y) : older(p) = older(q) => p = q
    <3> SUFFICES ASSUME NEW p \in Newer(y), NEW q \in Newer(y), older(p) = older(q)
                 PROVE  p = q
      OBVIOUS
    <3>1. p \in Packet /\ q \in Packet /\ p \in flight /\ q \in flight
      BY <1>1 DEF Newer
    <3>2. p.age + 1 = q.age + 1 /\ p.free = q.free /\ p.age \in Nat /\ q.age \in Nat
      BY <1>2, <1>5, <3>1
    <3> QED
      BY <3>1, <3>2 DEF Packet
  <2>3. f \in Injection(Newer(y), Newer(y + 1)')
    BY <2>1, <2>2 DEF Injection, IsInjective
  <2>4. Newer(y) \subseteq Packet /\ Newer(y + 1)' \subseteq Packet
    BY <1>1 DEF Newer
  <2>5. /\ IsFiniteSet(Newer(y + 1)')
        /\ Cardinality(Newer(y)) \in Nat /\ Cardinality(Newer(y + 1)') \in Nat
    BY <2>4, PacketCount
  <2> QED
    BY <2>3, <2>5, FS_Injection
<1>8. ASSUME NEW y \in Nat, y <= MaxDelay
      PROVE  (silence < Gap(Cardinality(Newer(y + 1))) + (y + 1))'
  <2>1. PICK m \in Nat, n \in Nat :
          m = Cardinality(Newer(y)) /\ n = Cardinality(Newer(y + 1)') /\ m <= n
    BY <1>7
  <2>2. Gap(m) \in Nat /\ Gap(n) \in Nat /\ Gap(m) <= Gap(n)
    BY <2>1, GapBounds
  <2>3. silence + 1 < Gap(m) + (y + 1)
    <3>1. CASE y = 0
      <4>1. silence + sendIn <= Gap(m)
        BY <2>1, <3>1 DEF Counted
      <4> QED
        BY <1>1, <1>3, <2>2, <3>1, <4>1
    <3>2. CASE y \in 1..(MaxDelay + 1)
      <4>1. silence < Gap(m) + y
        BY <2>1, <3>2 DEF Counted
      <4> QED
        BY <1>3, <2>2, <4>1
    <3>3. y = 0 \/ y \in 1..(MaxDelay + 1)
      BY <1>8, IntervalAssumption
    <3> QED
      BY <3>1, <3>2, <3>3
  <2>4. silence' < Gap(n) + (y + 1)
    BY <1>3, <2>2, <2>3
  <2>5. Gap(Cardinality(Newer(y + 1)))' = Gap(n)
    BY <1>6, <2>1
  <2> QED
    BY <2>4, <2>5
<1>9. (silence + sendIn <= Gap(Cardinality(Newer(0))))'
  <2>1. Newer(1)' \subseteq Newer(0)' /\ Newer(0)' \subseteq Packet
    BY <1>1, <1>4 DEF Newer
  <2>2. /\ Cardinality(Newer(0)) \in Nat /\ Cardinality(Newer(0)') \in Nat
        /\ Cardinality(Newer(0)) <= Cardinality(Newer(0)')
    <3>1. Cardinality(Newer(0)) \in Nat /\ Cardinality(Newer(0 + 1)') \in Nat
          /\ Cardinality(Newer(0)) <= Cardinality(Newer(0 + 1)')
      BY <1>7
    <3>2. IsFiniteSet(Newer(0)') /\ Cardinality(Newer(0)') \in Nat
      BY <2>1, PacketCount
    <3>3. Cardinality(Newer(1)') <= Cardinality(Newer(0)')
      BY <2>1, <3>2, FS_Subset
    <3> QED
      BY <3>1, <3>2, <3>3
  <2>3. PICK m \in Nat, n \in Nat :
          m = Cardinality(Newer(0)) /\ n = Cardinality(Newer(0)') /\ m <= n
    BY <2>2
  <2>4. Gap(m) \in Nat /\ Gap(n) \in Nat /\ Gap(m) <= Gap(n)
    BY <2>3, GapBounds
  <2>5. silence + sendIn <= Gap(m)
    BY <2>3 DEF Counted
  <2>6. Gap(Cardinality(Newer(0)))' = Gap(n)
    BY <1>6, <2>3
  <2> QED
    BY <1>1, <1>3, <2>4, <2>5, <2>6
<1>10. Counted'
  <2>1. ASSUME NEW y \in 1..(MaxDelay + 1)
        PROVE  (silence < Gap(Cardinality(Newer(y))) + y)'
    <3>1. y - 1 \in Nat /\ y - 1 <= MaxDelay /\ (y - 1) + 1 = y
      BY IntervalAssumption
    <3> QED
      BY <1>8, <3>1
  <2> QED
    BY <1>9, <2>1 DEF Counted
<1>11. silence' <= Gap(0)' + MaxDelay
  <2>1. Newer(MaxDelay + 1)' = {}
    BY <1>4, IntervalAssumption DEF Newer
  <2>2. (silence < Gap(Cardinality(Newer(MaxDelay + 1))) + (MaxDelay + 1))'
    BY <1>8, IntervalAssumption
  <2>3. silence' < Gap(0)' + (MaxDelay + 1)
    BY <2>1, <2>2, FS_EmptySet DEF Gap
  <2>4. Gap(0) \in Nat
    BY GapBounds
  <2> QED
    BY <1>3, <1>6, <2>3, <2>4, IntervalAssumption
<1> QED
  BY <1>10, <1>11

\* The sender's clock and the age of what it sent keep step.
LEMMA TickAges ==
  ASSUME TypeOK, Tick, peer # "down", \A p \in flight : p.age + sendIn >= HeartbeatInterval
  PROVE  \A p \in flight' : p.age + sendIn' >= HeartbeatInterval
<1> DEFINE older(p) == [p EXCEPT !.age = @ + 1]
<1>1. flight' = {older(p) : p \in flight} /\ sendIn' = sendIn - 1 /\ sendIn \in Nat
  BY IntervalAssumption DEF Tick, TypeOK
<1>2. ASSUME NEW p \in flight PROVE older(p).age = p.age + 1 /\ p.age \in Nat
  BY IntervalAssumption DEF TypeOK, Packet
<1> HIDE DEF older
<1>3. ASSUME NEW p \in flight PROVE older(p).age + sendIn' >= HeartbeatInterval
  BY <1>1, <1>2, IntervalAssumption
<1> QED
  BY <1>1, <1>3

LEMMA StoreCounted ==
  ASSUME TypeOK, TypeOK', Store
  PROVE  Counted' /\ silence' <= Gap(0)' + MaxDelay
<1>1. silence' = 0 /\ UNCHANGED <<sendIn, left>>
  BY DEF Store, netVars
<1>2. \A y \in Nat : Newer(y)' = {}
  BY <1>1, IntervalAssumption DEF TypeOK, Newer, Packet
<1>3. \A n : Gap(n)' = Gap(n)
  BY <1>1 DEF Gap, Lost
<1>4. \A y \in Nat : Gap(Cardinality(Newer(y)))' = Gap(0)
  BY <1>2, <1>3, FS_EmptySet
<1>5. Gap(0) \in Nat /\ Gap(0) >= HeartbeatInterval /\ Gap(0)' = Gap(0)
  BY <1>3, GapBounds
<1>6. sendIn \in Nat /\ sendIn <= HeartbeatInterval
  BY IntervalAssumption DEF TypeOK
<1> QED
  BY <1>1, <1>4, <1>5, <1>6, IntervalAssumption DEF Counted

LEMMA LossInit == Init => LossInv
BY IntervalAssumption DEF Init, LossInv

\* Only time and the sending, storing and losing of packets move what is counted.
LEMMA LossStep ==
  ASSUME TimingInv, TimingInv', LossInv, [Next]_vars
  PROVE  LossInv'
<1> SUFFICES ASSUME Stable' PROVE
      /\ (path = {"udp", "tcp"})' /\ (peer # "down")'
      /\ (\A p \in flight : p.age + sendIn >= HeartbeatInterval)'
      /\ (heard => silence <= Gap(0) + MaxDelay)'
      /\ (heard /\ rpc # "store" => Counted)'
      /\ (wpc = "probe" \/ (heard /\ ~alive) => Gap(0) + MaxDelay > DeadInterval)'
      /\ (heard /\ ~alive => peer # "serving")'
  BY DEF LossInv
<1>1. TypeOK /\ TypeOK'
  BY DEF TimingInv
<1>2. Stable /\ ~PeerChanges /\ ~PathChanges
  <2>1. left.changes \in Nat /\ left.changes <= Changes
    BY <1>1, IntervalAssumption DEF TypeOK
  <2>2. ~PeerChanges /\ ~PathChanges
    <3>1. Change => left'.changes = left.changes - 1
      BY <1>1 DEF Change, TypeOK
    <3>2. ~Change
      BY <2>1, <3>1, IntervalAssumption DEF Stable
    <3> QED
      BY <3>2 DEF PeerChanges, PathChanges
  <2>3. left'.changes = left.changes
    BY <1>1, <2>2
       DEF Next, Send, ReceiverStep, Receive, Store, EmitRecovered, WatchdogStep, Sample,
           ProbeAnswered, ProbeFails, EmitDead, Drain, Lose, Tick, vars, TypeOK
  <2> QED
    BY <2>2, <2>3 DEF Stable
<1>3. /\ path = {"udp", "tcp"} /\ peer # "down"
      /\ \A p \in flight : p.age + sendIn >= HeartbeatInterval
      /\ heard => silence <= Gap(0) + MaxDelay
      /\ heard /\ rpc # "store" => Counted
      /\ wpc = "probe" \/ (heard /\ ~alive) => Gap(0) + MaxDelay > DeadInterval
      /\ heard /\ ~alive => peer # "serving"
  BY <1>2 DEF LossInv
<1>4. Gap(0) \in Nat /\ (left' = left => Gap(0)' = Gap(0))
  BY <1>1, GapBounds DEF Gap, Lost
<1>5. CASE Send
  BY <1>1, <1>3, <1>4, <1>5, SendCounted DEF Send, stateVars, recvVars, dogVars
<1>6. CASE Receive
  BY <1>3, <1>4, <1>6 DEF Receive, stateVars, dogVars
<1>7. CASE Store
  BY <1>1, <1>3, <1>4, <1>7, StoreCounted DEF Store, netVars, dogVars
<1>8. CASE EmitRecovered \/ ProbeAnswered \/ EmitDead \/ Drain \/ UNCHANGED vars
  <2>1. /\ UNCHANGED <<peer, path, flight, sendIn, silence, heard, alive, left>>
        /\ wpc' = "probe" => wpc = "probe"
        /\ rpc' = "store" <=> rpc = "store"
    BY <1>8 DEF EmitRecovered, ProbeAnswered, EmitDead, Drain, vars, netVars, stateVars, recvVars, dogVars
  <2> QED
    BY <1>1, <1>3, <1>4, <2>1, CountedKept
<1>9. CASE Sample
  <2>1. /\ UNCHANGED <<peer, path, flight, sendIn, silence, heard, alive, left, rpc>>
        /\ wpc' = "probe" => heard /\ silence > DeadInterval
    BY <1>9 DEF Sample, netVars, stateVars, recvVars
  <2>2. wpc' = "probe" => Gap(0) + MaxDelay > DeadInterval
    BY <1>1, <1>3, <1>4, <2>1, IntervalAssumption DEF TypeOK
  <2> QED
    BY <1>1, <1>3, <1>4, <2>1, <2>2, CountedKept
<1>10. CASE ProbeFails
  <2>1. /\ UNCHANGED <<peer, path, flight, sendIn, silence, heard, left, rpc>>
        /\ wpc = "probe" /\ ~PortOpen
    BY <1>10 DEF ProbeFails, netVars, recvVars
  <2>2. peer # "serving"
    BY <1>3, <2>1 DEF PortOpen
  <2> QED
    BY <1>1, <1>3, <1>4, <2>1, <2>2, CountedKept
<1>11. CASE Lose
  <2>1. /\ UNCHANGED <<peer, path, sendIn, silence, heard, alive, rpc, wpc>>
        /\ flight' \subseteq flight
    BY <1>11 DEF Lose, stateVars, recvVars, dogVars
  <2>2. heard /\ rpc # "store" => Counted'
    BY <1>1, <1>3, <1>11, LoseCounted
  <2>3. Gap(0) <= Gap(0)' /\ Gap(0)' \in Nat
    BY <1>1, <1>2, <1>3, <1>11, LoseGap
  <2>4. silence \in Nat
    BY <1>1, IntervalAssumption DEF TypeOK
  <2> QED
    BY <1>3, <1>4, <2>1, <2>2, <2>3, <2>4, IntervalAssumption
<1>12. CASE Tick
  <2>1. UNCHANGED <<peer, path, heard, alive, wpc, left>> /\ rpc = "recv" /\ rpc' = "recv"
    BY <1>12 DEF Tick, recvVars
  <2>2. \A p \in flight' : p.age + sendIn' >= HeartbeatInterval
    BY <1>1, <1>3, <1>12, TickAges
  <2>3. heard => Counted' /\ silence' <= Gap(0)' + MaxDelay
    BY <1>1, <1>3, <1>12, <2>1, TickCounted
  <2> QED
    BY <1>3, <1>4, <2>1, <2>2, <2>3
<1> QED
  BY <1>2, <1>5, <1>6, <1>7, <1>8, <1>9, <1>10, <1>11, <1>12 DEF Next, ReceiverStep, WatchdogStep

\* As long as packets are only lost, a peer is declared dead only if so many were
\* lost in a row that it had to be, and never while its PostgreSQL serves.
THEOREM LossesAreTolerated == Spec => []LossesTolerated
<1>1. TimingInv /\ LossInv => LossesTolerated
  <2> SUFFICES ASSUME TimingInv, LossInv, heard, ~alive, Stable
               PROVE  /\ peer # "serving"
                      /\ (Losses - left.losses + 1) * HeartbeatInterval + MaxDelay > DeadInterval
    BY DEF LossesTolerated, Stable
  <2>1. peer # "serving" /\ Gap(0) + MaxDelay > DeadInterval
    BY DEF LossInv
  <2>2. Losses - left.losses + 0 + 1 = Losses - left.losses + 1
    BY IntervalAssumption DEF TimingInv, TypeOK
  <2> QED
    BY <2>1, <2>2 DEF Gap, Lost
<1>2. Spec => []LossInv
  BY LossInit, LossStep, TimingAlways, PTL DEF Spec
<1> QED
  BY <1>1, <1>2, TimingAlways, PTL
=============================================================================
