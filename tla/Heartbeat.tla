------------------------------ MODULE Heartbeat ------------------------------
(***************************************************************************)
(* heartbeat.py in discrete time: the sender thread of the peer, the       *)
(* receiver and watchdog threads of this node, and the network between     *)
(* them.  PgHaDaemon keeps of all this only what the main loop reads; here *)
(* are the intervals, packets that are lost, late or overtaken, the probe  *)
(* of the peer's PostgreSQL port and the races between the two threads.    *)
(*                                                                         *)
(* Steps of threads take no time; waits, the probe and packets in flight   *)
(* do.  `Tick` lets one unit pass, and only when nothing is due.           *)
(***************************************************************************)
EXTENDS Naturals

CONSTANTS
  HeartbeatInterval, \* cluster.heartbeat_interval
  DeadInterval,      \* cluster.dead_interval
  CheckInterval,     \* check_interval of the watchdog
  ProbeTimeout,      \* timeout of the TCP probe
  MaxDelay,          \* how long a packet may travel (bound)
  QueueSize,         \* _EVENT_QUEUE_SIZE (bound)
  Horizon,           \* where the clocks that only measure stop counting (bound)
  Losses,            \* how many packets may be lost (bound)
  Changes            \* how often peer or network may change (bound)

ASSUME IntervalAssumption ==
  /\ HeartbeatInterval \in Nat \ {0} /\ CheckInterval \in Nat \ {0}
  /\ DeadInterval \in Nat /\ ProbeTimeout \in Nat /\ MaxDelay \in Nat
  /\ Losses \in Nat /\ Changes \in Nat /\ QueueSize \in Nat
  /\ Horizon \in Nat /\ Horizon > DeadInterval + CheckInterval + ProbeTimeout + MaxDelay

VARIABLES
  peer,        \* the peer: "free" (STANDBY, DETACHED), "holding", "serving", or "down"
  path,        \* the protocols that get through to this node
  sendIn,      \* time until the peer's sender wakes up
  flight,      \* heartbeats under way: how long, and whether they advertise "free"
  heard,       \* last_heartbeat_ts is not 0.0
  alive,       \* _peer_alive
  snapFree,    \* _peer_state says STANDBY and DETACHED
  silence,     \* time since last_heartbeat_ts
  infoAge,     \* time since the contents of _peer_state were sent
  portSilence, \* time since the peer's PostgreSQL port last accepted connections
  rpc, wasAlive, packet, \* the receiver: next step, and its local variables
  wpc, wtime,  \* the watchdog: next step, and time spent in it
  queued,      \* events of this manager that wait in the event queue
  lastEvent,   \* the last event this manager put into the event queue
  left         \* losses and changes still to come

netVars   == <<path, sendIn, flight>>
stateVars == <<heard, alive, snapFree, silence, infoAge>>
recvVars  == <<rpc, wasAlive, packet>>
dogVars   == <<wpc, wtime>>
eventVars == <<queued, lastEvent>>
vars == <<peer, netVars, stateVars, portSilence, recvVars, dogVars, eventVars, left>>

Packet == [age : 0..MaxDelay, free : BOOLEAN]

TypeOK ==
  /\ peer \in {"free", "holding", "serving", "down"} /\ path \subseteq {"udp", "tcp"}
  /\ sendIn \in 0..HeartbeatInterval /\ flight \subseteq Packet
  /\ heard \in BOOLEAN /\ alive \in BOOLEAN /\ snapFree \in BOOLEAN
  /\ silence \in 0..Horizon /\ infoAge \in 0..Horizon /\ portSilence \in 0..Horizon
  /\ rpc \in {"recv", "store", "emit"} /\ wasAlive \in BOOLEAN /\ packet \in Packet
  /\ wpc \in {"wait", "probe", "emit"} /\ wtime \in Nat
  /\ queued \in 0..QueueSize /\ lastEvent \in {"none", "peer_dead", "peer_recovered"}
  /\ left \in [losses : 0..Losses, changes : 0..Changes]

PortOpen == peer = "serving" /\ "tcp" \in path
Later(t) == IF t < Horizon THEN t + 1 ELSE t

\* _emit: a full event queue drops the event.
Emit(event) ==
  \/ queued < QueueSize /\ queued' = queued + 1 /\ lastEvent' = event
  \/ queued = QueueSize /\ UNCHANGED eventVars

---------------------------------------------------------------------------
\* _sender_loop of the peer: every interval, whatever became of the last one.

Send ==
  /\ peer # "down" /\ sendIn = 0
  /\ sendIn' = HeartbeatInterval
  /\ flight' = IF "udp" \in path THEN flight \cup {[age |-> 0, free |-> peer = "free"]}
                                 ELSE flight
  /\ UNCHANGED <<peer, path, stateVars, portSilence, recvVars, dogVars, eventVars, left>>

---------------------------------------------------------------------------
\* _receiver_loop: _peer_alive is read before the lock is taken.

Receive ==
  /\ rpc = "recv"
  /\ \E p \in flight : packet' = p /\ flight' = flight \ {p}
  /\ wasAlive' = alive
  /\ rpc' = "store"
  /\ UNCHANGED <<peer, path, sendIn, stateVars, portSilence, dogVars, eventVars, left>>

\* Mutant: a packet is no news of a peer that was declared dead.
StoreKeepsVerdict ==
  /\ rpc = "store" /\ rpc' = IF wasAlive THEN "recv" ELSE "emit"
  /\ snapFree' = packet.free /\ infoAge' = packet.age
  /\ heard' = TRUE /\ silence' = 0
  /\ alive' = (alive \/ ~heard)
  /\ UNCHANGED <<peer, netVars, portSilence, wasAlive, packet, dogVars, eventVars, left>>

\* Under the lock.  Sequence numbers are not compared: a packet that was
\* overtaken replaces a newer one.
Store ==
  /\ rpc = "store" /\ rpc' = IF wasAlive THEN "recv" ELSE "emit"
  /\ snapFree' = packet.free /\ infoAge' = packet.age
  /\ heard' = TRUE /\ silence' = 0
  /\ alive' = TRUE
  /\ UNCHANGED <<peer, netVars, portSilence, wasAlive, packet, dogVars, eventVars, left>>

EmitRecovered ==
  /\ rpc = "emit" /\ rpc' = "recv"
  /\ Emit("peer_recovered")
  /\ UNCHANGED <<peer, netVars, stateVars, portSilence, wasAlive, packet, dogVars, left>>

---------------------------------------------------------------------------
\* _watchdog_loop

\* Mutant: a peer that has been silent for the whole interval is given another.
SampleLate ==
  /\ wpc = "wait" /\ wtime = CheckInterval
  /\ wpc' = IF heard /\ alive /\ silence > DeadInterval + CheckInterval THEN "probe" ELSE "wait"
  /\ wtime' = 0
  /\ UNCHANGED <<peer, netVars, stateVars, portSilence, recvVars, eventVars, left>>

\* Mutant: >= where the code has >.
SampleEarly ==
  /\ wpc = "wait" /\ wtime = CheckInterval
  /\ wpc' = IF heard /\ alive /\ silence >= DeadInterval THEN "probe" ELSE "wait"
  /\ wtime' = 0
  /\ UNCHANGED <<peer, netVars, stateVars, portSilence, recvVars, eventVars, left>>

\* After the wait: last_ts and was_alive are read under one lock.
Sample ==
  /\ wpc = "wait" /\ wtime = CheckInterval
  /\ wpc' = IF heard /\ alive /\ silence > DeadInterval THEN "probe" ELSE "wait"
  /\ wtime' = 0
  /\ UNCHANGED <<peer, netVars, stateVars, portSilence, recvVars, eventVars, left>>

\* The port answers: "treating as heartbeat flap".
ProbeAnswered ==
  /\ wpc = "probe" /\ PortOpen
  /\ wpc' = "wait" /\ wtime' = 0
  /\ UNCHANGED <<peer, netVars, stateVars, portSilence, recvVars, eventVars, left>>

\* The port refuses or the probe times out.  Nothing looks again at a heartbeat
\* that came during the probe.
ProbeFails ==
  /\ wpc = "probe" /\ ~PortOpen
  /\ alive' = FALSE
  /\ wpc' = "emit" /\ wtime' = 0
  /\ UNCHANGED <<peer, netVars, heard, snapFree, silence, infoAge, portSilence, recvVars,
                 eventVars, left>>

EmitDead ==
  /\ wpc = "emit" /\ wpc' = "wait"
  /\ Emit("peer_dead")
  /\ UNCHANGED <<peer, netVars, stateVars, portSilence, recvVars, wtime, left>>

---------------------------------------------------------------------------
\* Surroundings

\* The main loop empties the event queue, in each of its iterations; an election or
\* a self-demotion keeps it away for long.
Drain ==
  /\ queued > 0 /\ queued' = 0
  /\ UNCHANGED <<peer, netVars, stateVars, portSilence, recvVars, dogVars, lastEvent, left>>

\* A packet is lost, for nothing if the path is cut.
Lose ==
  /\ \E p \in flight : flight' = flight \ {p}
  /\ \/ "udp" \notin path /\ UNCHANGED left
     \/ left.losses > 0 /\ left' = [left EXCEPT !.losses = @ - 1]
  /\ UNCHANGED <<peer, path, sendIn, stateVars, portSilence, recvVars, dogVars, eventVars>>

PortHeard == portSilence' = IF PortOpen' THEN 0 ELSE portSilence

Change == left.changes > 0 /\ left' = [left EXCEPT !.changes = @ - 1]

\* The peer takes over or gives up, and passes through "holding" either way; it
\* dies, or comes back and sends at once.
PeerChanges ==
  /\ Change
  /\ \/ peer = "holding" /\ peer' \in {"free", "serving", "down"}
     \/ peer \in {"free", "serving"} /\ peer' \in {"holding", "down"}
     \/ peer = "down" /\ peer' = "holding"
  /\ sendIn' = IF peer' = "down" THEN 0 ELSE sendIn
  /\ UNCHANGED <<path, flight, stateVars, recvVars, dogVars, eventVars>>
  /\ PortHeard

PathChanges ==
  /\ Change
  /\ path' \in SUBSET {"udp", "tcp"} /\ path' # path
  /\ UNCHANGED <<peer, sendIn, flight, stateVars, recvVars, dogVars, eventVars>>
  /\ PortHeard

\* One unit of time.
Tick ==
  /\ rpc = "recv" /\ wpc # "emit"
  /\ peer # "down" => sendIn > 0
  /\ \A p \in flight : p.age < MaxDelay
  /\ wtime < IF wpc = "wait" THEN CheckInterval ELSE ProbeTimeout
  /\ wtime' = wtime + 1
  /\ sendIn' = IF peer = "down" THEN 0 ELSE sendIn - 1
  /\ flight' = {[p EXCEPT !.age = @ + 1] : p \in flight}
  /\ silence' = Later(silence) /\ infoAge' = Later(infoAge)
  /\ portSilence' = IF PortOpen THEN 0 ELSE Later(portSilence)
  /\ UNCHANGED <<peer, path, heard, alive, snapFree, recvVars, wpc, eventVars, left>>

---------------------------------------------------------------------------
\* The specification

\* The daemon starts; the peer is already in some role.
Init ==
  /\ peer \in {"free", "holding", "serving"} /\ path = {"udp", "tcp"}
  /\ sendIn = HeartbeatInterval /\ flight = {}
  /\ heard = FALSE /\ alive = FALSE /\ snapFree = FALSE
  /\ silence = 0 /\ infoAge = 0 /\ portSilence = 0
  /\ rpc = "recv" /\ wasAlive = FALSE /\ packet = [age |-> 0, free |-> FALSE]
  /\ wpc = "wait" /\ wtime = 0
  /\ queued = 0 /\ lastEvent = "none"
  /\ left = [losses |-> Losses, changes |-> Changes]

ReceiverStep == Receive \/ Store \/ EmitRecovered
WatchdogStep == Sample \/ ProbeAnswered \/ ProbeFails \/ EmitDead

Next == Send \/ ReceiverStep \/ WatchdogStep \/ Drain \/ Lose \/ PeerChanges \/ PathChanges
        \/ Tick

Spec == Init /\ [][Next]_vars

\* The three threads run, packets that are not lost arrive, and time passes.
Fairness == WF_vars(Send) /\ WF_vars(ReceiverStep) /\ WF_vars(WatchdogStep) /\ WF_vars(Tick)

FairSpec == Spec /\ Fairness

---------------------------------------------------------------------------
\* Properties

\* The watchdog cannot be late.  A peer counts as alive only if a heartbeat came,
\* and was sent, within the dead interval, one watchdog period, one probe and
\* (for the sending) the delay of a packet, or if its PostgreSQL port accepted
\* connections within one period and one probe.  This is what the daemon may
\* conclude from is_peer_alive() and peer_snapshot(), whatever is lost, delayed
\* or overtaken and however the receiver and the watchdog interleave.
NoticeTime == CheckInterval + ProbeTimeout
AliveIsRecent ==
  alive => \/ silence <= DeadInterval + NoticeTime /\ infoAge <= DeadInterval + NoticeTime + MaxDelay
           \/ portSilence <= NoticeTime

\* As long as nothing happens to the peer or the network but lost packets, the
\* peer is declared dead only if it serves no connections and so many packets
\* were lost that the remaining ones leave a gap above the dead interval.
LossesTolerated ==
  heard /\ ~alive /\ left.changes = Changes =>
    /\ peer # "serving"
    /\ (Losses - left.losses + 1) * HeartbeatInterval + MaxDelay > DeadInterval

\* Whatever the races, the two threads and the queue end in agreement, if the queue
\* never fills up: a peer that is down for good ends up declared dead if it was ever
\* heard, and PEER_DEAD, on which the standby takes over, is the last event; a peer
\* that keeps sending over a working network ends up alive.
VerdictSettles ==
  [](queued < QueueSize) =>
    /\ <>[](peer = "down") => <>[](~alive /\ (heard => lastEvent = "peer_dead"))
    /\ <>[](peer # "down" /\ "udp" \in path) => <>[](heard /\ alive)

\* The fallback of the main loop acts on "peer heartbeat still arrives (VM alive)
\* but peer reports role=STANDBY and disk=DETACHED": as long as it finds the peer
\* alive with that advertisement, the clock of silence has not run out.
FallbackHearsHeartbeat == alive /\ snapFree => silence < Horizon
=============================================================================
