------------------------------ MODULE PgMonitor ------------------------------
(***************************************************************************)
(* PostgresMonitor and the part of the main loop that reads it, on one     *)
(* node: from failed checks to the decision to self-demote.  PgHaDaemon    *)
(* has all this in one guess, `SelfDemoteStart`; here are the monitor      *)
(* thread, the main thread and the workers that change the role, with      *)
(* everything they read and write separately.                              *)
(***************************************************************************)
EXTENDS Naturals

CONSTANTS
  PgFailThreshold, \* monitor.pg_fail_threshold
  Top,             \* where the counters stop counting (bound)
  Changes          \* how often PostgreSQL, the role or maintenance may change (bound)

ASSUME ThresholdAssumption ==
  /\ PgFailThreshold \in Nat \ {0} /\ Top \in Nat /\ Top > PgFailThreshold
  /\ Changes \in Nat

VARIABLES
  role,       \* NodeState.role: "primary" or "standby"
  pg,         \* the PostgreSQL server: "up" or "down"
  maint,      \* the maintenance flag file exists
  switching,  \* _switchover_active
  active,     \* PostgresMonitor._active
  snapshot,   \* PostgresMonitor._snapshot: "none", "ok" or "failed"
  failCount,  \* PostgresMonitor._fail_count
  check,      \* the monitor thread: next step
  outcome,    \* the monitor thread: the result of the check at hand
  loop,       \* the main thread: next step
  isPrimary,  \* the main thread: the role it read
  worker,     \* the switchover thread: next step
  failures,   \* failed checks since this node became primary or a check that
              \* began since then succeeded (history)
  own,        \* the check at hand began since this node became primary (history)
  rested,     \* the main thread has put the monitor to rest since this node
              \* became standby (history)
  left        \* changes still to come

monVars  == <<active, snapshot, failCount>>
checkVars == <<check, outcome>>
loopVars == <<loop, isPrimary>>
histVars == <<failures, own, rested>>
vars == <<role, pg, maint, switching, monVars, checkVars, loopVars, worker, histVars, left>>

TypeOK ==
  /\ role \in {"primary", "standby"} /\ pg \in {"up", "down"}
  /\ maint \in BOOLEAN /\ switching \in BOOLEAN
  /\ active \in BOOLEAN /\ snapshot \in {"none", "ok", "failed"} /\ failCount \in 0..Top
  /\ check \in {"idle", "probe", "store", "count"} /\ outcome \in {"ok", "failed"}
  /\ loop \in {"role", "active", "reset", "snapshot", "count", "decide", "demote", "deactivate"}
  /\ isPrimary \in BOOLEAN
  /\ worker \in {"idle", "deactivate", "reset", "stop", "demote", "end"}
  /\ failures \in 0..Top /\ own \in BOOLEAN /\ rested \in BOOLEAN
  /\ left \in 0..Changes

Counted(k) == IF k < Top THEN k + 1 ELSE k
Change == left > 0 /\ left' = left - 1

\* The second half of set_active(False), under the lock.
Reset == snapshot' = "none" /\ failCount' = 0

---------------------------------------------------------------------------
\* _loop of the monitor thread

BeginCheck ==
  /\ check = "idle" /\ active
  /\ check' = "probe" /\ own' = (role = "primary")
  /\ UNCHANGED <<role, pg, maint, switching, monVars, outcome, loopVars, worker, failures, rested, left>>

\* _check: pg_isready and the SQL probe; a server that is up may time out.
Probe ==
  /\ check = "probe" /\ check' = "store"
  /\ \/ outcome' = (IF pg = "up" THEN "ok" ELSE "failed") /\ UNCHANGED left
     \/ pg = "up" /\ Change /\ outcome' = "failed"
  /\ UNCHANGED <<role, pg, maint, switching, monVars, loopVars, worker, histVars>>

StoreSnapshot ==
  /\ check = "store" /\ check' = "count"
  /\ snapshot' = outcome
  /\ UNCHANGED <<role, pg, maint, switching, active, failCount, outcome, loopVars, worker, histVars, left>>

\* Under a lock of its own.  The check may have begun before the node became
\* primary: then it tells nothing of this primary.
CountFailures ==
  /\ check = "count" /\ check' = "idle"
  /\ failCount' = IF outcome = "failed" THEN Counted(failCount) ELSE 0
  /\ failures' = IF ~own THEN failures ELSE IF outcome = "failed" THEN Counted(failures) ELSE 0
  /\ UNCHANGED <<role, pg, maint, switching, active, snapshot, outcome, loopVars, worker, own, rested, left>>

---------------------------------------------------------------------------
\* _main_loop

ReadRole ==
  /\ loop = "role" /\ loop' = "active"
  /\ isPrimary' = (role = "primary")
  /\ UNCHANGED <<role, pg, maint, switching, monVars, checkVars, worker, histVars, left>>

\* Mutants: the monitor is only ever switched on, or only ever off.
SetActiveOnOnly ==
  /\ loop = "active" /\ loop' = IF isPrimary THEN "snapshot" ELSE "reset"
  /\ active' = (active \/ isPrimary)
  /\ UNCHANGED <<role, pg, maint, switching, snapshot, failCount, checkVars, isPrimary, worker, histVars, left>>

SetActiveOffOnly ==
  /\ loop = "active" /\ loop' = IF isPrimary THEN "snapshot" ELSE "reset"
  /\ active' = (active /\ isPrimary)
  /\ UNCHANGED <<role, pg, maint, switching, snapshot, failCount, checkVars, isPrimary, worker, histVars, left>>

\* set_active(is_primary()): the flag, and then the reset.
SetActive ==
  /\ loop = "active" /\ loop' = IF isPrimary THEN "snapshot" ELSE "reset"
  /\ active' = isPrimary
  /\ UNCHANGED <<role, pg, maint, switching, snapshot, failCount, checkVars, isPrimary, worker, histVars, left>>

\* Mutant: set_active(False) leaves the results of the last checks.
ResetNothing ==
  /\ loop = "reset" /\ loop' = "snapshot"
  /\ rested' = (role = "standby")
  /\ UNCHANGED <<role, pg, maint, switching, monVars, checkVars, isPrimary, worker, failures, own, left>>

LoopReset ==
  /\ loop = "reset" /\ loop' = "snapshot"
  /\ Reset
  /\ rested' = (role = "standby")
  /\ UNCHANGED <<role, pg, maint, switching, active, checkVars, isPrimary, worker, failures, own, left>>

ReadSnapshot ==
  /\ loop = "snapshot" /\ loop' = IF snapshot = "failed" THEN "count" ELSE "role"
  /\ UNCHANGED <<role, pg, maint, switching, monVars, checkVars, isPrimary, worker, histVars, left>>

ReadCount ==
  /\ loop = "count" /\ loop' = IF failCount >= PgFailThreshold THEN "decide" ELSE "role"
  /\ UNCHANGED <<role, pg, maint, switching, monVars, checkVars, isPrimary, worker, histVars, left>>

Decide ==
  /\ loop = "decide"
  /\ loop' = IF role = "primary" /\ ~switching /\ ~maint THEN "demote" ELSE "role"
  /\ UNCHANGED <<role, pg, maint, switching, monVars, checkVars, isPrimary, worker, histVars, left>>

\* _self_demote_after_pg_failure, which looks at the role again and ends in
\* set_active(False).
SelfDemote ==
  /\ loop = "demote"
  /\ IF role = "primary"
     THEN /\ role' = "standby" /\ rested' = FALSE /\ pg' = "down"
          /\ loop' = "deactivate" /\ isPrimary' = FALSE
     ELSE loop' = "role" /\ UNCHANGED <<role, rested, pg, isPrimary>>
  /\ UNCHANGED <<maint, switching, monVars, checkVars, worker, failures, own, left>>

Deactivate ==
  /\ loop = "deactivate" /\ loop' = "reset"
  /\ active' = FALSE
  /\ UNCHANGED <<role, pg, maint, switching, snapshot, failCount, checkVars, isPrimary, worker, histVars, left>>

---------------------------------------------------------------------------
\* The switchover thread of the primary, and promotions

BeginSwitchover ==
  /\ worker = "idle" /\ role = "primary" /\ ~switching /\ ~maint /\ Change
  /\ worker' = "deactivate" /\ switching' = TRUE
  /\ UNCHANGED <<role, pg, maint, monVars, checkVars, loopVars, histVars>>

\* _run_switchover: set_active(False), which the main thread may undo.
SwitchoverDeactivates ==
  /\ worker = "deactivate" /\ worker' = "reset"
  /\ active' = FALSE
  /\ UNCHANGED <<role, pg, maint, switching, snapshot, failCount, checkVars, loopVars, histVars, left>>

SwitchoverResets ==
  /\ worker = "reset" /\ worker' = "stop"
  /\ Reset
  /\ UNCHANGED <<role, pg, maint, switching, active, checkVars, loopVars, histVars, left>>

\* The engine stops PostgreSQL and becomes standby, or fails before or after it
\* stopped it.
SwitchoverStops ==
  /\ worker = "stop"
  /\ \/ pg' = "down" /\ worker' \in {"demote", "end"}
     \/ pg' = pg /\ worker' = "end"
  /\ UNCHANGED <<role, maint, switching, monVars, checkVars, loopVars, histVars, left>>

SwitchoverDemotes ==
  /\ worker = "demote" /\ worker' = "end"
  /\ role' = "standby" /\ rested' = (role = "standby" /\ rested)
  /\ UNCHANGED <<pg, maint, switching, monVars, checkVars, loopVars, failures, own, left>>

SwitchoverEnds ==
  /\ worker = "end" /\ worker' = "idle"
  /\ switching' = FALSE
  /\ UNCHANGED <<role, pg, maint, monVars, checkVars, loopVars, histVars, left>>

\* A failover or switchover starts PostgreSQL here and then sets the role.  It
\* attaches a disk first, so the main thread has come round since the node
\* became standby.
StartPostgres ==
  /\ role = "standby" /\ pg = "down" /\ pg' = "up" /\ Change
  /\ UNCHANGED <<role, maint, switching, monVars, checkVars, loopVars, worker, histVars>>

Promote ==
  /\ role = "standby" /\ pg = "up" /\ worker = "idle" /\ rested
  /\ role' = "primary" /\ failures' = 0 /\ own' = FALSE
  /\ UNCHANGED <<pg, maint, switching, monVars, checkVars, loopVars, worker, rested, left>>

\* PostgreSQL crashes or comes back, maintenance begins or ends.
Disturb ==
  /\ Change
  /\ \/ role = "primary" /\ pg' \in {"up", "down"} \ {pg} /\ UNCHANGED maint
     \/ maint' = ~maint /\ UNCHANGED pg
  /\ UNCHANGED <<role, switching, monVars, checkVars, loopVars, worker, histVars>>

---------------------------------------------------------------------------
\* The specification

\* Where run() enters the main loop: the election is over, reset() and
\* set_active(role) are done.
Init ==
  /\ role \in {"primary", "standby"} /\ pg = (IF role = "primary" THEN "up" ELSE "down")
  /\ maint = FALSE /\ switching = FALSE
  /\ active = (role = "primary") /\ snapshot = "none" /\ failCount = 0
  /\ check = "idle" /\ outcome = "ok"
  /\ loop = "role" /\ isPrimary = FALSE /\ worker = "idle"
  /\ failures = 0 /\ own = FALSE /\ rested = (role = "standby")
  /\ left = Changes

MonitorStep == BeginCheck \/ Probe \/ StoreSnapshot \/ CountFailures
LoopStep == \/ ReadRole \/ SetActive \/ LoopReset \/ ReadSnapshot \/ ReadCount \/ Decide
            \/ SelfDemote \/ Deactivate
WorkerStep == \/ BeginSwitchover \/ SwitchoverDeactivates \/ SwitchoverResets \/ SwitchoverStops
              \/ SwitchoverDemotes \/ SwitchoverEnds \/ StartPostgres \/ Promote

Next == MonitorStep \/ LoopStep \/ WorkerStep \/ Disturb

Spec == Init /\ [][Next]_vars

\* The monitor and the main thread keep running.
FairSpec == Spec /\ WF_vars(MonitorStep) /\ WF_vars(LoopStep)

---------------------------------------------------------------------------
\* Properties

\* PostgreSQL is given up only after as many failed checks in a row as the
\* configuration asks for, all but at most one of which began since this node
\* became primary: nothing but one check that was under way survives a change of
\* role, and no successful check in between is overlooked.
EnoughFailures ==
  [][loop = "count" /\ loop' = "decide" /\ role = "primary" => failures >= PgFailThreshold - 1]_vars

\* A primary whose PostgreSQL is down for good gives up, unless a switchover
\* stays in progress or the operator has frozen the node, whatever set_active
\* calls of two threads do to the monitor.
DeadPrimaryGivesUp == ~<>[](role = "primary" /\ pg = "down" /\ ~switching /\ ~maint)

\* The monitor comes to rest on a standby: no result of an old check is left for
\* the next time the node is primary.
StandbyForgets == <>[](role = "standby") => <>[](~active /\ failCount = 0 /\ snapshot = "none")
=============================================================================
