--------------------------- MODULE PgMonitorProofs ---------------------------
(***************************************************************************)
(* How far the failure counter can be ahead of what was observed, for      *)
(* every threshold.                                                        *)
(***************************************************************************)
EXTENDS PgMonitor, TLAPS

Stale    == IF check # "idle" /\ ~own THEN 1 ELSE 0
UnderWay == IF check # "idle" THEN 1 ELSE 0

\* On a primary the counter is ahead by at most one, and a check from before is
\* still entitled to that one.  On a standby that has been put to rest at most
\* one check is counted or under way, and no other can begin: the main thread
\* reads the role afresh before it switches the monitor on.
CountInv ==
  /\ TypeOK
  /\ role = "primary" => failCount + Stale <= failures + 1
  /\ role = "standby" /\ rested => ~active /\ failCount + UnderWay <= 1
  /\ role = "standby" /\ rested /\ loop = "active" => ~isPrimary
  /\ loop = "reset" => ~active

LEMMA TypingInit == Init => TypeOK
<1> SUFFICES ASSUME Init PROVE TypeOK
  OBVIOUS
<1>1. failCount \in 0..Top /\ failures \in 0..Top /\ left \in 0..Changes
  BY ThresholdAssumption DEF Init
<1>2. role = "primary" \/ role = "standby"
  BY DEF Init
<1> QED
  BY <1>1, <1>2 DEF Init, TypeOK

FlagsOK == /\ maint \in BOOLEAN /\ switching \in BOOLEAN /\ active \in BOOLEAN
           /\ isPrimary \in BOOLEAN /\ own \in BOOLEAN /\ rested \in BOOLEAN
ValuesOK ==
  /\ role \in {"primary", "standby"} /\ pg \in {"up", "down"}
  /\ snapshot \in {"none", "ok", "failed"} /\ failCount \in 0..Top
  /\ check \in {"idle", "probe", "store", "count"} /\ outcome \in {"ok", "failed"}
  /\ loop \in {"role", "active", "reset", "snapshot", "count", "decide", "demote", "deactivate"}
  /\ worker \in {"idle", "deactivate", "reset", "stop", "demote", "end"}
  /\ failures \in 0..Top /\ left \in 0..Changes

\* Every step keeps the types.
LEMMA TypingStep ==
  ASSUME TypeOK, [Next]_vars
  PROVE  TypeOK'
<1> USE ThresholdAssumption DEF TypeOK
<1>1. CASE BeginCheck
  BY <1>1 DEF BeginCheck, monVars, loopVars
<1>2. CASE Probe
  BY <1>2 DEF Probe, Change, monVars, loopVars, histVars
<1>3. CASE StoreSnapshot
  BY <1>3 DEF StoreSnapshot, loopVars, histVars
<1>4. CASE CountFailures
  BY <1>4 DEF CountFailures, Counted, loopVars
<1>5. CASE ReadRole
  BY <1>5 DEF ReadRole, monVars, checkVars, histVars
<1>6. CASE SetActive
  BY <1>6 DEF SetActive, checkVars, histVars
<1>7. CASE LoopReset
  BY <1>7 DEF LoopReset, Reset, checkVars
<1>8. CASE ReadSnapshot
  BY <1>8 DEF ReadSnapshot, monVars, checkVars, histVars
<1>9. CASE ReadCount
  BY <1>9 DEF ReadCount, monVars, checkVars, histVars
<1>10. CASE Decide
  BY <1>10 DEF Decide, monVars, checkVars, histVars
<1>11. CASE SelfDemote
  <2>1. FlagsOK'
    BY <1>11 DEF FlagsOK, SelfDemote, monVars, checkVars
  <2>2. ValuesOK'
    BY <1>11 DEF ValuesOK, SelfDemote, monVars, checkVars
  <2> QED
    BY <2>1, <2>2 DEF FlagsOK, ValuesOK
<1>12. CASE Deactivate
  <2>1. FlagsOK'
    BY <1>12 DEF FlagsOK, Deactivate, checkVars, histVars
  <2>2. ValuesOK'
    BY <1>12 DEF ValuesOK, Deactivate, checkVars, histVars
  <2> QED
    BY <2>1, <2>2 DEF FlagsOK, ValuesOK
<1>13. CASE BeginSwitchover
  BY <1>13 DEF BeginSwitchover, Change, monVars, checkVars, loopVars, histVars
<1>14. CASE SwitchoverDeactivates
  <2>1. FlagsOK'
    BY <1>14 DEF FlagsOK, SwitchoverDeactivates, checkVars, loopVars, histVars
  <2>2. ValuesOK'
    BY <1>14 DEF ValuesOK, SwitchoverDeactivates, checkVars, loopVars, histVars
  <2> QED
    BY <2>1, <2>2 DEF FlagsOK, ValuesOK
<1>15. CASE SwitchoverResets
  <2>1. FlagsOK'
    BY <1>15 DEF FlagsOK, SwitchoverResets, Reset, checkVars, loopVars, histVars
  <2>2. ValuesOK'
    BY <1>15 DEF ValuesOK, SwitchoverResets, Reset, checkVars, loopVars, histVars
  <2> QED
    BY <2>1, <2>2 DEF FlagsOK, ValuesOK
<1>16. CASE SwitchoverStops
  BY <1>16 DEF SwitchoverStops, monVars, checkVars, loopVars, histVars
<1>17. CASE SwitchoverDemotes
  BY <1>17 DEF SwitchoverDemotes, monVars, checkVars, loopVars
<1>18. CASE SwitchoverEnds
  <2>1. FlagsOK'
    BY <1>18 DEF FlagsOK, SwitchoverEnds, monVars, checkVars, loopVars, histVars
  <2>2. ValuesOK'
    BY <1>18 DEF ValuesOK, SwitchoverEnds, monVars, checkVars, loopVars, histVars
  <2> QED
    BY <2>1, <2>2 DEF FlagsOK, ValuesOK
<1>19. CASE StartPostgres
  BY <1>19 DEF StartPostgres, Change, monVars, checkVars, loopVars, histVars
<1>20. CASE Promote
  <2>1. FlagsOK'
    BY <1>20 DEF FlagsOK, Promote, monVars, checkVars, loopVars
  <2>2. ValuesOK'
    BY <1>20 DEF ValuesOK, Promote, monVars, checkVars, loopVars
  <2> QED
    BY <2>1, <2>2 DEF FlagsOK, ValuesOK
<1>21. CASE Disturb
  <2>1. FlagsOK'
    BY <1>21 DEF FlagsOK, Disturb, Change, monVars, checkVars, loopVars, histVars
  <2>2. ValuesOK'
    BY <1>21 DEF ValuesOK, Disturb, Change, monVars, checkVars, loopVars, histVars
  <2> QED
    BY <2>1, <2>2 DEF FlagsOK, ValuesOK
<1>22. CASE UNCHANGED vars
  BY <1>22 DEF vars, monVars, checkVars, loopVars, histVars
<1> QED
  BY <1>1, <1>2, <1>3, <1>4, <1>5, <1>6, <1>7, <1>8, <1>9, <1>10, <1>11, <1>12, <1>13, <1>14, <1>15, <1>16, <1>17, <1>18, <1>19, <1>20, <1>21, <1>22 DEF Next, MonitorStep, LoopStep, WorkerStep

LEMMA CountInit == Init => CountInv
<1> SUFFICES ASSUME Init PROVE CountInv
  OBVIOUS
<1>1. TypeOK
  BY TypingInit
<1>2. failCount = 0 /\ failures = 0 /\ check = "idle" /\ loop = "role"
  BY DEF Init
<1>3. role = "standby" => ~active
  BY DEF Init
<1> QED
  BY <1>1, <1>2, <1>3 DEF CountInv, Stale, UnderWay

\* Every step keeps the counter in bounds.
LEMMA CountStep ==
  ASSUME CountInv, [Next]_vars
  PROVE  CountInv'
<1> USE DEF CountInv
<1>t. TypeOK /\ TypeOK'
  BY TypingStep
<1>c. failCount \in 0..Top /\ failures \in 0..Top /\ Top \in Nat
  BY <1>t, ThresholdAssumption DEF TypeOK
<1> USE DEF Stale, UnderWay
<1>1. CASE BeginCheck
  BY <1>1, <1>t, <1>c DEF BeginCheck, monVars, loopVars
<1>2. CASE Probe
  BY <1>2, <1>t, <1>c DEF Probe, Change, monVars, loopVars, histVars
<1>3. CASE StoreSnapshot
  BY <1>3, <1>t, <1>c DEF StoreSnapshot, loopVars, histVars
<1>4. CASE CountFailures
  BY <1>4, <1>t, <1>c DEF CountFailures, Counted, loopVars
<1>5. CASE ReadRole
  BY <1>5, <1>t, <1>c DEF ReadRole, monVars, checkVars, histVars
<1>6. CASE SetActive
  BY <1>6, <1>t, <1>c DEF SetActive, checkVars, histVars
<1>7. CASE LoopReset
  BY <1>7, <1>t, <1>c DEF LoopReset, Reset, checkVars
<1>8. CASE ReadSnapshot
  BY <1>8, <1>t, <1>c DEF ReadSnapshot, monVars, checkVars, histVars
<1>9. CASE ReadCount
  BY <1>9, <1>t, <1>c DEF ReadCount, monVars, checkVars, histVars
<1>10. CASE Decide
  BY <1>10, <1>t, <1>c DEF Decide, monVars, checkVars, histVars
<1>11. CASE SelfDemote
  BY <1>11, <1>t, <1>c DEF SelfDemote, monVars, checkVars
<1>12. CASE Deactivate
  BY <1>12, <1>t, <1>c DEF Deactivate, checkVars, histVars
<1>13. CASE BeginSwitchover
  BY <1>13, <1>t, <1>c DEF BeginSwitchover, Change, monVars, checkVars, loopVars, histVars
<1>14. CASE SwitchoverDeactivates
  BY <1>14, <1>t, <1>c DEF SwitchoverDeactivates, checkVars, loopVars, histVars
<1>15. CASE SwitchoverResets
  BY <1>15, <1>t, <1>c DEF SwitchoverResets, Reset, checkVars, loopVars, histVars
<1>16. CASE SwitchoverStops
  BY <1>16, <1>t, <1>c DEF SwitchoverStops, monVars, checkVars, loopVars, histVars
<1>17. CASE SwitchoverDemotes
  BY <1>17, <1>t, <1>c DEF SwitchoverDemotes, monVars, checkVars, loopVars
<1>18. CASE SwitchoverEnds
  BY <1>18, <1>t, <1>c DEF SwitchoverEnds, monVars, checkVars, loopVars, histVars
<1>19. CASE StartPostgres
  BY <1>19, <1>t, <1>c DEF StartPostgres, Change, monVars, checkVars, loopVars, histVars
<1>20. CASE Promote
  BY <1>20, <1>t, <1>c DEF Promote, monVars, checkVars, loopVars
<1>21. CASE Disturb
  BY <1>21, <1>t, <1>c DEF Disturb, Change, monVars, checkVars, loopVars, histVars
<1>22. CASE UNCHANGED vars
  BY <1>22, <1>t, <1>c DEF vars, monVars, checkVars, loopVars, histVars
<1> QED
  BY <1>1, <1>2, <1>3, <1>4, <1>5, <1>6, <1>7, <1>8, <1>9, <1>10, <1>11, <1>12, <1>13, <1>14, <1>15, <1>16, <1>17, <1>18, <1>19, <1>20, <1>21, <1>22 DEF Next, MonitorStep, LoopStep, WorkerStep

LEMMA CountAlways == Spec => []CountInv
BY CountInit, CountStep, PTL DEF Spec

\* The types of the monitor, the main loop and the switchover thread.
THEOREM PgMonitorTyped == Spec => []TypeOK
<1>1. CountInv => TypeOK
  BY DEF CountInv
<1> QED
  BY <1>1, CountAlways, PTL

\* Whatever the threshold and the interleaving of the three threads, PostgreSQL
\* is given up on at least PgFailThreshold - 1 failed checks of this primary.
THEOREM ThresholdMet == Spec => EnoughFailures
<1> DEFINE Enough == loop = "count" /\ loop' = "decide" /\ role = "primary"
                       => failures >= PgFailThreshold - 1
<1>1. ASSUME CountInv, [Next]_vars, loop = "count", loop' = "decide", role = "primary"
      PROVE  failures >= PgFailThreshold - 1
  <2>1. ReadCount
    BY <1>1 DEF Next, MonitorStep, BeginCheck, Probe, StoreSnapshot, CountFailures, LoopStep, ReadRole,
            SetActive, LoopReset, ReadSnapshot, Decide, SelfDemote, Deactivate, WorkerStep,
            BeginSwitchover, SwitchoverDeactivates, SwitchoverResets, SwitchoverStops,
            SwitchoverDemotes, SwitchoverEnds, StartPostgres, Promote, Disturb, vars, loopVars
  <2>2. failCount >= PgFailThreshold
    BY <1>1, <2>1 DEF ReadCount
  <2> QED
    BY <1>1, <2>2, ThresholdAssumption DEF CountInv, TypeOK, Stale
<1>2. CountInv /\ [Next]_vars => [Enough]_vars
  BY <1>1
<1> QED
  BY <1>2, CountAlways, PTL DEF Spec, EnoughFailures
=============================================================================
