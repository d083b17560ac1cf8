------------------------------- MODULE MCPgHa -------------------------------
(***************************************************************************)
(* Values for the model checker: the scenarios of each run.                *)
(***************************************************************************)
EXTENDS PgHaProperties

\* One disturbance of each of the given kinds, and so many failed operations
\* out of the given ones.
Patiently(kinds, faults, ops) ==
  [left |-> [k \in BudgetKind |-> IF k \in kinds THEN 1
                                  ELSE IF k = "fault" THEN faults ELSE 0],
   faulty |-> ops, slots |-> Thread, patient |-> TRUE]
Anytime(kinds, faults, ops) == [Patiently(kinds, faults, ops) EXCEPT !.patient = FALSE]

OverlapFaults == {"vip", "query", "mount", "kill"}
RescueFaults  == Operation \ {"udp", "monitor"}
SwitchFaults  == RescueFaults \ {"vip", "stop", "attach"}
VmFaults      == {"query", "lookup", "stop", "kill", "umount", "tcp", "udp"}

NothingHappens   == {Patiently({}, 0, {})}
RebootWithFault  == {Patiently({"vm", "boot"}, 1, Operation)}
CrashOnly        == {Patiently({"pg"}, 0, {})}
MaintainAndSwitch == {Patiently({"maint", "switchover"}, 0, {})}

Serially(scenario) == [scenario EXCEPT !.slots = {CHOOSE t \in Thread : TRUE}]

DaemonRestarts   == [Patiently({}, 0, {}) EXCEPT !.left["daemon"] = 2]
SwitchoverFault  == Patiently({"switchover"}, 1, SwitchFaults)
Rescues == {Serially(Patiently({"pg"}, 1, RescueFaults)),
            Patiently({"pg"}, 1, RescueFaults \ {"start"}),
            Anytime({"vm"}, 2, VmFaults), DaemonRestarts}
Switchover == {Patiently({"switchover"}, 0, {})}

FaultsAndHandovers ==
  {Serially(Patiently({"pg"}, 2, RescueFaults)), Serially(Patiently({"maint", "net"}, 0, {})),
   Serially(SwitchoverFault), Serially(Patiently({"pg", "switchover"}, 1, OverlapFaults)),
   Patiently({"pg"}, 3, {"mount"})}
=============================================================================
