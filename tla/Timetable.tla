------------------------------ MODULE Timetable ------------------------------
(***************************************************************************)
(* What the schedules promise, without rows, handlers, a cron or failures: *)
(* a schedule is created once and ends once, with its deletion or that of  *)
(* its function; in each life of the process it is armed at most once, and *)
(* disarmed only when it has ended; it runs one execution at a time; and   *)
(* one that has ended is never armed again after a restart.                *)
(***************************************************************************)
CONSTANT Schedules

VARIABLES
    life,   \* "new", "live", or "ended"
    alarm,  \* "pending", "armed", or "spent": used up in this life of the process
    running \* the schedules that have an execution under way

timetableVars == <<life, alarm, running>>

Live == {s \in Schedules : life[s] = "live"}

Init ==
    /\ life = [s \in Schedules |-> "new"]
    /\ alarm = [s \in Schedules |-> "pending"]
    /\ running = {}

\* A creation that fails half-way ends what it creates.
Create(s) ==
    /\ life[s] = "new"
    /\ \/ life' = [life EXCEPT ![s] = "live"] /\ UNCHANGED alarm
       \/ /\ life' = [life EXCEPT ![s] = "ended"]
          /\ alarm' = [alarm EXCEPT ![s] = "spent"] \/ UNCHANGED alarm
    /\ UNCHANGED running

End ==
    /\ \E S \in SUBSET Live :
          life' = [s \in Schedules |-> IF s \in S THEN "ended" ELSE life[s]]
    /\ UNCHANGED <<alarm, running>>

\* One that ends during its own creation may be armed for the rest of this life.
Arm(s) ==
    /\ life[s] # "new" /\ alarm[s] = "pending"
    /\ alarm' = [alarm EXCEPT ![s] = "armed"]
    /\ UNCHANGED <<life, running>>

\* Arming it failed: it ends, or waits for the next restart.
Fail(s) ==
    /\ life[s] = "live" /\ alarm[s] = "pending"
    /\ alarm' = [alarm EXCEPT ![s] = "spent"]
    /\ life' = [life EXCEPT ![s] = "ended"] \/ UNCHANGED life
    /\ UNCHANGED running

Disarm(s) ==
    /\ life[s] = "ended" /\ alarm[s] = "armed"
    /\ alarm' = [alarm EXCEPT ![s] = "spent"]
    /\ UNCHANGED <<life, running>>

Run(s) ==
    /\ alarm[s] = "armed" /\ s \notin running
    /\ running' = running \cup {s}
    /\ UNCHANGED <<life, alarm>>

Finish(s) ==
    /\ s \in running
    /\ running' = running \ {s}
    /\ UNCHANGED <<life, alarm>>

\* The creations that were under way end with the process.
Restart ==
    /\ \E S \in SUBSET {s \in Schedules : life[s] = "new"} :
          life' = [s \in Schedules |-> IF s \in S THEN "ended" ELSE life[s]]
    /\ alarm' = [s \in Schedules |-> IF life'[s] = "ended" THEN "spent" ELSE "pending"]
    /\ running' = {}

Next ==
    \/ \E s \in Schedules :
          Create(s) \/ Arm(s) \/ Fail(s) \/ Disarm(s) \/ Run(s) \/ Finish(s)
    \/ End \/ Restart

Spec == Init /\ [][Next]_timetableVars

=============================================================================
