----------------------------- MODULE MCSchedules ------------------------------
(* Schedules for TLC: the patches a client may send. *)
EXTENDS Schedules

Touch == [cron |-> Keep, enabled |-> Keep, task |-> Keep]   \* a new title
Disable == [Touch EXCEPT !.enabled = FALSE]
Enable == [Touch EXCEPT !.enabled = TRUE]
Reschedule(cron) == [Touch EXCEPT !.cron = cron]
Rewrite(task) == [Touch EXCEPT !.task = task]

AllChanges ==
  {Touch, Disable, Enable} \cup {Reschedule(cron) : cron \in Crons}
    \cup {Rewrite(task) : task \in Tasks}

SomeChanges == {Touch, Disable, Enable, Reschedule({2})}
===============================================================================
