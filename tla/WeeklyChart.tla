----------------------------- MODULE WeeklyChart -----------------------------
(***************************************************************************)
(* The chart "completion rate per week" of the statistics pages            *)
(* (src/lib/pages/parent/statistics_page.dart:277-339, and the same code   *)
(* in src/lib/pages/children/my_statistics_page.dart): one pass over the   *)
(* chores of the month shown counts, per type and week, the chores and the *)
(* finished ones; a bar is the share of the latter in percent.             *)
(*                                                                         *)
(* The counters work, house, sport and art are total[t], the counters      *)
(* finished_work, ... are finishedOf[t], with t one of WORK_TYPES.         *)
(***************************************************************************)
EXTENDS Integers, Sequences, FiniteSets

CONSTANTS WorkTypes,   \* WORK_TYPES, the four types of chores
          OtherTypes,  \* what else the type field of a stored chore may hold
          Days,        \* days of the month on which there are chores
          MaxJobs      \* bound: chores in the month shown

ASSUME DaysAssumption == Days \subseteq 1..31
ASSUME MaxJobsAssumption == MaxJobs \in Nat

Types == WorkTypes \union OtherTypes
Job == [type : Types, day : Days, finish : BOOLEAN]

VARIABLES jobs,       \* _job_record, the chores of the month shown
          i,          \* the chore the loop looks at next
          total,      \* total[t][w]: the chores of type t in week w
          finishedOf  \* finishedOf[t][w]: those of them that are finished

chartVars == <<jobs, i, total, finishedOf>>

Weeks == 1..4
NoJobs == [t \in WorkTypes |-> [w \in Weeks |-> 0]]

\* Mutated: the last days of the month have no week of their own.
getWeekOfMonthCeil(day) == (day + 6) \div 7

\* (day / 7).ceil(), and week 4 for the days after the 28th.
getWeekOfMonth(day) == IF day > 28 THEN 4 ELSE (day + 6) \div 7

ChartInit ==
  /\ jobs \in UNION {[1..n -> Job] : n \in 0..MaxJobs}
  /\ i = 1
  /\ total = NoJobs
  /\ finishedOf = NoJobs

\* One turn of the loop; a type or a week that is not in the chart is skipped.
Count ==
  LET job == jobs[i]
      w == getWeekOfMonth(job.day)
  IN
  /\ i <= Len(jobs)
  /\ i' = i + 1
  /\ total' = IF job.type \in WorkTypes /\ w \in Weeks
              THEN [total EXCEPT ![job.type][w] = @ + 1] ELSE total
  /\ finishedOf' = IF job.type \in WorkTypes /\ w \in Weeks /\ job.finish
                   THEN [finishedOf EXCEPT ![job.type][w] = @ + 1] ELSE finishedOf
  /\ UNCHANGED jobs

ChartSpec == ChartInit /\ [][Count]_chartVars

\* Mutated: no guard against a week without chores.
BarUnguarded(t, w) == [num |-> finishedOf[t][w] * 100, den |-> total[t][w]]

\* The height of a bar as a fraction: toY is 0 for a week without chores.
Bar(t, w) ==
  IF total[t][w] = 0 THEN [num |-> 0, den |-> 1]
  ELSE [num |-> finishedOf[t][w] * 100, den |-> total[t][w]]

\* The chart: a group of bars for every week.
barGroups == [w \in Weeks |-> [t \in WorkTypes |-> Bar(t, w)]]

-----------------------------------------------------------------------------
(* Properties *)

\* The chores among the first i - 1 that belong to type t and to the days ds.
Seen(t, ds) == {n \in 1..(i - 1) : jobs[n].type = t /\ jobs[n].day \in ds}
SeenFinished(t, ds) == {n \in Seen(t, ds) : jobs[n].finish}

\* The days of the weeks of the chart: the fourth goes on to the end of the
\* month.
DaysOfWeek(w) ==
  CASE w = 1 -> 1..7 [] w = 2 -> 8..14 [] w = 3 -> 15..21 [] w = 4 -> 22..31

\* Type correctness.
ChartTypeOK ==
  /\ jobs \in Seq(Job)
  /\ i \in 1..(Len(jobs) + 1)
  /\ total \in [WorkTypes -> [Weeks -> Nat]]
  /\ finishedOf \in [WorkTypes -> [Weeks -> Nat]]

\* Every counter is exactly the number of chores of its type in the days of its
\* week that the loop has passed, and of the finished ones among them: no chore
\* of the 29th to the 31st is left out and none is counted twice
\* (statistics_page.dart:300-335 and 633-640).
ChartIsExact ==
  \A t \in WorkTypes, w \in Weeks :
    /\ total[t][w] = Cardinality(Seen(t, DaysOfWeek(w)))
    /\ finishedOf[t][w] = Cardinality(SeenFinished(t, DaysOfWeek(w)))

\* A bar stays on the axis, which ends at 100 (maxY), and is a number: no week
\* divides by zero, none has more finished chores than chores.
BarsOnAxis ==
  \A t \in WorkTypes, w \in Weeks :
    LET bar == barGroups[w][t]
    IN  bar.den > 0 /\ bar.num \in 0..(100 * bar.den)

=============================================================================
