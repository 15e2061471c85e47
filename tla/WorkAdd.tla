------------------------------- MODULE WorkAdd -------------------------------
(***************************************************************************)
(* WorkAddPage (src/lib/pages/parent/work_add_page.dart): the form with    *)
(* which a parent gives a child a chore on several dates.  One tap on      *)
(* "add" checks the form and runs createJob for one date after the other;  *)
(* try/catch/finally tells the parent how it ended.  The chores are those  *)
(* of Board, the specification JobBoard implements; a key is the chore on  *)
(* one date.                                                               *)
(*                                                                         *)
(* The progress overlay lets taps through, so that a second tap can start  *)
(* the same batch while the first one runs.                                *)
(***************************************************************************)
EXTENDS Naturals, Sequences, FiniteSets

CONSTANTS Taps,       \* taps on "add": 1..n, in this order
          Keys,       \* the dates, each with the chore typed into the form
          MaxDates,   \* bound: dates in one batch
          Amounts,    \* numbers typed into the field for the points
          MaxAttempts, Unreliable,  \* see Board
          MayFail     \* TRUE: createJob may throw

ASSUME TapsAssumption == Taps \subseteq Nat \ {0} /\ IsFiniteSet(Taps)
ASSUME MaxDatesAssumption == MaxDates \in Nat \ {0}

Calls == Taps \X (1..MaxDates)

\* The lists of dates the calendar may return: no date twice.
Batches == {b \in UNION {[1..n -> Keys] : n \in 1..MaxDates} :
              \A m, n \in DOMAIN b : b[m] = b[n] => m = n}

\* The amount in the field: a number, or text that is none (empty at first).
NoNumber == [number |-> FALSE, value |-> 0]
Texts == {NoNumber} \union {[number |-> TRUE, value |-> n] : n \in Amounts}

VARIABLES open, finished, request, jobStatus, hits, \* see Board
          child,    \* TRUE: selectedChild is not null
          text,     \* the text in the field for the points
          dates,    \* selectedDate
          routes,   \* 2: the form is on top, 1: the page below it, 0: further down
          stage,    \* stage[t]: what became of tap t
          batch,    \* batch[t]: the dates the loop of tap t runs over
          at,       \* at[t]: the date it is at
          told,     \* told[t]: the messages tap t has shown
          spinner,  \* EasyLoading is shown
          early     \* history: taps made while the loop of another one ran

board == <<open, finished, request, jobStatus, hits>>
form == <<child, text, dates>>
run == <<routes, stage, batch, at, told, spinner, early>>
vars == <<board, form, run>>

Jobs == INSTANCE Board WITH InitialCounts <- {0}, status <- jobStatus

Init ==
  /\ Jobs!Init
  /\ child \in BOOLEAN
  /\ text = NoNumber
  /\ dates \in {b \in Batches : Len(b) = 1}
  /\ routes = 2
  /\ stage = [t \in Taps |-> "none"]
  /\ batch = [t \in Taps |-> <<>>]
  /\ at = [t \in Taps |-> 0]
  /\ told = [t \in Taps |-> {}]
  /\ spinner = FALSE
  /\ early = {}

Running(t) == stage[t] = "running"
Call(t) == <<t, at[t]>>

-----------------------------------------------------------------------------
(* The form *)

\* The listener delivers the children (external); build selects the first.
ChildrenArrive ==
  /\ ~child /\ child' = TRUE
  /\ UNCHANGED <<board, text, dates, run>>

EnterAmount(x) ==
  /\ routes = 2
  /\ text' = x
  /\ UNCHANGED <<board, child, dates, run>>

PickDates(b) ==
  /\ routes = 2
  /\ dates' = b
  /\ UNCHANGED <<board, child, text, run>>

\* int.tryParse(text) ?? 0
Parsed == IF text.number THEN text.value ELSE 0

\* A child must be selected and the points must be positive.
Valid == child /\ Parsed > 0

MayTap(t) ==
  /\ routes = 2
  /\ stage[t] = "none"
  /\ \A u \in Taps : u < t => stage[u] # "none"

\* "add" with a form that is not filled in: a message and nothing else.
TapRefused(t) ==
  /\ MayTap(t) /\ ~Valid
  /\ stage' = [stage EXCEPT ![t] = "refused"]
  /\ told' = [told EXCEPT ![t] = {"refused"}]
  /\ UNCHANGED <<board, form, routes, batch, at, spinner, early>>

\* "add": the loop starts with the first date.
TapAdd(t) ==
  /\ MayTap(t) /\ Valid
  /\ spinner' = TRUE
  /\ stage' = [stage EXCEPT ![t] = "running"]
  /\ batch' = [batch EXCEPT ![t] = dates]
  /\ at' = [at EXCEPT ![t] = 1]
  /\ Jobs!Begin(<<t, 1>>, "create", dates[1])
  /\ early' = IF \E u \in Taps : Running(u) THEN early \union {t} ELSE early
  /\ UNCHANGED <<form, routes, told>>

\* The parent leaves the form, by the back button.
Leave ==
  /\ routes = 2
  /\ routes' = 1
  /\ UNCHANGED <<board, form, stage, batch, at, told, spinner, early>>

-----------------------------------------------------------------------------
(* The loop *)

\* The transaction of createJob, see Board.
JobStep(t) ==
  /\ Running(t)
  /\ \/ Jobs!Succeed(Call(t)) \/ Jobs!ChangeUnseen(Call(t))
     \/ MayFail /\ Jobs!Fail(Call(t))
  /\ UNCHANGED <<form, run>>

\* createJob returned: on to the next date.
Continue(t) ==
  /\ Running(t)
  /\ jobStatus[Call(t)] = "ok" /\ at[t] < Len(batch[t])
  /\ at' = [at EXCEPT ![t] = @ + 1]
  /\ Jobs!Begin(<<t, at[t] + 1>>, "create", batch[t][at[t] + 1])
  /\ UNCHANGED <<form, routes, stage, batch, told, spinner, early>>

\* Mutated: the loop ends one date early.
FinishEarly(t) ==
  /\ Running(t)
  /\ jobStatus[Call(t)] = "ok" /\ at[t] >= Len(batch[t]) - 1
  /\ told' = [told EXCEPT ![t] = {"done"}]
  /\ routes' = IF routes > 0 THEN routes - 1 ELSE 0
  /\ spinner' = FALSE
  /\ stage' = [stage EXCEPT ![t] = "end"]
  /\ UNCHANGED <<board, form, batch, at, early>>

\* Mutated: the form stays.
FinishStays(t) ==
  /\ Running(t)
  /\ jobStatus[Call(t)] = "ok" /\ at[t] = Len(batch[t])
  /\ told' = [told EXCEPT ![t] = {"done"}]
  /\ UNCHANGED routes
  /\ spinner' = FALSE
  /\ stage' = [stage EXCEPT ![t] = "end"]
  /\ UNCHANGED <<board, form, batch, at, early>>

\* All dates are done: the message, Navigator.pop and, finally, dismiss.
Finish(t) ==
  /\ Running(t)
  /\ jobStatus[Call(t)] = "ok" /\ at[t] = Len(batch[t])
  /\ told' = [told EXCEPT ![t] = {"done"}]
  /\ routes' = IF routes > 0 THEN routes - 1 ELSE 0
  /\ spinner' = FALSE
  /\ stage' = [stage EXCEPT ![t] = "end"]
  /\ UNCHANGED <<board, form, batch, at, early>>

\* Mutated: an error is caught and nothing is told.
CatchErrorSilent(t) ==
  /\ Running(t)
  /\ jobStatus[Call(t)] = "failed"
  /\ spinner' = FALSE
  /\ stage' = [stage EXCEPT ![t] = "end"]
  /\ UNCHANGED <<board, form, routes, batch, at, told, early>>

\* createJob threw, or, the form being gone, Provider.of or Navigator.of did (once
\* its exit animation is over): the error message and, finally, dismiss.
CatchError(t) ==
  LET gone == routes < 2 /\ jobStatus[Call(t)] = "ok"
      last == at[t] = Len(batch[t])
  IN
  /\ Running(t)
  /\ jobStatus[Call(t)] = "failed" \/ gone
  /\ told' = [told EXCEPT ![t] = IF gone /\ last THEN {"done", "failed"}
                                 ELSE {"failed"}]
  /\ spinner' = FALSE
  /\ stage' = [stage EXCEPT ![t] = "end"]
  /\ UNCHANGED <<board, form, routes, batch, at, early>>

LoopStep(t) == JobStep(t) \/ Continue(t) \/ Finish(t) \/ CatchError(t)

Next ==
  \/ ChildrenArrive \/ Leave
  \/ \E x \in Texts : EnterAmount(x)
  \/ \E b \in Batches : PickDates(b)
  \/ \E t \in Taps : TapRefused(t) \/ TapAdd(t) \/ LoopStep(t)

Spec == Init /\ [][Next]_vars

\* Requests are answered and a loop that can go on does; nothing is assumed of
\* the parent.
FairSpec == Spec /\ \A t \in Taps : WF_vars(LoopStep(t))

-----------------------------------------------------------------------------
(* Properties *)

\* Type correctness of the page's own state; a loop never leaves its dates.
TypeOK ==
  /\ child \in BOOLEAN /\ spinner \in BOOLEAN
  /\ text \in Texts /\ dates \in Batches
  /\ routes \in 0..2
  /\ stage \in [Taps -> {"none", "refused", "running", "end"}]
  /\ \A t \in Taps : IF stage[t] \in {"running", "end"}
                     THEN batch[t] \in Batches /\ at[t] \in 1..Len(batch[t])
                     ELSE batch[t] = <<>> /\ at[t] = 0
  /\ told \in [Taps -> SUBSET {"refused", "done", "failed"}]
  /\ early \subseteq Taps

\* How often tap t created the chore on its n-th date.
Created(t, n) == hits[<<t, n>>]

\* The chores a tap created are those on its first dates, one for each, up to
\* the date it is at; and a tap that tells "done" has created them all
\* (work_add_page.dart:183-196).
DoneMeansAll ==
  \A t \in Taps, n \in 1..MaxDates :
    /\ n > at[t] => Created(t, n) = 0
    /\ n < at[t] => Created(t, n) >= 1
    /\ "done" \in told[t] /\ n <= Len(batch[t]) => Created(t, n) >= 1

\* A date holds the same chore of two taps only when the second tap was made
\* while the first one's loop ran, or after it had failed: a tap that succeeded
\* closes the form.
DuplicatesHaveReason ==
  \A t, u \in Taps, m, n \in 1..MaxDates :
    /\ t < u /\ Created(t, m) > 0 /\ Created(u, n) > 0
    /\ request[<<t, m>>].key = request[<<u, n>>].key
    => u \in early \/ told[t] = {"failed"}

\* Every batch ends, with a message and without the overlay: the loop goes on
\* after every answer, and finally runs (work_add_page.dart:181-203).
BatchEnds ==
  <>[](~spinner /\ \A t \in Taps : ~Running(t) /\ (stage[t] = "end" => told[t] # {}))

=============================================================================
