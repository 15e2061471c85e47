----------------------------- MODULE MCMonthView -----------------------------
(* Instances of MonthView for TLC: the days around the turn of a year. *)
EXTENDS MonthView

CONSTANTS amy, ben, house, sport, redeemed, none

At(y, m, d, l) == [year |-> y, month |-> m, day |-> d, late |-> l]

NewYearsEve == At(2023, 12, 31, FALSE)
NewYear == At(2024, 1, 1, FALSE)
LateOnEve == At(2023, 12, 31, TRUE)

Point(c, t, d) ==
  [child |-> c, kind |-> "point", type |-> t, finish |-> FALSE, date |-> d]
Chore(c, t, f, d) ==
  [child |-> c, kind |-> "job", type |-> t, finish |-> f, date |-> d]

MCToday == At(2024, 1, 1, TRUE)
MCMoments == {NewYearsEve, LateOnEve, NewYear, MCToday}
MCPickedDays == {NewYearsEve, NewYear}
MCEntries ==
  {Point(amy, house, NewYearsEve), Point(amy, house, LateOnEve), Point(amy, redeemed, MCToday),
   Point(amy, none, NewYear), Point(ben, sport, MCToday),
   Chore(amy, house, TRUE, NewYearsEve), Chore(amy, sport, FALSE, NewYear)}

=============================================================================
