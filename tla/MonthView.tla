------------------------------ MODULE MonthView ------------------------------
(***************************************************************************)
(* The pages that list a child's passbook or chores: AwardPage,            *)
(* DetailPage and WorkDetailPage for the parent, MyDetailPage, MyWorksPage *)
(* and MyHomePage for the child, and the statistics pages of both, which   *)
(* draw passbook and chores as charts.  All but MyHomePage share a header, *)
(* two arrows around the month or, except for the statistics, the range of *)
(* days picked in a calendar; they differ in the entries they list.  The   *)
(* lists follow the listeners; the charts keep what getPointRecord and     *)
(* getJobRecord answered, until the next answer.  Which requests are made, *)
(* and how they fail or overtake each other, is in Statistics; here any    *)
(* child that was asked for may be answered, at any time.                  *)
(*                                                                         *)
(* A moment is a record of year, month, day and late: FALSE at midnight,   *)
(* TRUE later that day.  Entries are written with the current time, or,    *)
(* chores for picked dates, with midnight; the calendar returns midnights. *)
(***************************************************************************)
EXTENDS Integers, Sequences, FiniteSets

CONSTANTS Children,        \* the children
          Entries,     \* the entries there may be: see Entry
          Moments,     \* moments that entries carry
          WORK_TYPES,  \* the types of chores
          NoType,      \* "", the type of a transfer
          Redeemed,    \* ALL_WORK_TYPES.last, the type of a redeemed reward
          PickedDays,  \* midnights that may be picked in the calendar
          Today,       \* the moment at which a page is opened
          MaxTaps,     \* bound: arrows tapped
          EndIncluded  \* whether DateRange.contains holds of the end itself

Entry == [child : Children, kind : {"point", "job"}, type : WORK_TYPES \union {Redeemed, NoType},
          finish : BOOLEAN, date : Moments]

Moment == [year : Int, month : 1..12, day : 1..31, late : BOOLEAN]

\* WorkAddPage offers the types of chores only (work_add_page.dart:39, 138).
ASSUME EntriesAssumption ==
  Entries \subseteq Entry /\ \A e \in Entries : e.kind = "job" => e.type \in WORK_TYPES
ASSUME TypesAssumption == NoType \notin WORK_TYPES \union {Redeemed}
ASSUME PickedAssumption == \A d \in PickedDays : ~d.late
ASSUME MomentsAssumption == Moments \union PickedDays \union {Today} \subseteq Moment
ASSUME BoundsAssumption == MaxTaps \in Nat /\ EndIncluded \in BOOLEAN

ParentPages == {"award", "detail", "work", "statistics"}
Pages == ParentPages \union {"myDetail", "myWorks", "myHome", "myStatistics"}
WithArrows == Pages \ {"myHome"}
Charts == {"statistics", "myStatistics"}
WithCalendar == WithArrows \ Charts
NoChild == "nobody"

VARIABLES view,     \* the page that is open
          owner, \* the child whose entries are listed
          type,     \* widget.type of WorkDetailPage
          finished, \* the tab of MyWorksPage
          current,  \* year and month of _currentDate
          range,    \* _range
          entries,  \* the stored entries, as the listeners have delivered them
          wanted,   \* the children whose records a statistics page asked for
          fetched,  \* _pointRecords and _jobRecords, the last answers
          taps      \* history: arrows tapped to the right minus those to the left

viewVars == <<view, owner, type, finished, current, range, entries, wanted, fetched, taps>>

\* Months counted from year 0, and moments in their order.
Ordinal(m) == m.year * 12 + m.month
Instant(d) == (Ordinal(d) * 32 + d.day) * 2 + (IF d.late THEN 1 ELSE 0)

\* Mutated: the same month of any year.
isInMonthOnly(d, m) == d.month = m.month

\* isInMonth compares year and month; isInRange is DateRange.contains.
isInMonth(d, m) == d.year = m.year /\ d.month = m.month

\* Mutated: the first day does not count.
isInRangeAfter(d, r) ==
  Instant(Head(r)) < Instant(d) /\ Instant(d) <= Instant(r[Len(r)])

isInRange(d, r) ==
  LET first == Head(r)
      last == r[Len(r)]
  IN  /\ Instant(first) <= Instant(d)
      /\ \/ Instant(d) < Instant(last)
         \/ EndIncluded /\ Instant(d) = Instant(last)

\* The name of a month's list in the documents, year and two digits of month.
getYearMonth(d) == <<d.year, d.month>>

ViewInit ==
  /\ view \in Pages
  /\ owner = NoChild
  /\ type \in WORK_TYPES
  /\ finished = FALSE
  /\ current = [year |-> Today.year, month |-> Today.month]
  /\ range = <<>>
  /\ entries = {} /\ wanted = {} /\ fetched = {}
  /\ taps = 0

-----------------------------------------------------------------------------
(* What happens to a page *)

\* The listeners deliver an entry, or a chore is gone from what they deliver,
\* deleted or finished (external).
Deliver(e) ==
  /\ entries' \in {entries \union {e}, IF e.kind = "job" THEN entries \ {e} ELSE entries}
  /\ UNCHANGED <<view, owner, type, finished, current, range, wanted, fetched, taps>>

\* build selects the first child when none is selected; on the child's own
\* pages it is the user.  A statistics page asks for its records only if it was
\* known when the page was opened.
SelectFirst(c) ==
  /\ owner = NoChild
  /\ owner' = c
  /\ wanted' \in {wanted, IF view \in Charts THEN {c} ELSE wanted}
  /\ UNCHANGED <<view, type, finished, current, range, entries, fetched, taps>>

\* A child is tapped in the drawer of a parent's page; StatisticsPage asks for
\* its records.
TapDrawer(c) ==
  /\ view \in ParentPages /\ owner # NoChild
  /\ owner' = c
  /\ wanted' = IF view \in Charts THEN wanted \union {c} ELSE wanted
  /\ UNCHANGED <<view, type, finished, current, range, entries, fetched, taps>>

\* getPointRecord or getJobRecord answers with the entries of a child that are
\* stored at that time; they replace the earlier answer of that kind.
Fetched(kind, c) ==
  /\ c \in wanted
  /\ fetched' = {e \in fetched : e.kind # kind}
                \union {e \in entries : e.kind = kind /\ e.child = c}
  /\ UNCHANGED <<view, owner, type, finished, current, range, entries, wanted, taps>>

PreviousMonth(m) == IF m.month > 1 THEN [m EXCEPT !.month = @ - 1]
                    ELSE [year |-> m.year - 1, month |-> 12]
NextMonth(m) == IF m.month < 12 THEN [m EXCEPT !.month = @ + 1]
                ELSE [year |-> m.year + 1, month |-> 1]

\* An arrow clears the picked range and moves on from _currentDate.
Arrow(step, m) ==
  /\ range' = <<>>
  /\ current' = m
  /\ taps' = taps + step
  /\ UNCHANGED <<view, owner, type, finished, entries, wanted, fetched>>

TapLeft == view \in WithArrows /\ taps > -MaxTaps /\ Arrow(-1, PreviousMonth(current))
TapRight == view \in WithArrows /\ taps < MaxTaps /\ Arrow(1, NextMonth(current))

\* The calendar returns one day or the two ends of a range, in order; nothing
\* changes when it is cancelled.
PickRange ==
  /\ view \in WithCalendar
  /\ range' \in {<<d>> : d \in PickedDays}
                \union {r \in PickedDays \X PickedDays : Instant(r[1]) < Instant(r[2])}
  /\ UNCHANGED <<view, owner, type, finished, current, entries, wanted, fetched, taps>>

\* The two buttons of MyWorksPage.
SetTab(tab) ==
  /\ view = "myWorks"
  /\ finished' = tab
  /\ UNCHANGED <<view, owner, type, current, range, entries, wanted, fetched, taps>>

ViewNext ==
  \/ TapLeft \/ TapRight \/ PickRange
  \/ \E e \in Entries : Deliver(e)
  \/ \E c \in Children : SelectFirst(c) \/ TapDrawer(c)
  \/ \E c \in Children, kind \in {"point", "job"} : Fetched(kind, c)
  \/ \E tab \in BOOLEAN : SetTab(tab)

ViewSpec == ViewInit /\ [][ViewNext]_viewVars

-----------------------------------------------------------------------------
(* The lists *)

\* The entries of the selected child in the month or range shown.
Shown(e) ==
  /\ e.child = owner
  /\ IF range = <<>> THEN isInMonth(e.date, current) ELSE isInRange(e.date, range)

AwardList == {e \in entries : e.kind = "point" /\ e.type = Redeemed /\ Shown(e)}
DetailList == {e \in entries : e.kind = "point" /\ e.type # Redeemed /\ Shown(e)}
WorkList(t) == {e \in entries : e.kind = "job" /\ e.type = t /\ Shown(e)}
MyDetailList == {e \in entries : e.kind = "point" /\ Shown(e)}
MyHomeList == {e \in entries : e.kind = "job" /\ ~e.finish /\ e.child = owner}
MyWorksList(tab) == {e \in entries : e.kind = "job" /\ e.finish = tab /\ Shown(e)}

\* The two charts of the statistics pages draw the lists that carry the name of
\* the month shown, whosever they are.
Chart == {e \in fetched : getYearMonth(e.date) = getYearMonth(current)}

List ==
  CASE view = "award" -> AwardList
    [] view = "detail" -> DetailList
    [] view = "work" -> WorkList(type)
    [] view = "myDetail" -> MyDetailList
    [] view = "myWorks" -> MyWorksList(finished)
    [] view = "myHome" -> MyHomeList
    [] view \in Charts -> Chart

-----------------------------------------------------------------------------
(* Properties *)

\* Type correctness.
ViewTypeOK ==
  /\ view \in Pages
  /\ owner \in Children \union {NoChild}
  /\ type \in WORK_TYPES
  /\ finished \in BOOLEAN
  /\ current \in [year : Int, month : 1..12]
  /\ range \in Seq(PickedDays) /\ Len(range) <= 2
  /\ entries \subseteq Entries /\ fetched \subseteq Entries
  /\ wanted \subseteq Children
  /\ taps \in (-MaxTaps)..MaxTaps

\* The month shown is the one reached by counting the taps on the arrows from
\* the month the page was opened in, across the turn of the year and whatever
\* ranges were picked in between (award_page.dart:141-152 and 195-209).
MonthIsTaps == Ordinal(current) = Ordinal(Today) + taps

\* The entries a page is about, of whatever time: the selected child's rewards,
\* other points, chores of a type, or chores to do or done; the records fetched
\* last for the charts.
Subject ==
  IF view \in Charts THEN fetched
  ELSE {e \in entries :
          /\ e.child = owner
          /\ e.kind = IF view \in {"work", "myWorks"} THEN "job" ELSE "point"
          /\ view = "award" => e.type = Redeemed
          /\ view = "detail" => e.type # Redeemed
          /\ view = "work" => e.type = type
          /\ view = "myWorks" => e.finish = finished}

\* Counted in taps from the month the page was opened in, every page lists the
\* entries it is about of exactly that month, none of the same month of another
\* year, however entries come and go, children are selected and ranges picked and
\* cleared in between; so do the charts, which go by the names of the months'
\* lists and not by dates (common_functions.dart:59-62 and 94-100).
ListsItsMonth ==
  range = <<>> /\ view \in WithArrows =>
    List = {e \in Subject : Ordinal(e.date) = Ordinal(Today) + taps}

Day(d) == Ordinal(d) * 32 + d.day

\* A range lists the entries of all its days but the last, of which only those
\* at midnight may be listed, and no others (common_functions.dart:102-108).
RangeListsItsDays ==
  range # <<>> =>
    LET first == Day(Head(range))
        last == Day(range[Len(range)])
    IN  /\ List \subseteq Subject
        /\ \A e \in Subject :
             /\ Day(e.date) \in first..(last - 1) => e \in List
             /\ e \in List => /\ Day(e.date) \in first..last
                              /\ Day(e.date) = last => ~e.date.late

=============================================================================
