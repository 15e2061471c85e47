----------------------------- MODULE Statistics ------------------------------
(***************************************************************************)
(* How StatisticsPage (src/lib/pages/parent/statistics_page.dart) comes by *)
(* the records it draws.  The page is about one selected child; the        *)
(* passbook and the chores of that child are fetched when the page opens   *)
(* (points first, then chores) and again for a child chosen in the drawer  *)
(* (both at once).  Answers are applied in the order in which they arrive, *)
(* whoever is selected by then.                                            *)
(*                                                                         *)
(* MyStatisticsPage (src/lib/pages/children/my_statistics_page.dart) is    *)
(* the case of a single child, with no drawer.                             *)
(***************************************************************************)
EXTENDS Naturals, Sequences, FiniteSets

CONSTANTS Roster,      \* the parent's children, in the order of AuthProvider.children
          KnownAtOpen, \* how many of them may be known when the page opens
          MaxRequests  \* bound: requests sent by the page

Kinds == {"points", "jobs"}
Kids == {Roster[n] : n \in 1..Len(Roster)}
Nobody == "nobody"

ASSUME RosterAssumption == Roster \in Seq(Kids) /\ Len(Roster) > 0 /\ Nobody \notin Kids
ASSUME KnownAssumption == KnownAtOpen \subseteq 0..Len(Roster)
ASSUME RequestsAssumption == MaxRequests \in Nat \ {0}

VARIABLES page,      \* "away", "open" or "closed" (disposed)
          known,     \* AuthProvider.children is the first known children
          selected,  \* the child the page is about
          requests,  \* the requests under way
          sent,      \* number of requests sent
          shown,     \* shown[w]: whose records _pointRecords, _jobRecords are
          asked,     \* history: asked[w]: number and child of the last request of kind w
          latest,    \* history: latest[w]: the greatest number of an answer applied
          overtaken, \* history: kinds of which an earlier answer came last
          failed     \* history: kinds of which the last request failed or was not sent

vars == <<page, known, selected, requests, sent, shown, asked, latest,
          overtaken, failed>>

\* A request; chained marks the one _fetchData awaits before it goes on.
Request == [n : 1..MaxRequests, what : Kinds, child : Kids, chained : BOOLEAN]

Init ==
  /\ page = "away"
  /\ known \in KnownAtOpen
  /\ selected = Nobody
  /\ requests = {}
  /\ sent = 0
  /\ shown = [w \in Kinds |-> Nobody]
  /\ latest = [w \in Kinds |-> 0]
  /\ overtaken = {}
  /\ failed = {}
  /\ asked = [w \in Kinds |-> [n |-> 0, child |-> Nobody]]

-----------------------------------------------------------------------------

\* The first frame builds the page and then calls _fetchData, which asks for
\* the points of the first child, if there is one.
Open ==
  /\ page = "away"
  /\ page' = "open"
  /\ \/ /\ known = 0
        /\ UNCHANGED <<selected, requests, sent, asked>>
     \/ /\ known > 0
        /\ selected' = Roster[1]
        /\ requests' = {[n |-> 1, what |-> "points", child |-> Roster[1],
                         chained |-> TRUE]}
        /\ sent' = 1
        /\ asked' = [asked EXCEPT !["points"] = [n |-> 1, child |-> Roster[1]]]
  /\ UNCHANGED <<known, shown, latest, overtaken, failed>>

\* The listener adds children (external); build selects the first one when
\* none is selected, and fetches nothing.
Notify ==
  /\ known' \in (known + 1)..Len(Roster)
  /\ selected' = IF page = "open" /\ selected = Nobody THEN Roster[1] ELSE selected
  /\ UNCHANGED <<page, requests, sent, shown, latest, overtaken, failed, asked>>

\* The bound MaxRequests leaves room for the request _fetchData still has to send.
Spare == Cardinality({r \in requests : r.chained})

\* Mutated: the chores of the new child are not asked for.
SelectChildPointsOnly(c) ==
  /\ page = "open" /\ sent + 2 + Spare <= MaxRequests
  /\ selected' = c
  /\ requests' = requests \union
       {[n |-> sent + 1, what |-> "points", child |-> c, chained |-> FALSE]}
  /\ sent' = sent + 1
  /\ asked' = [asked EXCEPT !["points"] = [n |-> sent + 1, child |-> c]]
  /\ UNCHANGED <<page, known, shown, latest, overtaken, failed>>

\* A child is chosen in the drawer: both requests are sent at once.
SelectChild(c) ==
  /\ page = "open" /\ sent + 2 + Spare <= MaxRequests
  /\ selected' = c
  /\ requests' = requests \union
       {[n |-> sent + 1, what |-> "points", child |-> c, chained |-> FALSE],
        [n |-> sent + 2, what |-> "jobs", child |-> c, chained |-> FALSE]}
  /\ sent' = sent + 2
  /\ asked' = [w \in Kinds |-> [n |-> IF w = "points" THEN sent + 1 ELSE sent + 2,
                                 child |-> c]]
  /\ failed' = {}
  /\ UNCHANGED <<page, known, shown, latest, overtaken>>

\* The then callback: _pointRecords = map or _jobRecords = map.
Apply(r) ==
  /\ shown' = [shown EXCEPT ![r.what] = r.child]
  /\ latest' = [latest EXCEPT ![r.what] = IF r.n > @ THEN r.n ELSE @]
  /\ overtaken' = IF r.n < latest[r.what] THEN overtaken \union {r.what}
                  ELSE overtaken \ {r.what}

\* Mutated: the chores of the child the points were asked for.
GoOnForFirst(r) ==
  LET job == [n |-> sent + 1, what |-> "jobs", child |-> r.child, chained |-> FALSE]
  IN  /\ sent < MaxRequests
      /\ requests' = (requests \ {r}) \union {job}
      /\ sent' = sent + 1
      /\ asked' = [asked EXCEPT !["jobs"] = [n |-> job.n, child |-> job.child]]
      /\ failed' = failed \ {"jobs"}

\* _fetchData goes on after its await and asks for the chores of the child that
\* is selected by now.
GoOn(r) ==
  LET job == [n |-> sent + 1, what |-> "jobs", child |-> selected, chained |-> FALSE]
  IN  /\ sent < MaxRequests
      /\ requests' = (requests \ {r}) \union {job}
      /\ sent' = sent + 1
      /\ asked' = [asked EXCEPT !["jobs"] = [n |-> job.n, child |-> job.child]]
      /\ failed' = failed \ {"jobs"}

Answer(r) ==
  /\ page = "open"
  /\ Apply(r)
  /\ \/ r.chained /\ GoOn(r)
     \/ /\ ~r.chained
        /\ requests' = requests \ {r}
        /\ UNCHANGED <<sent, asked, failed>>
  /\ UNCHANGED <<page, known, selected>>

\* The page is gone: the records are assigned, then add on the closed stream
\* controller throws, which also ends _fetchData.
AnswerClosed(r) ==
  /\ page = "closed"
  /\ Apply(r)
  /\ requests' = requests \ {r}
  /\ UNCHANGED <<page, known, selected, sent, asked, failed>>

\* getPointRecord or getJobRecord rethrows; nobody catches it.
Fail(r) ==
  /\ requests' = requests \ {r}
  /\ failed' = failed \union {w \in Kinds : w = r.what /\ r.n = asked[w].n}
                     \union {w \in Kinds : r.chained /\ asked[w].n = 0}
  /\ UNCHANGED <<page, known, selected, sent, shown, asked, latest, overtaken>>

\* dispose closes the stream controller.
Leave ==
  /\ page = "open"
  /\ page' = "closed"
  /\ UNCHANGED <<known, selected, requests, sent, shown, asked, latest,
                 overtaken, failed>>

Next ==
  \/ Open \/ Notify \/ Leave
  \/ \E n \in 1..known : SelectChild(Roster[n])
  \/ \E r \in requests : Answer(r) \/ AnswerClosed(r) \/ Fail(r)

Spec == Init /\ [][Next]_vars

\* Every request is answered or fails at some time.
FairSpec == Spec /\ WF_vars(\E r \in requests : Answer(r) \/ Fail(r))

-----------------------------------------------------------------------------
(* Properties *)

\* Type correctness; requests have numbers of their own, and _fetchData awaits one
\* of them at most.
TypeOK ==
  /\ page \in {"away", "open", "closed"}
  /\ known \in 0..Len(Roster)
  /\ selected \in Kids \union {Nobody}
  /\ requests \subseteq Request
  /\ \A q, r \in requests : q.n = r.n \/ (q.chained /\ r.chained) => q = r
  /\ sent \in 0..MaxRequests
  /\ shown \in [Kinds -> Kids \union {Nobody}]
  /\ latest \in [Kinds -> 0..MaxRequests]
  /\ overtaken \subseteq Kinds /\ failed \subseteq Kinds
  /\ asked \in [Kinds -> [n : 0..MaxRequests, child : Kids \union {Nobody}]]

\* The last request of kind w is under way, or is still to be sent.
UnderWay(w) ==
  \E r \in requests : \/ r.what = w /\ r.n = asked[w].n
                      \/ w = "jobs" /\ r.chained

\* Under a child's name the page draws another child's records, or none, only
\* while the last request is under way, or because an earlier answer came after
\* its answer, or because it failed, or because the child was selected by build
\* and never asked for (statistics_page.dart:43-59, 75-77 and 100-117).
StaleHasReason ==
  page = "open" /\ selected # Nobody =>
    \A w \in Kinds :
      \/ shown[w] = selected
      \/ UnderWay(w)
      \/ w \in overtaken \/ w \in failed
      \/ \A v \in Kinds : asked[v].n = 0

\* A page that asked settles on the records of the selected child, unless the
\* last request failed or an earlier answer came after its answer.
Settles ==
  <>[](page = "open" /\ asked["points"].n # 0 =>
         \A w \in Kinds : shown[w] = selected \/ w \in overtaken \/ w \in failed)

=============================================================================
