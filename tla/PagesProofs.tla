----------------------------- MODULE PagesProofs -----------------------------
(* The safety properties of the pages that read, which share no state: whose
   records StatisticsPage draws, for any children and any number of requests
   answered in any order; what its weekly chart counts, for any list of chores;
   and what the pages that show a month list, for any entries and any number of
   taps on the arrows. *)
EXTENDS Statistics, WeeklyChart, MonthView, FiniteSetTheorems, TLAPS

-----------------------------------------------------------------------------
(* The inductive invariant *)

Asked == [n : 0..MaxRequests, child : Kids \union {Nobody}]

\* No request has a number that was not given yet, or one after the last of its
\* kind; the last one is for the child it was noted for.
Numbered ==
  \A r \in requests :
    /\ r.n <= sent /\ r.n <= asked[r.what].n
    /\ r.n = asked[r.what].n => r.child = asked[r.what].child

\* Before the page opens nothing is asked, chores are asked for after points only,
\* and no answer is ahead of the last request.
InOrder ==
  /\ page = "away" => selected = Nobody /\ asked["points"].n = 0
  /\ asked["points"].n = 0 => asked["jobs"].n = 0 /\ requests = {}
  /\ \A w \in Kinds : latest[w] <= asked[w].n
  /\ \A w \in Kinds : asked[w].n <= sent
  /\ \A w \in Kinds : asked[w].n # 0 => asked[w].child \in Kids

\* The last request of a kind was for the child that is selected.
ForSelected ==
  page = "open" => \A w \in Kinds : asked[w].n # 0 => asked[w].child = selected

\* What became of the last request of kind w.
Became(w) ==
  asked[w].n # 0 =>
    \/ \E r \in requests : r.what = w /\ r.n = asked[w].n
    \/ w \in failed
    \/ latest[w] = asked[w].n /\ (shown[w] = asked[w].child \/ w \in overtaken)

\* While only points were asked for, _fetchData has yet to ask for the chores.
JobsToCome ==
  page = "open" /\ asked["points"].n # 0 /\ asked["jobs"].n = 0
    => (\E r \in requests : r.chained) \/ "jobs" \in failed

Settled == \A w \in Kinds : Became(w)

IInv == TypeOK /\ Numbered /\ InOrder /\ ForSelected /\ Settled /\ JobsToCome

\* The reasons the page may give follow.
LEMMA Reasons == IInv => StaleHasReason
<1> SUFFICES ASSUME IInv, page = "open", NEW w \in Kinds
             PROVE  \/ shown[w] = selected \/ UnderWay(w)
                    \/ w \in overtaken \/ w \in failed
                    \/ \A v \in Kinds : asked[v].n = 0
  BY DEF StaleHasReason
<1>1. CASE asked[w].n # 0
  BY <1>1 DEF IInv, Settled, Became, ForSelected, UnderWay
<1>2. CASE asked[w].n = 0
  <2>1. CASE asked["points"].n = 0
    BY <2>1 DEF IInv, InOrder, Kinds
  <2>2. CASE asked["points"].n # 0
    <3>1. w = "jobs"
      BY <1>2, <2>2 DEF Kinds
    <3> QED BY <1>2, <2>2, <3>1 DEF IInv, JobsToCome, UnderWay
  <2> QED BY <2>1, <2>2
<1> QED BY <1>1, <1>2

\* At the start nothing is asked.
LEMMA InitInv == Init => IInv
<1> SUFFICES ASSUME Init PROVE IInv
  OBVIOUS
<1>1. \A w \in Kinds : asked[w].n = 0 /\ latest[w] = 0
  BY DEF Init
<1>2. "points" \in Kinds /\ "jobs" \in Kinds
  BY DEF Kinds
<1>3. TypeOK
  <2>1. Len(Roster) \in Nat /\ MaxRequests \in Nat
    BY RosterAssumption, RequestsAssumption
  <2>2. known \in 0..Len(Roster) /\ sent \in 0..MaxRequests
    BY <2>1, KnownAssumption DEF Init
  <2>3. asked \in [Kinds -> Asked] /\ latest \in [Kinds -> 0..MaxRequests]
    BY <2>1 DEF Init, Asked
  <2> QED BY <2>2, <2>3 DEF Init, TypeOK, Asked
<1>4. Numbered /\ ForSelected /\ Settled /\ JobsToCome
  BY <1>1, <1>2 DEF Init, Numbered, ForSelected, Settled, Became, JobsToCome
<1>5. InOrder
  BY <1>1, <1>2 DEF Init, InOrder
<1> QED BY <1>3, <1>4, <1>5 DEF IInv

-----------------------------------------------------------------------------
(* Steps *)

\* What the type invariant says.
LEMMA TypeFacts ==
  ASSUME TypeOK
  PROVE  /\ sent \in Nat /\ sent <= MaxRequests /\ MaxRequests \in Nat
         /\ asked \in [Kinds -> Asked] /\ latest \in [Kinds -> 0..MaxRequests]
         /\ \A w \in Kinds : asked[w].n \in Nat /\ latest[w] \in Nat
         /\ \A r \in requests : r \in Request /\ r.n \in Nat /\ r.what \in Kinds /\ r.child \in Kids
         /\ "points" \in Kinds /\ "jobs" \in Kinds
<1>1. MaxRequests \in Nat
  BY RequestsAssumption
<1>2. sent \in Nat /\ sent <= MaxRequests
  BY <1>1 DEF TypeOK
<1>3. asked \in [Kinds -> Asked] /\ latest \in [Kinds -> 0..MaxRequests]
  BY DEF TypeOK, Asked
<1>4. ASSUME NEW w \in Kinds PROVE asked[w].n \in Nat /\ latest[w] \in Nat
  <2>1. asked[w] \in Asked /\ latest[w] \in 0..MaxRequests
    BY <1>3
  <2> QED BY <1>1, <2>1 DEF Asked
<1>5. ASSUME NEW r \in requests
      PROVE  r \in Request /\ r.n \in Nat /\ r.what \in Kinds /\ r.child \in Kids
  <2>1. r \in Request
    BY DEF TypeOK
  <2> QED BY <1>1, <2>1 DEF Request
<1> QED BY <1>1, <1>2, <1>3, <1>4, <1>5 DEF Kinds

\* The first child is one of the children.
LEMMA FirstChild == Roster[1] \in Kids /\ \A n \in 1..Len(Roster) : Roster[n] \in Kids
<1>1. Len(Roster) \in Nat /\ Len(Roster) > 0
  BY RosterAssumption
<1> QED BY <1>1 DEF Kids

\* Children become known.
LEMMA NotifyInv ==
  ASSUME IInv, Notify
  PROVE  IInv'
<1>0. UNCHANGED <<page, requests, sent, shown, latest, overtaken, failed, asked>>
  BY DEF Notify
<1>1. known' \in 0..Len(Roster) /\ selected' \in Kids \union {Nobody}
  <2>1. known \in 0..Len(Roster) /\ Len(Roster) \in Nat /\ selected \in Kids \union {Nobody}
    BY RosterAssumption DEF IInv, TypeOK
  <2>2. known' \in 0..Len(Roster)
    BY <2>1 DEF Notify
  <2> QED BY <2>1, <2>2, FirstChild DEF Notify
<1>2. TypeOK'
  BY <1>0, <1>1 DEF IInv, TypeOK
<1>3. Numbered' /\ Settled' /\ JobsToCome'
  BY <1>0 DEF IInv, Numbered, Settled, Became, JobsToCome
<1>4. InOrder'
  <2>1. page = "away" => selected' = selected
    BY DEF Notify
  <2> QED BY <1>0, <2>1 DEF IInv, InOrder
<1>5. ForSelected'
  <2> SUFFICES ASSUME page = "open", NEW w \in Kinds, asked[w].n # 0
               PROVE  asked[w].child = selected'
    BY <1>0 DEF ForSelected
  <2>1. asked[w].child = selected
    BY DEF IInv, ForSelected
  <2>2. selected \in Kids \union {Nobody}
    BY DEF IInv, TypeOK
  <2>3. selected # Nobody
    <3>1. asked[w].child \in Kids
      BY DEF IInv, InOrder
    <3> QED BY <2>1, <3>1, RosterAssumption
  <2> QED BY <2>1, <2>3 DEF Notify
<1> QED BY <1>2, <1>3, <1>4, <1>5 DEF IInv

\* The page is opened or left.
LEMMA OpenInv ==
  ASSUME IInv, Open
  PROVE  IInv'
<1>0. /\ page = "away" /\ page' = "open" /\ UNCHANGED <<known, shown, latest, overtaken, failed>>
      /\ selected = Nobody /\ asked["points"].n = 0 /\ asked["jobs"].n = 0 /\ requests = {}
  BY DEF IInv, InOrder, Open
<1>1. /\ MaxRequests \in Nat \ {0} /\ sent \in Nat /\ asked \in [Kinds -> Asked]
      /\ "points" \in Kinds /\ "jobs" \in Kinds
      /\ \A w \in Kinds : w = "points" \/ w = "jobs"
  BY TypeFacts, RequestsAssumption DEF IInv, Kinds
<1>2. CASE UNCHANGED <<selected, requests, sent, asked>>
  <2>1. TypeOK'
    BY <1>0, <1>2 DEF IInv, TypeOK
  <2>2. InOrder' /\ ForSelected' /\ JobsToCome'
    BY <1>0, <1>1, <1>2 DEF IInv, InOrder, ForSelected, JobsToCome
  <2>3. Numbered' /\ Settled'
    BY <1>0, <1>2 DEF IInv, Numbered, Settled, Became
  <2> QED BY <2>1, <2>2, <2>3 DEF IInv
<1>3. CASE /\ selected' = Roster[1] /\ sent' = 1
           /\ requests' = {[n |-> 1, what |-> "points", child |-> Roster[1], chained |-> TRUE]}
           /\ asked' = [asked EXCEPT !["points"] = [n |-> 1, child |-> Roster[1]]]
  <2>1. PICK c \in Kids : c = Roster[1]
    BY FirstChild
  <2>2. PICK q : q = [n |-> 1, what |-> "points", child |-> c, chained |-> TRUE]
    OBVIOUS
  <2>3. /\ q \in Request /\ q.n = 1 /\ q.what = "points" /\ q.child = c /\ q.chained
    BY <1>1, <2>2 DEF Request
  <2>4. PICK k : k = [n |-> 1, child |-> c]
    OBVIOUS
  <2>5. k \in Asked /\ k.n = 1 /\ k.child = c
    BY <1>1, <2>4 DEF Asked
  <2>6. selected' = c /\ sent' = 1 /\ requests' = {q} /\ asked' = [asked EXCEPT !["points"] = k]
    BY <1>3, <2>1, <2>2, <2>4
  <2>7. asked' \in [Kinds -> Asked] /\ asked'["points"] = k /\ asked'["jobs"] = asked["jobs"]
    BY <1>1, <2>5, <2>6
  <2>8. TypeOK'
    <3>1. sent' \in 0..MaxRequests /\ selected' \in Kids \union {Nobody} /\ requests' \subseteq Request
      BY <1>1, <2>3, <2>6
    <3>2. \A a, b \in requests' : a = b
      BY <2>6
    <3> QED BY <1>0, <2>7, <3>1, <3>2 DEF IInv, TypeOK, Asked
  <2>9. Numbered'
    BY <2>3, <2>5, <2>6, <2>7 DEF Numbered
  <2>10. InOrder'
    <3>0. \A w \in Kinds : latest[w] <= asked[w].n /\ latest[w] \in Nat
      BY TypeFacts DEF IInv, InOrder
    <3>1. latest["points"] <= 0 /\ latest["jobs"] <= 0 /\ latest["points"] \in Nat /\ latest["jobs"] \in Nat
      BY <1>0, <1>1, <3>0
    <3>2. asked'["points"].n = 1 /\ asked'["points"].child \in Kids /\ asked'["jobs"].n = 0
      BY <1>0, <2>5, <2>7
    <3> QED BY <1>0, <1>1, <2>6, <3>1, <3>2 DEF InOrder
  <2>11. ForSelected' /\ Settled' /\ JobsToCome'
    BY <1>0, <1>1, <2>3, <2>5, <2>6, <2>7 DEF ForSelected, Settled, Became, JobsToCome
  <2> QED BY <2>8, <2>9, <2>10, <2>11 DEF IInv
<1> QED BY <1>2, <1>3 DEF Open

\* The page is left.
LEMMA LeaveInv ==
  ASSUME IInv, Leave
  PROVE  IInv'
<1>0. /\ page = "open" /\ page' = "closed"
      /\ UNCHANGED <<known, selected, requests, sent, shown, asked, latest, overtaken, failed>>
  BY DEF Leave
<1>1. TypeOK'
  BY <1>0 DEF IInv, TypeOK
<1> QED BY <1>0, <1>1 DEF IInv, Numbered, InOrder, ForSelected, Settled, Became, JobsToCome

\* A child is chosen: both requests are for it.
LEMMA SelectInv ==
  ASSUME IInv, NEW c \in Kids, SelectChild(c)
  PROVE  IInv'
<1>0. /\ page = "open" /\ selected' = c /\ sent' = sent + 2 /\ failed' = {}
      /\ UNCHANGED <<page, known, shown, latest, overtaken>>
  BY DEF SelectChild
<1>1. /\ MaxRequests \in Nat /\ sent \in Nat /\ asked \in [Kinds -> Asked]
      /\ "points" \in Kinds /\ "jobs" \in Kinds
      /\ \A w \in Kinds : w = "points" \/ w = "jobs"
      /\ \A r \in requests : r \in Request /\ r.n \in Nat /\ r.what \in Kinds
      /\ \A w \in Kinds : asked[w].n \in Nat /\ latest[w] \in Nat
  BY TypeFacts DEF IInv, Kinds
<1>2. sent + 2 <= MaxRequests
  <2> DEFINE S == {r \in requests : r.chained}
  <2>1. IsFiniteSet(S)
    <3>1. \A q, r \in S : q = r
      BY DEF IInv, TypeOK
    <3>2. CASE S = {}
      BY <3>2, FS_EmptySet
    <3>3. CASE S # {}
      <4>1. PICK x : x \in S
        BY <3>3
      <4>2. S = {x}
        BY <3>1, <4>1
      <4> QED BY <4>2, FS_Singleton
    <3> QED BY <3>2, <3>3
  <2>2. Cardinality(S) \in Nat
    BY <2>1, FS_CardinalityType
  <2>3. sent + 2 + Cardinality(S) <= MaxRequests
    BY DEF SelectChild, Spare
  <2> HIDE DEF S
  <2> QED BY <1>1, <2>2, <2>3
<1>3. PICK p, j : /\ p = [n |-> sent + 1, what |-> "points", child |-> c, chained |-> FALSE]
                  /\ j = [n |-> sent + 2, what |-> "jobs", child |-> c, chained |-> FALSE]
  OBVIOUS
<1>4. /\ p \in Request /\ p.n = sent + 1 /\ p.what = "points" /\ p.child = c /\ ~p.chained
      /\ j \in Request /\ j.n = sent + 2 /\ j.what = "jobs" /\ j.child = c /\ ~j.chained
  <2>1. sent + 1 \in 1..MaxRequests /\ sent + 2 \in 1..MaxRequests
    BY <1>1, <1>2
  <2> QED BY <1>1, <1>3, <2>1 DEF Request
<1>5. requests' = requests \union {p, j}
  BY <1>3 DEF SelectChild
<1>6. /\ asked' \in [Kinds -> Asked]
      /\ asked'["points"].n = sent + 1 /\ asked'["points"].child = c
      /\ asked'["jobs"].n = sent + 2 /\ asked'["jobs"].child = c
  <2>1. asked' = [w \in Kinds |-> [n |-> IF w = "points" THEN sent + 1 ELSE sent + 2, child |-> c]]
    BY DEF SelectChild
  <2>2. PICK k, l : k = [n |-> sent + 1, child |-> c] /\ l = [n |-> sent + 2, child |-> c]
    OBVIOUS
  <2>3. sent + 1 \in 0..MaxRequests /\ sent + 2 \in 0..MaxRequests
    BY <1>1, <1>2
  <2>4. k \in Asked /\ l \in Asked /\ k.n = sent + 1 /\ l.n = sent + 2 /\ k.child = c /\ l.child = c
    BY <2>2, <2>3 DEF Asked
  <2>5. asked'["points"] = k /\ asked'["jobs"] = l
    BY <1>1, <2>1, <2>2
  <2>6. asked' \in [Kinds -> Asked]
    BY <1>1, <2>1, <2>4, <2>5
  <2> QED BY <2>4, <2>5, <2>6
<1>7. \A r \in requests : r.n <= sent
  BY DEF IInv, Numbered
<1>8. TypeOK'
  <2>1. sent' \in 0..MaxRequests /\ selected' \in Kids \union {Nobody} /\ requests' \subseteq Request
    BY <1>0, <1>1, <1>2, <1>4, <1>5
  <2>2. ASSUME NEW q \in requests', NEW r \in requests', q.n = r.n \/ (q.chained /\ r.chained)
        PROVE  q = r
    <3>1. CASE q \in requests /\ r \in requests
      BY <2>2, <3>1 DEF IInv, TypeOK
    <3>2. \A x \in requests : x.n # sent + 1 /\ x.n # sent + 2
      BY <1>1, <1>7
    <3>3. sent + 1 # sent + 2
      BY <1>1
    <3> QED BY <1>4, <1>5, <2>2, <3>1, <3>2, <3>3
  <2> QED BY <1>0, <1>6, <2>1, <2>2 DEF IInv, TypeOK, Asked
<1>9. Numbered'
  <2>1. ASSUME NEW r \in requests
        PROVE  r.n <= sent' /\ r.n <= asked'[r.what].n /\ r.n # asked'[r.what].n
    <3>1. r.n <= sent /\ r.n \in Nat /\ (r.what = "points" \/ r.what = "jobs")
      BY <1>1, <1>7
    <3>2. asked'[r.what].n = sent + 1 \/ asked'[r.what].n = sent + 2
      BY <1>6, <3>1
    <3> QED BY <1>0, <1>1, <3>1, <3>2
  <2>2. p.n <= sent' /\ p.n <= asked'[p.what].n /\ p.child = asked'[p.what].child
    BY <1>0, <1>1, <1>4, <1>6
  <2>3. j.n <= sent' /\ j.n <= asked'[j.what].n /\ j.child = asked'[j.what].child
    BY <1>0, <1>1, <1>4, <1>6
  <2> QED BY <1>5, <2>1, <2>2, <2>3 DEF Numbered
<1>10. InOrder'
  <2>0. \A w \in Kinds : latest[w] <= asked[w].n /\ asked[w].n <= sent
    BY DEF IInv, InOrder
  <2>1. \A w \in Kinds : latest[w] <= sent
    BY <1>1, <2>0
  <2>2. \A w \in Kinds : /\ latest'[w] <= asked'[w].n /\ asked'[w].n <= sent'
                         /\ asked'[w].n # 0 /\ asked'[w].child \in Kids
    <3> TAKE w \in Kinds
    <3>1. asked'[w].n \in {sent + 1, sent + 2} /\ asked'[w].child = c
      BY <1>1, <1>6
    <3>2. latest[w] \in Nat /\ latest[w] <= sent /\ latest'[w] = latest[w]
      BY <1>0, <1>1, <2>1
    <3> QED BY <1>0, <1>1, <3>1, <3>2
  <2> QED BY <1>0, <1>1, <2>2 DEF InOrder
<1>11. ForSelected' /\ Settled' /\ JobsToCome'
  <2>1. asked'["jobs"].n # 0
    BY <1>1, <1>6
  <2>2. \A w \in Kinds : asked'[w].child = selected'
    BY <1>0, <1>1, <1>6
  <2>3. \A w \in Kinds : \E r \in requests' : r.what = w /\ r.n = asked'[w].n
    BY <1>1, <1>4, <1>5, <1>6
  <2> QED BY <2>1, <2>2, <2>3 DEF ForSelected, Settled, Became, JobsToCome
<1> QED BY <1>8, <1>9, <1>10, <1>11 DEF IInv

\* An answer is applied: the one to the last request of its kind is what the page
\* shows, and one that comes after that is noted.
LEMMA Applied ==
  ASSUME TypeOK, InOrder, Numbered, NEW r \in requests, Apply(r)
  PROVE  /\ shown' \in [Kinds -> Kids \union {Nobody}] /\ latest' \in [Kinds -> 0..MaxRequests]
         /\ overtaken' \subseteq Kinds
         /\ \A v \in Kinds : latest'[v] <= asked[v].n
         /\ \A v \in Kinds \ {r.what} : /\ shown'[v] = shown[v] /\ latest'[v] = latest[v]
                                        /\ v \in overtaken => v \in overtaken'
         /\ r.n = asked[r.what].n => /\ latest'[r.what] = asked[r.what].n
                                     /\ shown'[r.what] = asked[r.what].child
         /\ r.n # asked[r.what].n /\ latest[r.what] = asked[r.what].n
              => latest'[r.what] = asked[r.what].n /\ r.what \in overtaken'
<1>1. PICK w \in Kinds, c \in Kids, m \in Nat : w = r.what /\ c = r.child /\ m = r.n /\ m \in 1..MaxRequests
  BY TypeFacts DEF TypeOK, Request
<1>2. PICK l \in Nat, a \in Nat : l = latest[w] /\ a = asked[w].n
  BY TypeFacts
<1>3. l <= a /\ m <= a
  BY <1>1, <1>2 DEF InOrder, Numbered
<1>4. PICK x \in Nat : x = (IF m > l THEN m ELSE l) /\ x \in {m, l}
  BY <1>1, <1>2
<1>5. /\ shown' = [shown EXCEPT ![w] = c] /\ latest' = [latest EXCEPT ![w] = x]
      /\ overtaken' = IF m < l THEN overtaken \union {w} ELSE overtaken \ {w}
  BY <1>1, <1>2, <1>4 DEF Apply
<1>6. /\ shown \in [Kinds -> Kids \union {Nobody}] /\ latest \in [Kinds -> 0..MaxRequests]
      /\ overtaken \subseteq Kinds
  BY DEF TypeOK
<1>7. x \in 0..MaxRequests
  <2>1. latest[w] \in 0..MaxRequests
    BY <1>6
  <2> QED BY <1>1, <1>2, <1>4, <2>1
<1>8. /\ shown' \in [Kinds -> Kids \union {Nobody}] /\ latest' \in [Kinds -> 0..MaxRequests]
      /\ overtaken' \subseteq Kinds /\ shown'[w] = c /\ latest'[w] = x
      /\ \A v \in Kinds \ {w} : shown'[v] = shown[v] /\ latest'[v] = latest[v]
  BY <1>5, <1>6, <1>7
<1>9. \A v \in Kinds \ {w} : v \in overtaken => v \in overtaken'
  BY <1>5
<1>10. x <= a
  BY <1>3, <1>4
<1>11. \A v \in Kinds : latest'[v] <= asked[v].n
  BY <1>2, <1>8, <1>10 DEF InOrder
<1>12. m = a => x = a /\ c = asked[w].child
  <2>1. m = a => c = asked[w].child
    BY <1>1, <1>2 DEF Numbered
  <2> QED BY <1>3, <1>4, <2>1
<1>13. m # a /\ l = a => x = a /\ w \in overtaken'
  <2>1. m # a /\ l = a => m < l /\ x = a
    BY <1>3, <1>4
  <2> QED BY <1>5, <2>1
<1> QED BY <1>1, <1>2, <1>8, <1>9, <1>11, <1>12, <1>13

\* What became of the last request of a kind, after an answer.
LEMMA BecameApplied ==
  ASSUME TypeOK, InOrder, Numbered, NEW r \in requests, Apply(r),
         NEW v \in Kinds, Became(v), asked'[v] = asked[v], v \in failed => v \in failed',
         requests \ {r} \subseteq requests'
  PROVE  Became(v)'
<1> SUFFICES ASSUME asked[v].n # 0
             PROVE  \/ \E q \in requests' : q.what = v /\ q.n = asked[v].n
                    \/ v \in failed'
                    \/ latest'[v] = asked[v].n /\ (shown'[v] = asked[v].child \/ v \in overtaken')
  BY DEF Became
<1>1. CASE r.what = v
  <2>1. CASE r.n = asked[v].n
    BY <1>1, <2>1, Applied
  <2>2. CASE r.n # asked[v].n
    <3>1. latest[v] = asked[v].n => latest'[v] = asked[v].n /\ v \in overtaken'
      BY <1>1, <2>2, Applied
    <3> QED BY <1>1, <2>2, <3>1 DEF Became
  <2> QED BY <2>1, <2>2
<1>2. CASE r.what # v
  <2>1. /\ shown'[v] = shown[v] /\ latest'[v] = latest[v] /\ (v \in overtaken => v \in overtaken')
    BY <1>2, Applied
  <2> QED BY <1>2, <2>1 DEF Became
<1> QED BY <1>1, <1>2

\* An answer that sends no other request.
LEMMA AnswerInv ==
  ASSUME IInv, NEW r \in requests, Apply(r), requests' = requests \ {r},
         UNCHANGED <<page, known, selected, sent, asked, failed>>, page = "open" => ~r.chained
  PROVE  IInv'
<1>1. TypeOK'
  <2>1. requests' \subseteq Request /\ \A q, s \in requests' : q.n = s.n \/ (q.chained /\ s.chained) => q = s
    BY DEF IInv, TypeOK
  <2>2. /\ shown' \in [Kinds -> Kids \union {Nobody}] /\ latest' \in [Kinds -> 0..MaxRequests]
        /\ overtaken' \subseteq Kinds
    BY Applied DEF IInv
  <2> QED BY <2>1, <2>2 DEF IInv, TypeOK
<1>2. Numbered'
  BY DEF IInv, Numbered
<1>3. InOrder'
  <2>1. \A v \in Kinds : latest'[v] <= asked'[v].n
    BY Applied DEF IInv
  <2>2. asked["points"].n # 0
    BY DEF IInv, InOrder
  <2>3. page = "away" => selected = Nobody /\ asked["points"].n = 0
    BY DEF IInv, InOrder
  <2>4. /\ \A w \in Kinds : asked[w].n <= sent
        /\ \A w \in Kinds : asked[w].n # 0 => asked[w].child \in Kids
    BY DEF IInv, InOrder
  <2> QED BY <2>1, <2>2, <2>3, <2>4 DEF InOrder
<1>4. ForSelected'
  BY DEF IInv, ForSelected
<1>5. Settled'
  BY BecameApplied DEF IInv, Settled
<1>6. JobsToCome'
  BY DEF IInv, JobsToCome
<1> QED BY <1>1, <1>2, <1>3, <1>4, <1>5, <1>6 DEF IInv

\* The answer after which _fetchData asks for the chores.
LEMMA GoOnInv ==
  ASSUME IInv, NEW r \in requests, Apply(r), GoOn(r), page = "open",
         UNCHANGED <<page, known, selected>>
  PROVE  IInv'
<1>1. /\ MaxRequests \in Nat /\ sent \in Nat /\ asked \in [Kinds -> Asked]
      /\ "points" \in Kinds /\ "jobs" \in Kinds
      /\ \A w \in Kinds : w = "points" \/ w = "jobs"
      /\ \A q \in requests : q \in Request /\ q.n \in Nat /\ q.what \in Kinds
      /\ \A w \in Kinds : asked[w].n \in Nat /\ latest[w] \in Nat
  BY TypeFacts DEF IInv, Kinds
<1>2. asked["points"].n # 0
  BY DEF IInv, InOrder
<1>3. selected \in Kids
  <2>1. asked["points"].child = selected /\ asked["points"].child \in Kids
    BY <1>1, <1>2 DEF IInv, ForSelected, InOrder
  <2> QED BY <2>1
<1>4. PICK j : j = [n |-> sent + 1, what |-> "jobs", child |-> selected, chained |-> FALSE]
  OBVIOUS
<1>5. /\ sent + 1 \in 1..MaxRequests /\ sent + 1 \in 0..MaxRequests /\ sent' = sent + 1
  BY <1>1 DEF GoOn
<1>6. j \in Request /\ j.n = sent + 1 /\ j.what = "jobs" /\ j.child = selected /\ ~j.chained
  BY <1>1, <1>3, <1>4, <1>5 DEF Request
<1>7. PICK k : k = [n |-> j.n, child |-> j.child]
  OBVIOUS
<1>8. k \in Asked /\ k.n = sent + 1 /\ k.child = selected
  BY <1>3, <1>5, <1>6, <1>7 DEF Asked
<1>9. /\ requests' = (requests \ {r}) \union {j} /\ asked' = [asked EXCEPT !["jobs"] = k]
      /\ failed' = failed \ {"jobs"}
  BY <1>4, <1>7 DEF GoOn
<1>10. asked' \in [Kinds -> Asked] /\ asked'["jobs"] = k /\ asked'["points"] = asked["points"]
  BY <1>1, <1>8, <1>9
<1>11. \A q \in requests : q.n <= sent /\ q.n # sent + 1
  BY <1>1 DEF IInv, Numbered
<1>12. TypeOK'
  <2>1. requests' \subseteq Request /\ failed' \subseteq Kinds /\ sent' \in 0..MaxRequests
    BY <1>1, <1>5, <1>6, <1>9 DEF IInv, TypeOK
  <2>2. ASSUME NEW q \in requests', NEW s \in requests', q.n = s.n \/ (q.chained /\ s.chained)
        PROVE  q = s
    <3>1. CASE q \in requests /\ s \in requests
      BY <2>2, <3>1 DEF IInv, TypeOK
    <3> QED BY <1>6, <1>9, <1>11, <2>2, <3>1
  <2>3. /\ shown' \in [Kinds -> Kids \union {Nobody}] /\ latest' \in [Kinds -> 0..MaxRequests]
        /\ overtaken' \subseteq Kinds
    BY Applied DEF IInv
  <2> QED BY <1>10, <2>1, <2>2, <2>3 DEF IInv, TypeOK, Asked
<1>13. Numbered'
  <2>1. ASSUME NEW q \in requests
        PROVE  /\ q.n <= sent' /\ q.n <= asked'[q.what].n
               /\ q.n = asked'[q.what].n => q.child = asked'[q.what].child
    <3>1. q.n <= sent' /\ q.n # sent + 1 /\ q.n <= sent + 1
      BY <1>1, <1>5, <1>11
    <3>2. CASE q.what = "jobs"
      BY <1>8, <1>10, <3>1, <3>2
    <3>3. CASE q.what = "points"
      BY <1>10, <3>1, <3>3 DEF IInv, Numbered
    <3> QED BY <1>1, <3>2, <3>3
  <2>2. j.n <= sent' /\ j.n <= asked'[j.what].n /\ j.child = asked'[j.what].child
    BY <1>1, <1>5, <1>6, <1>8, <1>10
  <2> QED BY <1>9, <2>1, <2>2 DEF Numbered
<1>14. InOrder'
  <2>1. \A v \in Kinds : latest'[v] <= asked[v].n /\ asked[v].n <= sent /\ latest'[v] \in 0..MaxRequests
    BY Applied DEF IInv, InOrder
  <2>2. /\ latest'["points"] <= asked'["points"].n /\ latest'["jobs"] <= asked'["jobs"].n
        /\ asked'["points"].n <= sent' /\ asked'["jobs"].n <= sent'
    <3>1. latest'["jobs"] <= asked["jobs"].n /\ asked["jobs"].n <= sent /\ latest'["jobs"] \in Nat
      BY <1>1, <2>1
    <3>2. latest'["points"] <= asked["points"].n /\ asked["points"].n <= sent
      BY <1>1, <2>1
    <3> QED BY <1>1, <1>5, <1>8, <1>10, <3>1, <3>2
  <2>3. asked'["points"].child \in Kids /\ asked'["jobs"].child \in Kids /\ asked'["points"].n # 0
    BY <1>1, <1>2, <1>3, <1>8, <1>10 DEF IInv, InOrder
  <2> QED BY <1>1, <2>2, <2>3 DEF InOrder
<1>15. ForSelected'
  <2>1. asked'["points"].child = selected' /\ asked'["jobs"].child = selected'
    BY <1>1, <1>2, <1>8, <1>10 DEF IInv, ForSelected
  <2> QED BY <1>1, <2>1 DEF ForSelected
<1>16. Settled'
  <2>1. Became("jobs")'
    BY <1>6, <1>8, <1>9, <1>10 DEF Became
  <2>2. Became("points")'
    <3>1. PICK v \in Kinds : v = "points"
      BY <1>1
    <3>2. /\ Became(v) /\ asked'[v] = asked[v] /\ (v \in failed => v \in failed')
          /\ requests \ {r} \subseteq requests'
      BY <1>9, <1>10, <3>1 DEF IInv, Settled
    <3>3. Became(v)'
      BY <3>2, BecameApplied DEF IInv
    <3> QED BY <3>1, <3>3
  <2> QED BY <1>1, <2>1, <2>2 DEF Settled
<1>17. JobsToCome'
  <2>1. asked'["jobs"].n # 0
    BY <1>1, <1>8, <1>10
  <2> QED BY <2>1 DEF JobsToCome
<1> QED BY <1>12, <1>13, <1>14, <1>15, <1>16, <1>17 DEF IInv

\* A request fails.
LEMMA FailInv ==
  ASSUME IInv, NEW r \in requests, Fail(r)
  PROVE  IInv'
<1>0. /\ requests' = requests \ {r}
      /\ failed' = failed \union {w \in Kinds : w = r.what /\ r.n = asked[w].n}
                          \union {w \in Kinds : r.chained /\ asked[w].n = 0}
      /\ UNCHANGED <<page, known, selected, sent, shown, asked, latest, overtaken>>
  BY DEF Fail
<1>1. TypeOK'
  <2>1. requests' \subseteq Request /\ \A q, s \in requests' : q.n = s.n \/ (q.chained /\ s.chained) => q = s
    BY <1>0 DEF IInv, TypeOK
  <2>2. failed' \subseteq Kinds
    BY <1>0 DEF IInv, TypeOK
  <2> QED BY <1>0, <2>1, <2>2 DEF IInv, TypeOK
<1>2. Numbered' /\ ForSelected'
  BY <1>0 DEF IInv, Numbered, ForSelected
<1>3. InOrder'
  <2>1. asked["points"].n # 0
    BY DEF IInv, InOrder
  <2> QED BY <1>0, <2>1 DEF IInv, InOrder
<1>4. Settled'
  <2> SUFFICES ASSUME NEW w \in Kinds PROVE Became(w)'
    BY DEF Settled
  <2>1. Became(w)
    BY DEF IInv, Settled
  <2>2. r.what = w /\ r.n = asked[w].n => w \in failed'
    BY <1>0
  <2> QED BY <1>0, <2>1, <2>2 DEF Became
<1>5. JobsToCome'
  <2>1. "jobs" \in Kinds
    BY DEF Kinds
  <2>2. r.chained /\ asked["jobs"].n = 0 => "jobs" \in failed'
    BY <1>0, <2>1
  <2>3. "jobs" \in failed => "jobs" \in failed'
    BY <1>0
  <2> QED BY <1>0, <2>2, <2>3 DEF IInv, JobsToCome
<1> QED BY <1>1, <1>2, <1>3, <1>4, <1>5 DEF IInv

\* Every step keeps the invariant.
LEMMA InvNext == IInv /\ [Next]_vars => IInv'
<1> SUFFICES ASSUME IInv, [Next]_vars PROVE IInv'
  OBVIOUS
<1>1. CASE UNCHANGED vars
  <2>1. TypeOK'
    BY <1>1 DEF IInv, TypeOK, vars
  <2> QED BY <1>1, <2>1 DEF IInv, Numbered, InOrder, ForSelected, Settled, Became, JobsToCome, vars
<1>2. ASSUME NEW n \in 1..known, SelectChild(Roster[n]) PROVE IInv'
  <2>1. PICK c \in Kids : c = Roster[n]
    <3>1. known \in 0..Len(Roster) /\ Len(Roster) \in Nat
      BY RosterAssumption DEF IInv, TypeOK
    <3>2. n \in 1..Len(Roster)
      BY <3>1
    <3> QED BY <3>2, FirstChild
  <2> QED BY <1>2, <2>1, SelectInv
<1>3. ASSUME NEW r \in requests, Answer(r) PROVE IInv'
  <2>1. page = "open" /\ Apply(r) /\ UNCHANGED <<page, known, selected>>
    BY <1>3 DEF Answer
  <2>2. CASE r.chained /\ GoOn(r)
    BY <2>1, <2>2, GoOnInv
  <2>3. CASE ~r.chained /\ requests' = requests \ {r} /\ UNCHANGED <<sent, asked, failed>>
    BY <2>1, <2>3, AnswerInv
  <2> QED BY <1>3, <2>2, <2>3 DEF Answer
<1>4. ASSUME NEW r \in requests, AnswerClosed(r) PROVE IInv'
  BY <1>4, AnswerInv DEF AnswerClosed
<1>5. ASSUME NEW r \in requests, Fail(r) PROVE IInv'
  BY <1>5, FailInv
<1> QED BY <1>1, <1>2, <1>3, <1>4, <1>5, OpenInv, NotifyInv, LeaveInv DEF Next

-----------------------------------------------------------------------------
(* Theorems *)

\* The page and its requests have their types; in particular requests have
\* numbers of their own, and _fetchData awaits one at most.
THEOREM TypeCorrect == Spec => []TypeOK
<1>1. IInv => TypeOK
  BY DEF IInv
<1> QED BY <1>1, InitInv, InvNext, PTL DEF Spec

\* The page draws records that are not the selected child's only for the reasons
\* StaleHasReason names.
THEOREM StaleExplained == Spec => []StaleHasReason
<1> QED BY Reasons, InitInv, InvNext, PTL DEF Spec

-----------------------------------------------------------------------------
(* The weekly chart counts right for every list of chores, of any length: the
   loop invariant ChartIsExact relates each counter to the set of chores passed
   so far. *)

\* The week getWeekOfMonth computes is the week whose days contain the day.
LEMMA WeekIsRight ==
  ASSUME NEW day \in 1..31
  PROVE  /\ getWeekOfMonth(day) \in Weeks
         /\ \A w \in Weeks : getWeekOfMonth(day) = w <=> day \in DaysOfWeek(w)
<1>1. CASE day > 28
  BY <1>1, Z3 DEF getWeekOfMonth, Weeks, DaysOfWeek
<1>2. CASE day <= 28
  BY <1>2, Z3 DEF getWeekOfMonth, Weeks, DaysOfWeek
<1> QED BY <1>1, <1>2

\* The chores passed are finitely many.
LEMMA SeenFinite ==
  ASSUME ChartTypeOK, NEW t, NEW ds
  PROVE  /\ IsFiniteSet(Seen(t, ds)) /\ IsFiniteSet(SeenFinished(t, ds))
         /\ SeenFinished(t, ds) \subseteq Seen(t, ds)
<1>1. IsFiniteSet(1..(i - 1))
  BY FS_Interval DEF ChartTypeOK
<1>2. Seen(t, ds) \subseteq 1..(i - 1)
  BY DEF Seen
<1>3. SeenFinished(t, ds) \subseteq Seen(t, ds)
  BY DEF SeenFinished
<1> QED BY <1>1, <1>2, <1>3, FS_Subset

\* Type correctness of the loop.
THEOREM ChartTypes == ChartSpec => []ChartTypeOK
<1>1. ChartInit => ChartTypeOK
  <2> SUFFICES ASSUME ChartInit PROVE ChartTypeOK
    OBVIOUS
  <2>1. PICK n \in 0..MaxJobs : jobs \in [1..n -> Job]
    BY DEF ChartInit
  <2>2. jobs \in Seq(Job) /\ Len(jobs) = n
    BY <2>1, MaxJobsAssumption
  <2>3. NoJobs \in [WorkTypes -> [Weeks -> Nat]]
    BY DEF NoJobs
  <2> QED BY <2>2, <2>3 DEF ChartInit, ChartTypeOK
<1>2. ChartTypeOK /\ [Count]_chartVars => ChartTypeOK'
  <2> SUFFICES ASSUME ChartTypeOK, [Count]_chartVars PROVE ChartTypeOK'
    OBVIOUS
  <2>1. CASE Count
    <3> DEFINE w == getWeekOfMonth(jobs[i].day)
    <3>1. i \in 1..Len(jobs) /\ jobs \in Seq(Job)
      BY <2>1 DEF Count, ChartTypeOK
    <3>2. i' \in 1..(Len(jobs') + 1) /\ jobs' \in Seq(Job)
      BY <2>1, <3>1 DEF Count
    <3>3. total' \in [WorkTypes -> [Weeks -> Nat]]
      <4> HIDE DEF w
      <4>1. CASE jobs[i].type \in WorkTypes /\ w \in Weeks
        <5>1. total' = [total EXCEPT ![jobs[i].type] =
                          [total[jobs[i].type] EXCEPT ![w] = total[jobs[i].type][w] + 1]]
          BY <2>1, <4>1 DEF Count, w
        <5>2. total \in [WorkTypes -> [Weeks -> Nat]]
          BY DEF ChartTypeOK
        <5>3. [total[jobs[i].type] EXCEPT ![w] = total[jobs[i].type][w] + 1] \in [Weeks -> Nat]
          BY <4>1, <5>2
        <5> QED BY <5>1, <5>2, <5>3
      <4>2. CASE ~(jobs[i].type \in WorkTypes /\ w \in Weeks)
        BY <2>1, <4>2 DEF Count, w, ChartTypeOK
      <4> QED BY <4>1, <4>2
    <3>4. finishedOf' \in [WorkTypes -> [Weeks -> Nat]]
      <4> HIDE DEF w
      <4>1. CASE jobs[i].type \in WorkTypes /\ w \in Weeks /\ jobs[i].finish
        <5>1. finishedOf' = [finishedOf EXCEPT ![jobs[i].type] =
                  [finishedOf[jobs[i].type] EXCEPT ![w] = finishedOf[jobs[i].type][w] + 1]]
          BY <2>1, <4>1 DEF Count, w
        <5>2. finishedOf \in [WorkTypes -> [Weeks -> Nat]]
          BY DEF ChartTypeOK
        <5>3. [finishedOf[jobs[i].type] EXCEPT ![w] = finishedOf[jobs[i].type][w] + 1]
                \in [Weeks -> Nat]
          BY <4>1, <5>2
        <5> QED BY <5>1, <5>2, <5>3
      <4>2. CASE ~(jobs[i].type \in WorkTypes /\ w \in Weeks /\ jobs[i].finish)
        BY <2>1, <4>2 DEF Count, w, ChartTypeOK
      <4> QED BY <4>1, <4>2
    <3> QED BY <3>2, <3>3, <3>4 DEF ChartTypeOK
  <2>2. CASE UNCHANGED chartVars
    BY <2>2 DEF ChartTypeOK, chartVars
  <2> QED BY <2>1, <2>2
<1> QED BY <1>1, <1>2, PTL DEF ChartSpec

\* One turn of the loop adds the chore it looks at to the chores of its type
\* and week, and to no other.
LEMMA CountSeen ==
  ASSUME ChartTypeOK, Count, NEW t, NEW ds
  PROVE  LET hit == jobs[i].type = t /\ jobs[i].day \in ds IN
         /\ Seen(t, ds)' = IF hit THEN Seen(t, ds) \union {i} ELSE Seen(t, ds)
         /\ SeenFinished(t, ds)' = IF hit /\ jobs[i].finish
                                   THEN SeenFinished(t, ds) \union {i}
                                   ELSE SeenFinished(t, ds)
         /\ i \notin Seen(t, ds) /\ i \notin SeenFinished(t, ds)
<1>1. i \in Nat \ {0} /\ i' = i + 1 /\ jobs' = jobs
  BY DEF ChartTypeOK, Count
<1>2. 1..(i' - 1) = 1..(i - 1) \union {i} /\ i \notin 1..(i - 1)
  BY <1>1
<1>3. Seen(t, ds)' = {n \in 1..(i - 1) \union {i} : jobs[n].type = t /\ jobs[n].day \in ds}
  BY <1>1, <1>2, Zenon DEF Seen
<1>4. SeenFinished(t, ds)' = {n \in Seen(t, ds)' : jobs[n].finish}
  BY <1>1, Zenon DEF SeenFinished
<1>5. Seen(t, ds) = {n \in 1..(i - 1) : jobs[n].type = t /\ jobs[n].day \in ds}
  BY DEF Seen
<1>6. SeenFinished(t, ds) = {n \in Seen(t, ds) : jobs[n].finish}
  BY DEF SeenFinished
<1> HIDE DEF Seen, SeenFinished
<1>7. Seen(t, ds)' = IF jobs[i].type = t /\ jobs[i].day \in ds
                     THEN Seen(t, ds) \union {i} ELSE Seen(t, ds)
  BY <1>3, <1>5, Zenon
<1>8. i \notin Seen(t, ds) /\ i \notin SeenFinished(t, ds)
  BY <1>2, <1>5, <1>6
<1>9. SeenFinished(t, ds)' = IF jobs[i].type = t /\ jobs[i].day \in ds /\ jobs[i].finish
                             THEN SeenFinished(t, ds) \union {i}
                             ELSE SeenFinished(t, ds)
  BY <1>4, <1>6, <1>7, <1>8
<1> QED BY <1>7, <1>8, <1>9

\* The chart is exact: for every list of chores, every counter is the number of
\* the chores of its type and week.
THEOREM ChartExact == ChartSpec => []ChartIsExact
<1>1. ChartInit => ChartIsExact
  <2> SUFFICES ASSUME ChartInit, NEW t \in WorkTypes, NEW w \in Weeks
               PROVE  /\ total[t][w] = Cardinality(Seen(t, DaysOfWeek(w)))
                      /\ finishedOf[t][w] = Cardinality(SeenFinished(t, DaysOfWeek(w)))
    BY DEF ChartIsExact
  <2>1. Seen(t, DaysOfWeek(w)) = {} /\ SeenFinished(t, DaysOfWeek(w)) = {}
    BY DEF ChartInit, Seen, SeenFinished
  <2>2. total[t][w] = 0 /\ finishedOf[t][w] = 0
    BY DEF ChartInit, NoJobs
  <2> QED BY <2>1, <2>2, FS_EmptySet
<1>2. ChartTypeOK /\ ChartIsExact /\ [Count]_chartVars => ChartIsExact'
  <2> SUFFICES ASSUME ChartTypeOK, ChartIsExact, [Count]_chartVars PROVE ChartIsExact'
    OBVIOUS
  <2>1. CASE Count
    <3> SUFFICES ASSUME NEW t \in WorkTypes, NEW w \in Weeks
                 PROVE  /\ total'[t][w] = Cardinality(Seen(t, DaysOfWeek(w))')
                        /\ finishedOf'[t][w] = Cardinality(SeenFinished(t, DaysOfWeek(w))')
      BY DEF ChartIsExact
    <3> DEFINE S == Seen(t, DaysOfWeek(w))
               F == SeenFinished(t, DaysOfWeek(w))
               v == getWeekOfMonth(jobs[i].day)
    <3>1. i \in 1..Len(jobs) /\ jobs[i] \in Job
      BY <2>1 DEF Count, ChartTypeOK
    <3>2. v \in Weeks /\ (v = w <=> jobs[i].day \in DaysOfWeek(w))
      BY <3>1, WeekIsRight, DaysAssumption DEF Job
    <3>3. total[t][w] = Cardinality(S) /\ finishedOf[t][w] = Cardinality(F)
      BY DEF ChartIsExact
    <3>4. /\ total \in [WorkTypes -> [Weeks -> Nat]]
          /\ finishedOf \in [WorkTypes -> [Weeks -> Nat]]
      BY DEF ChartTypeOK
    <3>5. /\ total' = IF jobs[i].type \in WorkTypes /\ v \in Weeks
                      THEN [total EXCEPT ![jobs[i].type][v] = @ + 1] ELSE total
          /\ finishedOf' = IF jobs[i].type \in WorkTypes /\ v \in Weeks /\ jobs[i].finish
                           THEN [finishedOf EXCEPT ![jobs[i].type][v] = @ + 1] ELSE finishedOf
      BY <2>1 DEF Count
    <3>6. IsFiniteSet(S) /\ IsFiniteSet(F)
      BY SeenFinite
    <3>7. /\ S' = IF jobs[i].type = t /\ v = w THEN S \union {i} ELSE S
          /\ F' = IF jobs[i].type = t /\ v = w /\ jobs[i].finish
                  THEN F \union {i} ELSE F
          /\ i \notin S /\ i \notin F
      BY <2>1, <3>2, CountSeen, Zenon
    <3>8. /\ Cardinality(S \union {i}) = Cardinality(S) + 1
          /\ Cardinality(F \union {i}) = Cardinality(F) + 1
      BY <3>6, <3>7, FS_AddElement
    <3> HIDE DEF S, F, v
    <3>9. total'[t][w] = IF jobs[i].type = t /\ v = w THEN total[t][w] + 1 ELSE total[t][w]
      BY <3>2, <3>4, <3>5
    <3>10. finishedOf'[t][w] = IF jobs[i].type = t /\ v = w /\ jobs[i].finish
                               THEN finishedOf[t][w] + 1 ELSE finishedOf[t][w]
      BY <3>2, <3>4, <3>5
    <3>11. total'[t][w] = Cardinality(S')
      BY <3>3, <3>7, <3>8, <3>9
    <3>12. finishedOf'[t][w] = Cardinality(F')
      BY <3>3, <3>7, <3>8, <3>10
    <3> QED BY <3>11, <3>12 DEF S, F
  <2>2. CASE UNCHANGED chartVars
    <3>1. UNCHANGED <<jobs, i, total, finishedOf>>
      BY <2>2 DEF chartVars
    <3>2. \A t \in WorkTypes, w \in Weeks :
            /\ Seen(t, DaysOfWeek(w))' = Seen(t, DaysOfWeek(w))
            /\ SeenFinished(t, DaysOfWeek(w))' = SeenFinished(t, DaysOfWeek(w))
      BY <3>1 DEF Seen, SeenFinished, DaysOfWeek
    <3> QED BY <3>1, <3>2 DEF ChartIsExact
  <2> QED BY <2>1, <2>2
<1> QED BY <1>1, <1>2, ChartTypes, PTL DEF ChartSpec

\* No bar leaves the axis and no week divides by zero.
THEOREM BarsInRange == ChartSpec => []BarsOnAxis
<1>1. ChartTypeOK /\ ChartIsExact => BarsOnAxis
  <2> SUFFICES ASSUME ChartTypeOK, ChartIsExact, NEW t \in WorkTypes, NEW w \in Weeks
               PROVE  Bar(t, w).den > 0 /\ Bar(t, w).num \in 0..(100 * Bar(t, w).den)
    BY DEF BarsOnAxis, barGroups
  <2>1. total[t][w] \in Nat /\ finishedOf[t][w] \in Nat
    BY DEF ChartTypeOK
  <2>2. Cardinality(SeenFinished(t, DaysOfWeek(w))) <= Cardinality(Seen(t, DaysOfWeek(w)))
    BY SeenFinite, FS_Subset
  <2>3. finishedOf[t][w] <= total[t][w]
    BY <2>2 DEF ChartIsExact
  <2> QED BY <2>1, <2>3 DEF Bar
<1> QED BY <1>1, ChartTypes, ChartExact, PTL

-----------------------------------------------------------------------------
(* Types *)

Months == [year : Int, month : 1..12]

\* A month in numbers.
LEMMA OrdinalType ==
  ASSUME NEW m \in Months \union Moment
  PROVE  Ordinal(m) \in Int /\ m.year \in Int /\ m.month \in 1..12
BY DEF Ordinal, Months, Moment

\* The arrow to the left shows the month before, also in January.
LEMMA PreviousMonthIs ==
  ASSUME NEW m \in Months
  PROVE  PreviousMonth(m) \in Months /\ Ordinal(PreviousMonth(m)) = Ordinal(m) - 1
<1>1. PICK y \in Int, k \in 1..12 : m = [year |-> y, month |-> k]
  BY DEF Months
<1>2. CASE k > 1
  <2>1. PreviousMonth(m) = [year |-> y, month |-> k - 1] /\ k - 1 \in 1..12
    BY <1>1, <1>2 DEF PreviousMonth
  <2> QED BY <1>1, <2>1 DEF Ordinal, Months
<1>3. CASE k = 1
  <2>1. PreviousMonth(m) = [year |-> y - 1, month |-> 12] /\ y - 1 \in Int
    BY <1>1, <1>3 DEF PreviousMonth
  <2> QED BY <1>1, <1>3, <2>1 DEF Ordinal, Months
<1> QED BY <1>2, <1>3

\* The arrow to the right shows the month after, also in December.
LEMMA NextMonthIs ==
  ASSUME NEW m \in Months
  PROVE  NextMonth(m) \in Months /\ Ordinal(NextMonth(m)) = Ordinal(m) + 1
<1>1. PICK y \in Int, k \in 1..12 : m = [year |-> y, month |-> k]
  BY DEF Months
<1>2. CASE k < 12
  <2>1. NextMonth(m) = [year |-> y, month |-> k + 1] /\ k + 1 \in 1..12
    BY <1>1, <1>2 DEF NextMonth
  <2> QED BY <1>1, <2>1 DEF Ordinal, Months
<1>3. CASE k = 12
  <2>1. NextMonth(m) = [year |-> y + 1, month |-> 1] /\ y + 1 \in Int
    BY <1>1, <1>3 DEF NextMonth
  <2> QED BY <1>1, <1>3, <2>1 DEF Ordinal, Months
<1> QED BY <1>2, <1>3

\* A range is empty, or the page has a calendar and its ends are picked days.
Picked ==
  range # << >> =>
    /\ view \in WithCalendar
    /\ \E a, b \in PickedDays : Head(range) = a /\ range[Len(range)] = b

ViewInv == ViewTypeOK /\ Picked /\ MonthIsTaps

\* A page is opened on the month of today, and nothing is picked.
LEMMA ViewInitInv == ViewInit => ViewInv
<1> SUFFICES ASSUME ViewInit PROVE ViewInv
  OBVIOUS
<1>1. PICK t \in Moment : t = Today
  BY MomentsAssumption
<1>2. current \in Months /\ current.year = t.year /\ current.month = t.month
  BY <1>1, OrdinalType DEF ViewInit, Months
<1>3. Ordinal(current) = Ordinal(Today) /\ Ordinal(Today) \in Int /\ taps = 0
  BY <1>1, <1>2, OrdinalType DEF Ordinal, ViewInit
<1>4. MonthIsTaps
  BY <1>3 DEF MonthIsTaps
<1>5. range = << >> /\ range \in Seq(PickedDays) /\ Len(range) <= 2
  BY DEF ViewInit
<1>6. taps \in (-MaxTaps)..MaxTaps
  BY <1>3, BoundsAssumption
<1>7. ViewTypeOK
  BY <1>2, <1>5, <1>6 DEF ViewInit, ViewTypeOK, Months
<1> QED BY <1>4, <1>5, <1>7 DEF ViewInv, Picked

\* An arrow clears the range and moves by a month.
LEMMA ArrowInv ==
  ASSUME ViewInv, TapLeft \/ TapRight
  PROVE  ViewInv'
<1>1. current \in Months /\ taps \in Int /\ MaxTaps \in Nat /\ taps \in (-MaxTaps)..MaxTaps
  BY BoundsAssumption DEF ViewInv, ViewTypeOK, Months
<1>2. Ordinal(Today) \in Int /\ Ordinal(current) = Ordinal(Today) + taps
  BY OrdinalType, MomentsAssumption DEF ViewInv, MonthIsTaps
<1>3. range' = << >> /\ UNCHANGED <<view, owner, type, finished, entries, wanted, fetched>>
  BY DEF TapLeft, TapRight, Arrow
<1>4. range' \in Seq(PickedDays) /\ Len(range') <= 2
  BY <1>3
<1>5. CASE TapLeft
  <2>1. current' = PreviousMonth(current) /\ taps' = taps - 1 /\ taps > -MaxTaps
    BY <1>1, <1>5 DEF TapLeft, Arrow
  <2>2. current' \in Months /\ Ordinal(current)' = Ordinal(current) - 1
    BY <1>1, <2>1, PreviousMonthIs
  <2>3. taps' \in (-MaxTaps)..MaxTaps
    BY <1>1, <2>1
  <2>4. Ordinal(current)' = Ordinal(Today) + taps'
    BY <1>1, <1>2, <2>1, <2>2
  <2> QED BY <1>3, <1>4, <2>2, <2>3, <2>4 DEF ViewInv, ViewTypeOK, Months, Picked, MonthIsTaps
<1>6. CASE TapRight
  <2>1. current' = NextMonth(current) /\ taps' = taps + 1 /\ taps < MaxTaps
    BY <1>1, <1>6 DEF TapRight, Arrow
  <2>2. current' \in Months /\ Ordinal(current)' = Ordinal(current) + 1
    BY <1>1, <2>1, NextMonthIs
  <2>3. taps' \in (-MaxTaps)..MaxTaps
    BY <1>1, <2>1
  <2>4. Ordinal(current)' = Ordinal(Today) + taps'
    BY <1>1, <1>2, <2>1, <2>2
  <2> QED BY <1>3, <1>4, <2>2, <2>3, <2>4 DEF ViewInv, ViewTypeOK, Months, Picked, MonthIsTaps
<1> QED BY <1>5, <1>6

\* The calendar picks a day or two.
LEMMA PickInv ==
  ASSUME ViewInv, PickRange
  PROVE  ViewInv'
<1>1. UNCHANGED <<view, owner, type, finished, current, entries, wanted, fetched, taps>>
  BY DEF PickRange
<1>0. view' \in WithCalendar
  BY <1>1 DEF PickRange
<1>2. \/ \E d \in PickedDays : range' = <<d>>
      \/ \E a, b \in PickedDays : range' = <<a, b>>
  BY DEF PickRange
<1>3. ASSUME NEW d \in PickedDays, range' = <<d>>
      PROVE  range' \in Seq(PickedDays) /\ Len(range') <= 2 /\ Picked'
  BY <1>0, <1>3 DEF Picked
<1>4. ASSUME NEW a \in PickedDays, NEW b \in PickedDays, range' = <<a, b>>
      PROVE  range' \in Seq(PickedDays) /\ Len(range') <= 2 /\ Picked'
  BY <1>0, <1>4 DEF Picked
<1>5. range' \in Seq(PickedDays) /\ Len(range') <= 2 /\ Picked'
  BY <1>2, <1>3, <1>4
<1> QED BY <1>1, <1>5 DEF ViewInv, ViewTypeOK, MonthIsTaps

\* Every step keeps the month and the range.
LEMMA ViewInvNext == ViewInv /\ [ViewNext]_viewVars => ViewInv'
<1> SUFFICES ASSUME ViewInv, [ViewNext]_viewVars PROVE ViewInv'
  OBVIOUS
<1>1. CASE TapLeft \/ TapRight
  BY <1>1, ArrowInv
<1>2. CASE PickRange
  BY <1>2, PickInv
<1>3. ASSUME UNCHANGED <<view, type, current, range, taps>>,
             owner' \in Children \union {NoChild}, finished' \in BOOLEAN, entries' \subseteq Entries,
             wanted' \subseteq Children, fetched' \subseteq Entries
      PROVE  ViewInv'
  BY <1>3 DEF ViewInv, ViewTypeOK, Picked, MonthIsTaps
<1>4. /\ owner \in Children \union {NoChild} /\ finished \in BOOLEAN /\ entries \subseteq Entries
      /\ wanted \subseteq Children /\ fetched \subseteq Entries
  BY DEF ViewInv, ViewTypeOK
<1>5. CASE \E e \in Entries : Deliver(e)
  BY <1>3, <1>4, <1>5 DEF Deliver
<1>6. CASE \E c \in Children : SelectFirst(c) \/ TapDrawer(c)
  BY <1>3, <1>4, <1>6 DEF SelectFirst, TapDrawer
<1>7. CASE \E tab \in BOOLEAN : SetTab(tab)
  BY <1>3, <1>4, <1>7 DEF SetTab
<1>8. CASE \E c \in Children, kind \in {"point", "job"} : Fetched(kind, c)
  BY <1>3, <1>4, <1>8 DEF Fetched
<1>9. CASE UNCHANGED viewVars
  BY <1>3, <1>4, <1>9 DEF viewVars
<1> QED BY <1>1, <1>2, <1>5, <1>6, <1>7, <1>8, <1>9 DEF ViewNext

-----------------------------------------------------------------------------
(* Theorems *)

\* The state of a page has its types, whatever is tapped.
THEOREM ViewTypes == ViewSpec => []ViewTypeOK
<1>1. ViewInv => ViewTypeOK
  BY DEF ViewInv
<1> QED BY <1>1, ViewInitInv, ViewInvNext, PTL DEF ViewSpec

\* The arrows count months, across the turn of any year and whatever is picked.
THEOREM ArrowsCountMonths == ViewSpec => []MonthIsTaps
<1>1. ViewInv => MonthIsTaps
  BY DEF ViewInv
<1> QED BY <1>1, ViewInitInv, ViewInvNext, PTL DEF ViewSpec

\* A month has one number and a number one month.
LEMMA OneMonth ==
  ASSUME NEW d \in Months \union Moment, NEW m \in Months \union Moment
  PROVE  d.year = m.year /\ d.month = m.month <=> Ordinal(d) = Ordinal(m)
<1>1. PICK y \in Int, z \in Int, k \in 1..12, l \in 1..12 :
        y = d.year /\ z = m.year /\ k = d.month /\ l = m.month
  BY OrdinalType
<1>2. y = z /\ k = l <=> y * 12 + k = z * 12 + l
  OBVIOUS
<1> QED BY <1>1, <1>2 DEF Ordinal

\* What a page with a calendar lists is what it is about, of the time shown.
LEMMA ListIs ==
  ASSUME ViewInv
  PROVE  /\ Subject \subseteq Entries
         /\ view \in WithCalendar => List = {e \in Subject : Shown(e)}
<1>1. Subject \subseteq Entries
  BY DEF ViewInv, ViewTypeOK, Subject
<1>2. ASSUME view \in WithCalendar
      PROVE  List = {e \in Subject : Shown(e)}
  <2>1. view \in {"award", "detail", "work", "myDetail", "myWorks"} /\ view \notin Charts
    BY <1>2 DEF WithCalendar, WithArrows, Pages, ParentPages, Charts
  <2>2. CASE view = "award"
    BY <2>1, <2>2 DEF List, Subject, AwardList, Shown
  <2>3. CASE view = "detail"
    BY <2>1, <2>3 DEF List, Subject, DetailList, Shown
  <2>4. CASE view = "work"
    BY <2>1, <2>4 DEF List, Subject, WorkList, Shown
  <2>5. CASE view = "myDetail"
    BY <2>1, <2>5 DEF List, Subject, MyDetailList, Shown
  <2>6. CASE view = "myWorks"
    BY <2>1, <2>6 DEF List, Subject, MyWorksList, Shown
  <2> QED BY <2>1, <2>2, <2>3, <2>4, <2>5, <2>6
<1> QED BY <1>1, <1>2

\* Every page lists exactly its entries of the month the arrows have counted to.
THEOREM ListsTheirMonth == ViewSpec => []ListsItsMonth
<1>1. ASSUME ViewInv PROVE ListsItsMonth
  <2> SUFFICES ASSUME range = << >>, view \in WithArrows
               PROVE  List = {e \in Subject : Ordinal(e.date) = Ordinal(Today) + taps}
    BY DEF ListsItsMonth
  <2>1. current \in Months /\ Ordinal(current) = Ordinal(Today) + taps
    BY <1>1 DEF ViewInv, ViewTypeOK, MonthIsTaps, Months
  <2>2. \A e \in Subject : e.date \in Moment
    BY <1>1, ListIs, EntriesAssumption, MomentsAssumption DEF Entry
  <2>3. \A e \in Subject :
          e.date.year = current.year /\ e.date.month = current.month
            <=> Ordinal(e.date) = Ordinal(Today) + taps
    BY <2>1, <2>2, OneMonth
  <2>4. CASE view \in WithCalendar
    <3>1. \A e \in Subject : e.child = owner
      BY <2>4 DEF Subject, WithCalendar
    <3>2. \A e \in Subject : Shown(e) <=> Ordinal(e.date) = Ordinal(Today) + taps
      BY <2>3, <3>1 DEF Shown, isInMonth
    <3> QED BY <1>1, <2>4, <3>2, ListIs
  <2>5. CASE view \in Charts
    <3>1. List = Chart /\ Subject = fetched
      BY <2>5 DEF List, Subject, Charts
    <3>2. \A e \in fetched : getYearMonth(e.date) = getYearMonth(current)
                              <=> Ordinal(e.date) = Ordinal(Today) + taps
      BY <2>3, <3>1 DEF getYearMonth
    <3> QED BY <3>1, <3>2 DEF Chart
  <2> QED BY <2>4, <2>5 DEF WithCalendar
<1> QED BY <1>1, ViewInitInv, ViewInvNext, PTL DEF ViewSpec

\* A moment is twice its day, and one more later that day.
LEMMA InstantIs ==
  ASSUME NEW d \in Moment
  PROVE  Day(d) \in Int /\ Instant(d) = Day(d) * 2 + (IF d.late THEN 1 ELSE 0)
<1>1. Ordinal(d) \in Int /\ d.day \in Int
  BY OrdinalType DEF Moment
<1> QED BY <1>1 DEF Day, Instant

\* A picked range lists all of its days but the end of the last.
THEOREM RangesListTheirDays == ViewSpec => []RangeListsItsDays
<1>1. ASSUME ViewInv PROVE RangeListsItsDays
  <2> SUFFICES ASSUME range # << >>
               PROVE  LET first == Day(Head(range))
                          last == Day(range[Len(range)])
                      IN  /\ List \subseteq Subject
                          /\ \A e \in Subject :
                               /\ Day(e.date) \in first..(last - 1) => e \in List
                               /\ e \in List => /\ Day(e.date) \in first..last
                                                /\ Day(e.date) = last => ~e.date.late
    BY DEF RangeListsItsDays
  <2>1. PICK a \in PickedDays, b \in PickedDays : Head(range) = a /\ range[Len(range)] = b
    BY <1>1 DEF ViewInv, Picked
  <2>2. view \in WithCalendar /\ List = {e \in Subject : Shown(e)} /\ Subject \subseteq Entries
    BY <1>1, ListIs DEF ViewInv, Picked
  <2>3. a \in Moment /\ b \in Moment /\ ~a.late /\ ~b.late
    BY MomentsAssumption, PickedAssumption
  <2>4. ASSUME NEW e \in Subject
        PROVE  /\ Day(e.date) \in Day(a)..(Day(b) - 1) => e \in List
               /\ e \in List => /\ Day(e.date) \in Day(a)..Day(b)
                                /\ Day(e.date) = Day(b) => ~e.date.late
    <3>1. PICK d \in Moment : d = e.date
      BY <2>2, EntriesAssumption, MomentsAssumption DEF Entry
    <3>2. e \in List <=> isInRange(d, range)
      BY <2>2, <3>1 DEF Shown, Subject, WithCalendar
    <3>3. PICK x \in Int, y \in Int, z \in Int : x = Day(a) /\ y = Day(b) /\ z = Day(d)
      BY <2>3, InstantIs
    <3>4. PICK l \in {0, 1} : l = IF d.late THEN 1 ELSE 0
      OBVIOUS
    <3>5. Instant(a) = x * 2 /\ Instant(b) = y * 2 /\ Instant(d) = z * 2 + l
      BY <2>3, <3>3, <3>4, InstantIs
    <3>6. e \in List <=> x * 2 <= z * 2 + l
                        /\ (z * 2 + l < y * 2 \/ (EndIncluded /\ z * 2 + l = y * 2))
      BY <2>1, <3>2, <3>5 DEF isInRange
    <3>7. z \in x..(y - 1) => e \in List
      BY <3>6
    <3>8. e \in List => z \in x..y /\ (z = y => l = 0)
      BY <3>6
    <3>9. l = 0 => ~d.late
      BY <3>4
    <3> QED BY <3>1, <3>3, <3>7, <3>8, <3>9
  <2> QED BY <2>1, <2>2, <2>4
<1> QED BY <1>1, ViewInitInv, ViewInvNext, PTL DEF ViewSpec

=============================================================================
