--------------------------- MODULE JobBoardProofs ----------------------------
(* The safety properties of JobBoard and the refinement of Board, for every
   number of calls, chores, months and attempts. *)
EXTENDS JobBoard, FiniteSetTheorems, SequenceTheorems, WellFoundedInduction, TLAPS

-----------------------------------------------------------------------------
(* What the handlers make of a month's list. *)

\* The positions of a chore in a list.
PositionsOf(list, job) == {i \in DOMAIN list : list[i] = job}

\* They are what CountIn counts.
LEMMA CountsPositions ==
  \A list, job : CountIn(list, job) = Cardinality(PositionsOf(list, job))
BY DEF CountIn, PositionsOf

\* A set of numbers has a least one, so that Min is meaningful.
LEMMA MinIsLeast ==
  ASSUME NEW S \in SUBSET Nat, S # {}
  PROVE  Min(S) \in S
<1>1. PICK x \in S : \A y \in S : ~(<<y, x>> \in OpToRel(<, Nat))
  BY NatLessThanWellFounded, WFMin
<1>2. \A y \in S : ~(y < x)
  <2> SUFFICES ASSUME NEW y \in S, y < x PROVE FALSE
      OBVIOUS
  <2>1. <<y, x>> \in OpToRel(<, Nat)
    BY DEF OpToRel
  <2> QED BY <1>1, <2>1
<1>3. \A y \in S : x <= y
  BY <1>2
<1> QED BY <1>3 DEF Min

\* A chore with description k that is not finished is Open(k).
LEMMA OpenJob ==
  ASSUME NEW job \in Job, NEW k
  PROVE  IsOpen(job, k) <=> job = Open(k)
<1>1. job.finish \in BOOLEAN /\ job = [key |-> job.key, finish |-> job.finish]
  BY DEF Job
<1>2. ~job.finish <=> job.finish = FALSE
  BY <1>1, Zenon
<1>3. ASSUME job.key = k, job.finish = FALSE PROVE job = Open(k)
  BY <1>1, <1>3 DEF Open
<1>4. ASSUME job = Open(k) PROVE job.key = k /\ job.finish = FALSE
  BY <1>4 DEF Open
<1> QED BY <1>2, <1>3, <1>4 DEF IsOpen

\* FirstOpen is the position of an open chore, and 0 only if there is none.
LEMMA FirstOpenFinds ==
  ASSUME NEW list \in Seq(Job), NEW k
  PROVE  \/ FirstOpen(list, k) \in 1..Len(list) /\ list[FirstOpen(list, k)] = Open(k)
         \/ FirstOpen(list, k) = 0 /\ PositionsOf(list, Open(k)) = {}
<1> DEFINE I == {i \in 1..Len(list) : IsOpen(list[i], k)}
<1>1. FirstOpen(list, k) = IF I # {} THEN Min(I) ELSE 0
  BY DEF FirstOpen, SelectInSeq
<1>2. \A i \in 1..Len(list) : IsOpen(list[i], k) <=> list[i] = Open(k)
  <2>1. \A i \in 1..Len(list) : list[i] \in Job
    OBVIOUS
  <2> QED BY <2>1, OpenJob
<1>3. CASE I # {}
  <2>1. Min(I) \in I
    <3>1. I \in SUBSET Nat
      OBVIOUS
    <3> HIDE DEF I
    <3> QED BY <1>3, <3>1, MinIsLeast
  <2> QED BY <1>1, <1>2, <1>3, <2>1
<1>4. CASE I = {}
  <2>1. DOMAIN list = 1..Len(list)
    OBVIOUS
  <2> QED BY <1>1, <1>2, <1>4, <2>1 DEF PositionsOf
<1> QED BY <1>3, <1>4

\* The positions in a list are finitely many.
LEMMA PositionsFinite ==
  ASSUME NEW list \in Seq(Job), NEW job
  PROVE  IsFiniteSet(PositionsOf(list, job)) /\ CountIn(list, job) \in Nat
<1>1. IsFiniteSet(1..Len(list)) /\ DOMAIN list = 1..Len(list)
  BY FS_Interval
<1>2. IsFiniteSet(PositionsOf(list, job))
  BY <1>1, FS_Subset DEF PositionsOf
<1> QED BY <1>2, FS_CardinalityType, CountsPositions

\* createJob adds one open chore.
LEMMA CreateCounts ==
  ASSUME NEW list \in Seq(Job), NEW k \in Keys
  PROVE  /\ createJob(k, list) \in Seq(Job)
         /\ CountIn(createJob(k, list), Open(k)) = CountIn(list, Open(k)) + 1
         /\ \A job : job # Open(k) => CountIn(createJob(k, list), job) = CountIn(list, job)
         /\ \A i \in DOMAIN createJob(k, list) :
              \/ createJob(k, list)[i].key = k
              \/ \E j \in DOMAIN list : createJob(k, list)[i].key = list[j].key
<1> DEFINE new == createJob(k, list)
<1>1. /\ new \in Seq(Job) /\ Len(new) = Len(list) + 1 /\ Len(list) \in Nat
      /\ DOMAIN new = 1..Len(list) + 1 /\ DOMAIN list = 1..Len(list)
      /\ \A i \in 1..Len(list) : new[i] = list[i]
      /\ new[Len(list) + 1] = Open(k)
  BY DEF createJob, Open, Job
<1> HIDE DEF new
<1>2. PositionsOf(new, Open(k)) = PositionsOf(list, Open(k)) \union {Len(list) + 1}
      /\ Len(list) + 1 \notin PositionsOf(list, Open(k))
  BY <1>1 DEF PositionsOf
<1>3. CountIn(new, Open(k)) = CountIn(list, Open(k)) + 1
  BY <1>2, PositionsFinite, FS_AddElement, CountsPositions
<1>4. \A job : job # Open(k) => PositionsOf(new, job) = PositionsOf(list, job)
  BY <1>1 DEF PositionsOf
<1>5. \A i \in DOMAIN new : new[i].key = k \/ \E j \in DOMAIN list : new[i].key = list[j].key
  BY <1>1 DEF Open
<1> QED BY <1>1, <1>3, <1>4, <1>5, CountsPositions DEF new

\* finishJob turns an open chore into a finished one.
LEMMA FinishCounts ==
  ASSUME NEW list \in Seq(Job), NEW k \in Keys, FirstOpen(list, k) # 0
  PROVE  /\ finishJob(k, list) \in Seq(Job)
         /\ CountIn(list, Open(k)) > 0
         /\ CountIn(finishJob(k, list), Open(k)) = CountIn(list, Open(k)) - 1
         /\ CountIn(finishJob(k, list), Finished(k)) = CountIn(list, Finished(k)) + 1
         /\ \A job : job # Open(k) /\ job # Finished(k) =>
              CountIn(finishJob(k, list), job) = CountIn(list, job)
         /\ \A i \in DOMAIN finishJob(k, list) :
              \E j \in DOMAIN list : finishJob(k, list)[i].key = list[j].key
<1> DEFINE new == finishJob(k, list)
           f == FirstOpen(list, k)
<1>1. f \in 1..Len(list) /\ list[f] = Open(k)
  BY FirstOpenFinds
<1>2. DOMAIN list = 1..Len(list) /\ Len(list) \in Nat /\ \A i \in 1..Len(list) : list[i] \in Job
  OBVIOUS
<1>3. new = [list EXCEPT ![f] = Finished(k)]
  <2>1. [list[f] EXCEPT !.finish = TRUE] = Finished(k)
    <3>1. ASSUME NEW a, NEW b
          PROVE  [[key |-> k, finish |-> a] EXCEPT !.finish = b] = [key |-> k, finish |-> b]
      OBVIOUS
    <3> QED BY <1>1, <3>1 DEF Open, Finished
  <2> QED BY <2>1 DEF finishJob
<1>4. Finished(k) \in Job /\ Finished(k) # Open(k)
  BY DEF Finished, Open, Job
<1> HIDE DEF new, f
<1>5. /\ new \in Seq(Job) /\ DOMAIN new = 1..Len(list)
      /\ \A i \in 1..Len(list) : new[i] = IF i = f THEN Finished(k) ELSE list[i]
  BY <1>1, <1>2, <1>3, <1>4
<1>6. /\ PositionsOf(new, Open(k)) = PositionsOf(list, Open(k)) \ {f}
      /\ PositionsOf(new, Finished(k)) = PositionsOf(list, Finished(k)) \union {f}
      /\ f \in PositionsOf(list, Open(k)) /\ f \notin PositionsOf(list, Finished(k))
      /\ \A job : job # Open(k) /\ job # Finished(k) =>
           PositionsOf(new, job) = PositionsOf(list, job)
  BY <1>1, <1>2, <1>4, <1>5 DEF PositionsOf
<1>7. CountIn(new, Open(k)) = CountIn(list, Open(k)) - 1
  <2>1. IsFiniteSet(PositionsOf(list, Open(k)))
    BY PositionsFinite
  <2>2. Cardinality(PositionsOf(list, Open(k)) \ {f})
          = Cardinality(PositionsOf(list, Open(k))) - 1
    BY <1>6, <2>1, FS_RemoveElement
  <2> QED BY <1>6, <2>2, CountsPositions
<1>8. CountIn(new, Finished(k)) = CountIn(list, Finished(k)) + 1
  BY <1>6, PositionsFinite, FS_AddElement, CountsPositions
<1>9. CountIn(list, Open(k)) > 0
  <2>1. CountIn(list, Open(k)) \in Nat /\ CountIn(new, Open(k)) \in Nat
    BY <1>5, PositionsFinite
  <2> QED BY <2>1, <1>7
<1>10. \A i \in DOMAIN new : \E j \in DOMAIN list : new[i].key = list[j].key
  BY <1>1, <1>2, <1>5 DEF Open, Finished
<1> QED BY <1>5, <1>6, <1>7, <1>8, <1>9, <1>10, CountsPositions DEF new

\* What stands behind position f of a list.
LEMMA RestOfSeq ==
  ASSUME NEW list \in Seq(Job), NEW f \in 1..Len(list)
  PROVE  /\ SubSeq(list, f + 1, Len(list)) \in Seq(Job)
         /\ Len(SubSeq(list, f + 1, Len(list))) = Len(list) - f
         /\ \A i \in 1..Len(list) - f : SubSeq(list, f + 1, Len(list))[i] = list[i + f]
<1>1. PICK m \in Int, n \in Int : m = f + 1 /\ n = Len(list)
  OBVIOUS
<1>2. \A i \in m..n : list[i] \in Job
  BY <1>1
<1>3. /\ SubSeq(list, m, n) \in Seq(Job)
      /\ Len(SubSeq(list, m, n)) = IF m <= n THEN n - m + 1 ELSE 0
      /\ \A i \in 1..n - m + 1 : SubSeq(list, m, n)[i] = list[m + i - 1]
  BY <1>2, SubSeqProperties
<1>4. Len(SubSeq(list, m, n)) = n - f
  BY <1>1, <1>3
<1>5. ASSUME NEW i \in 1..n - f PROVE SubSeq(list, m, n)[i] = list[i + f]
  <2>1. i \in 1..n - m + 1 /\ m + i - 1 = i + f
    BY <1>1
  <2> QED BY <1>3, <2>1
<1> QED BY <1>1, <1>3, <1>4, <1>5

\* deleteJob removes one open chore; those behind it move up.
LEMMA DeleteCounts ==
  ASSUME NEW list \in Seq(Job), NEW k \in Keys, FirstOpen(list, k) # 0
  PROVE  /\ deleteJob(k, list) \in Seq(Job)
         /\ CountIn(list, Open(k)) > 0
         /\ CountIn(deleteJob(k, list), Open(k)) = CountIn(list, Open(k)) - 1
         /\ \A job : job # Open(k) => CountIn(deleteJob(k, list), job) = CountIn(list, job)
         /\ \A i \in DOMAIN deleteJob(k, list) :
              \E j \in DOMAIN list : deleteJob(k, list)[i].key = list[j].key
<1> DEFINE new == deleteJob(k, list)
           f == FirstOpen(list, k)
<1>1. f \in 1..Len(list) /\ list[f] = Open(k)
  BY FirstOpenFinds
<1>2. DOMAIN list = 1..Len(list) /\ Len(list) \in Nat /\ f \in Nat
  BY <1>1
<1>3. new = SubSeq(list, 1, f - 1) \o SubSeq(list, f + 1, Len(list))
  BY DEF deleteJob, RemoveAt
<1> HIDE DEF new, f
<1>4. /\ new \in Seq(Job) /\ DOMAIN new = 1..Len(list) - 1
      /\ \A i \in 1..Len(list) - 1 : new[i] = IF i < f THEN list[i] ELSE list[i + 1]
  <2> DEFINE A == SubSeq(list, 1, f - 1)
             B == SubSeq(list, f + 1, Len(list))
  <2>1. A \in Seq(Job) /\ Len(A) = f - 1 /\ \A i \in 1..f - 1 : A[i] = list[i]
    BY <1>1, <1>2
  <2>2. /\ B \in Seq(Job) /\ Len(B) = Len(list) - f
        /\ \A i \in 1..Len(list) - f : B[i] = list[i + f]
    BY <1>1, <1>2, RestOfSeq
  <2> HIDE DEF A, B
  <2>3. new = A \o B
    BY <1>3 DEF A, B
  <2>4. /\ new \in Seq(Job) /\ Len(new) = Len(A) + Len(B)
        /\ \A i \in 1..Len(A) + Len(B) : new[i] = IF i <= Len(A) THEN A[i] ELSE B[i - Len(A)]
    BY <2>1, <2>2, <2>3, ConcatProperties
  <2>5. Len(new) = Len(list) - 1 /\ DOMAIN new = 1..Len(list) - 1
    BY <2>1, <2>2, <2>4, <1>1, <1>2
  <2>6. ASSUME NEW i \in 1..Len(list) - 1
        PROVE  new[i] = IF i < f THEN list[i] ELSE list[i + 1]
    <3>1. new[i] = IF i <= Len(A) THEN A[i] ELSE B[i - Len(A)]
      BY <2>1, <2>2, <2>4, <1>1, <1>2
    <3>2. CASE i < f
      BY <3>1, <3>2, <2>1, <1>2
    <3>3. CASE ~(i < f)
      <4>1. i - Len(A) \in 1..Len(list) - f /\ (i - Len(A)) + f = i + 1 /\ ~(i <= Len(A))
        BY <3>3, <2>1, <1>2
      <4> QED BY <3>1, <3>3, <4>1, <2>2
    <3> QED BY <3>2, <3>3
  <2> QED BY <2>4, <2>5, <2>6
<1>5. ASSUME NEW job
      PROVE  Cardinality(PositionsOf(new, job)) = Cardinality(PositionsOf(list, job) \ {f})
  <2> DEFINE S == PositionsOf(new, job)
             T == PositionsOf(list, job) \ {f}
             g == [i \in S |-> IF i < f THEN i ELSE i + 1]
  <2>1. \A i \in S : i \in 1..Len(list) - 1
    BY <1>4 DEF PositionsOf
  <2>2. \A i \in S : g[i] \in T
    BY <1>1, <1>2, <1>4 DEF PositionsOf
  <2>3. \A i, j \in S : g[i] = g[j] => i = j
    BY <1>2, <2>1
  <2>4. ASSUME NEW j \in T PROVE \E i \in S : g[i] = j
    <3>1. j \in 1..Len(list) /\ j # f /\ list[j] = job
      BY <1>2 DEF PositionsOf
    <3>2. CASE j < f
      <4>1. j \in S
        BY <3>1, <3>2, <1>1, <1>2, <1>4 DEF PositionsOf
      <4> QED BY <3>2, <4>1
    <3>3. CASE ~(j < f)
      <4>1. j - 1 \in 1..Len(list) - 1 /\ ~(j - 1 < f) /\ (j - 1) + 1 = j
        BY <3>1, <3>3, <1>1, <1>2
      <4>2. j - 1 \in S
        BY <3>1, <4>1, <1>4 DEF PositionsOf
      <4> QED BY <4>1, <4>2
    <3> QED BY <3>2, <3>3
  <2>5. g \in Bijection(S, T)
    <3>1. g \in [S -> T]
      BY <2>2
    <3> QED BY <2>3, <2>4, <3>1 DEF Bijection, Injection, Surjection, IsInjective
  <2>6. IsFiniteSet(S)
    BY <1>4, PositionsFinite
  <2> HIDE DEF S, T, g
  <2>7. Cardinality(T) = Cardinality(S)
    BY <2>5, <2>6, FS_Bijection DEF ExistsBijection
  <2> QED BY <2>7 DEF S, T
<1>6. f \in PositionsOf(list, Open(k)) /\ \A job : job # Open(k) => f \notin PositionsOf(list, job)
  BY <1>1, <1>2 DEF PositionsOf
<1>7. CountIn(new, Open(k)) = CountIn(list, Open(k)) - 1
  <2>1. IsFiniteSet(PositionsOf(list, Open(k)))
    BY PositionsFinite
  <2>2. Cardinality(PositionsOf(list, Open(k)) \ {f})
          = Cardinality(PositionsOf(list, Open(k))) - 1
    BY <1>6, <2>1, FS_RemoveElement
  <2> QED BY <1>5, <2>2, CountsPositions
<1>8. ASSUME NEW job, job # Open(k) PROVE CountIn(new, job) = CountIn(list, job)
  <2>1. PositionsOf(list, job) \ {f} = PositionsOf(list, job)
    BY <1>6, <1>8
  <2> QED BY <1>5, <2>1, CountsPositions
<1>9. CountIn(list, Open(k)) > 0
  <2>1. CountIn(list, Open(k)) \in Nat /\ CountIn(new, Open(k)) \in Nat
    BY <1>4, PositionsFinite
  <2> QED BY <2>1, <1>7
<1>10. \A i \in DOMAIN new : \E j \in DOMAIN list : new[i].key = list[j].key
  <2>1. ASSUME NEW i \in DOMAIN new PROVE \E j \in DOMAIN list : new[i] = list[j]
    <3>1. i \in DOMAIN list /\ i + 1 \in DOMAIN list
      BY <1>2, <1>4
    <3> QED BY <1>4, <3>1
  <2> QED BY <2>1
<1> QED BY <1>4, <1>7, <1>8, <1>9, <1>10 DEF new

\* The chores of other descriptions are left alone, a finished one is never
\* lost, and what changes is what Board says.
LEMMA NewListCounts ==
  ASSUME NEW list \in Seq(Job), NEW k \in Keys, NEW o \in Operations,
         Writes(o, k, list)
  PROVE  /\ NewList(o, k, list) \in Seq(Job)
         /\ \A job : job # Open(k) /\ job # Finished(k) =>
              CountIn(NewList(o, k, list), job) = CountIn(list, job)
         /\ o = "create" =>
              /\ CountIn(NewList(o, k, list), Open(k)) = CountIn(list, Open(k)) + 1
              /\ CountIn(NewList(o, k, list), Finished(k)) = CountIn(list, Finished(k))
         /\ o = "finish" =>
              /\ CountIn(list, Open(k)) > 0
              /\ CountIn(NewList(o, k, list), Open(k)) = CountIn(list, Open(k)) - 1
              /\ CountIn(NewList(o, k, list), Finished(k)) = CountIn(list, Finished(k)) + 1
         /\ o = "delete" =>
              /\ CountIn(list, Open(k)) > 0
              /\ CountIn(NewList(o, k, list), Open(k)) = CountIn(list, Open(k)) - 1
              /\ CountIn(NewList(o, k, list), Finished(k)) = CountIn(list, Finished(k))
         /\ \A i \in DOMAIN NewList(o, k, list) :
              \/ NewList(o, k, list)[i].key = k
              \/ \E j \in DOMAIN list : NewList(o, k, list)[i].key = list[j].key
<1>0. Open(k) # Finished(k)
  BY DEF Open, Finished
<1>1. CASE o = "create"
  <2>1. NewList(o, k, list) = createJob(k, list)
    BY <1>1 DEF NewList, Writes
  <2> QED BY <1>0, <1>1, <2>1, CreateCounts
<1>2. CASE o = "finish"
  <2>1. NewList(o, k, list) = finishJob(k, list) /\ FirstOpen(list, k) # 0
    BY <1>2 DEF NewList, Writes
  <2> QED BY <1>2, <2>1, FinishCounts
<1>3. CASE o = "delete"
  <2>1. NewList(o, k, list) = deleteJob(k, list) /\ FirstOpen(list, k) # 0
    BY <1>3 DEF NewList, Writes
  <2> QED BY <1>0, <1>3, <2>1, DeleteCounts
<1> QED BY <1>1, <1>2, <1>3 DEF Operations

-----------------------------------------------------------------------------
(* The transactions. *)

Request == [op : Operations, key : Keys]
Tx == [try : 1..MaxAttempts, ver : Nat, write : BOOLEAN, data : Seq(Job)]

\* A call that was made has a request; it changed the board at most once for
\* each attempt it has finished.
Requested == \A c \in Calls : pc[c] # "idle" => request[c] \in Request
HitsBound ==
  \A c \in Calls : pc[c] \in {"idle", "get", "commit"} => hits[c] < tx[c].try

\* What a handler computed is right as long as the document has not changed.
TxFresh ==
  \A c \in Calls : pc[c] = "commit" =>
    LET o == request[c].op
        k == request[c].key
    IN /\ tx[c].ver <= jobVer
       /\ tx[c].ver = jobVer =>
            /\ tx[c].write = Writes(o, k, jobs[MonthOf[k]])
            /\ tx[c].data = NewList(o, k, jobs[MonthOf[k]])

Inv == TypeOK /\ Requested /\ HitsBound /\ TxFresh /\ RightMonth

\* The initial states are well typed and list every chore in its month.
LEMMA InitInv == Init => Inv
<1> SUFFICES ASSUME Init PROVE Inv
    OBVIOUS
<1>1. TypeOK
  <2>1. NoTx \in Tx
    BY AttemptsAssumption DEF NoTx, Tx
  <2>2. jobs \in [Months -> Seq(Job)]
    BY InitialJobsAssumption DEF Init
  <2> QED BY <2>1, <2>2, AttemptsAssumption DEF Init, TypeOK, Tx
<1>2. Requested /\ TxFresh
  BY DEF Init, Requested, TxFresh
<1>3. HitsBound
  BY DEF Init, HitsBound, NoTx
<1>4. RightMonth
  BY InitialMonthsAssumption DEF Init, RightMonth
<1> QED BY <1>1, <1>2, <1>3, <1>4 DEF Inv

\* A new list is a list of chores, whether the handler writes it or not.
LEMMA NewListType ==
  ASSUME NEW list \in Seq(Job), NEW k \in Keys, NEW o \in Operations
  PROVE  NewList(o, k, list) \in Seq(Job) /\ Writes(o, k, list) \in BOOLEAN
<1>1. CASE Writes(o, k, list)
  BY <1>1, NewListCounts DEF Writes
<1>2. CASE ~Writes(o, k, list)
  BY <1>2 DEF NewList, Writes
<1> QED BY <1>1, <1>2

\* The types of a call under way.
LEMMA CallTypes ==
  ASSUME TypeOK, Requested, NEW c \in Calls, pc[c] # "idle"
  PROVE  /\ request[c].op \in Operations /\ request[c].key \in Keys
         /\ MonthOf[request[c].key] \in Months
         /\ jobs[MonthOf[request[c].key]] \in Seq(Job)
         /\ tx[c] \in Tx /\ tx[c].try \in 1..MaxAttempts /\ tx[c].ver \in Nat
         /\ tx[c].write \in BOOLEAN /\ tx[c].data \in Seq(Job)
<1>1. request[c].op \in Operations /\ request[c].key \in Keys
  BY DEF Requested, Request
<1>2. tx[c] \in Tx
  BY DEF TypeOK, Tx
<1>3. tx[c].try \in 1..MaxAttempts /\ tx[c].ver \in Nat /\ tx[c].data \in Seq(Job)
  BY <1>2 DEF Tx
<1>4. tx[c].write \in BOOLEAN
  BY <1>2 DEF Tx
<1>5. MonthOf[request[c].key] \in Months
  BY <1>1, MonthsAssumption
<1>6. jobs[MonthOf[request[c].key]] \in Seq(Job)
  BY <1>5 DEF TypeOK
<1> QED BY <1>1, <1>2, <1>3, <1>4, <1>5, <1>6

\* An accepted write replaces the month's current list by what the handler
\* makes of it.
LEMMA WriteIsHandler ==
  ASSUME TypeOK, Requested, TxFresh, NEW c \in Calls, pc[c] = "commit",
         Accepted(c), tx[c].write, Write(c)
  PROVE  LET o == request[c].op
             k == request[c].key
             list == jobs[MonthOf[k]]
         IN /\ Writes(o, k, list)
            /\ jobs' = [jobs EXCEPT ![MonthOf[k]] = NewList(o, k, list)]
            /\ jobVer' = jobVer + 1
            /\ hits' = [hits EXCEPT ![c] = @ + 1]
BY DEF TxFresh, Accepted, Write

\* Where a call goes on; the others stay where they are.
LEMMA CallSteps ==
  ASSUME TypeOK, NEW c \in Calls,
         Step(c) \/ \E o \in Operations, k \in Keys : Call(c, o, k)
  PROVE  /\ \A d \in Calls \ {c} : /\ pc'[d] = pc[d] /\ request'[d] = request[d]
                                   /\ tx'[d] = tx[d] /\ hits'[d] = hits[d]
         /\ \/ pc[c] \in {"get", "commit"} /\ request' = request
            \/ \E o \in Operations, k \in Keys : Call(c, o, k)
<1>1. CASE Get(c) \/ GetFails(c) \/ \E o \in Operations, k \in Keys : Call(c, o, k)
  BY <1>1 DEF TypeOK, Get, GetFails, Call
<1>2. CASE Commit(c) \/ Reject(c) \/ Lost(c)
  <2>1. \A d \in Calls \ {c} : pc'[d] = pc[d] /\ tx'[d] = tx[d]
    BY <1>2 DEF TypeOK, Commit, Reject, Lost, Retry
  <2>2. \A d \in Calls \ {c} : hits'[d] = hits[d]
    BY <1>2 DEF TypeOK, Commit, Reject, Lost, Write
  <2>3. request' = request /\ pc[c] = "commit"
    BY <1>2 DEF Commit, Reject, Lost
  <2> QED BY <2>1, <2>2, <2>3
<1> QED BY <1>1, <1>2 DEF Step

\* Every step keeps the types and the bound on the changes.
LEMMA TypesNext ==
  ASSUME TypeOK, Requested, HitsBound,
         NEW c \in Calls, Step(c) \/ \E o \in Operations, k \in Keys : Call(c, o, k)
  PROVE  TypeOK' /\ Requested' /\ HitsBound'
<1>1. CASE \E o \in Operations, k \in Keys : Call(c, o, k)
  <2>1. PICK o \in Operations : \E k \in Keys : Call(c, o, k)
    BY <1>1
  <2>2. PICK k \in Keys : Call(c, o, k)
    BY <2>1
  <2>3. [op |-> o, key |-> k] \in Request
    BY DEF Request
  <2>4. TypeOK'
    BY <2>2, <2>3 DEF Call, TypeOK, Request
  <2>5. Requested'
    BY <2>2, <2>3 DEF Call, TypeOK, Requested
  <2>6. HitsBound'
    BY <2>2 DEF Call, TypeOK, HitsBound
  <2> QED BY <2>4, <2>5, <2>6
<1>2. CASE Step(c)
  <2>0. /\ pc[c] \in {"get", "commit"} /\ request' = request
        /\ \A d \in Calls \ {c} : pc'[d] = pc[d] /\ tx'[d] = tx[d] /\ hits'[d] = hits[d]
    BY <1>2, CallSteps DEF Step, Get, Commit, Reject, Lost, GetFails
  <2>1. /\ request[c].op \in Operations /\ request[c].key \in Keys
        /\ MonthOf[request[c].key] \in Months
        /\ jobs[MonthOf[request[c].key]] \in Seq(Job)
        /\ tx[c] \in Tx /\ tx[c].try \in 1..MaxAttempts /\ tx[c].data \in Seq(Job)
    BY <2>0, CallTypes
  <2>2. hits[c] < tx[c].try /\ hits[c] \in Nat
    BY <2>0, AttemptsAssumption DEF HitsBound, TypeOK
  <2>3. Requested'
    BY <2>0 DEF Requested
  <2>4. CASE Get(c)
    <3> DEFINE new == [try |-> tx[c].try, ver |-> jobVer,
              write |-> Writes(request[c].op, request[c].key, jobs[MonthOf[request[c].key]]),
              data |-> NewList(request[c].op, request[c].key, jobs[MonthOf[request[c].key]])]
    <3>1. new \in Tx
      <4>1. NewList(request[c].op, request[c].key, jobs[MonthOf[request[c].key]]) \in Seq(Job)
            /\ Writes(request[c].op, request[c].key, jobs[MonthOf[request[c].key]]) \in BOOLEAN
        BY <2>1, NewListType
      <4> QED BY <2>1, <4>1 DEF Tx, TypeOK
    <3>2. tx' = [tx EXCEPT ![c] = new] /\ pc' = [pc EXCEPT ![c] = "commit"]
          /\ UNCHANGED <<jobs, jobVer, request, hits>> /\ new.try = tx[c].try
      BY <2>4 DEF Get
    <3> HIDE DEF new
    <3>3. TypeOK'
      BY <3>1, <3>2 DEF TypeOK, Tx
    <3>4. HitsBound'
      BY <3>2, <2>2 DEF TypeOK, HitsBound
    <3> QED BY <2>3, <3>3, <3>4
  <2>5. CASE GetFails(c)
    BY <2>3, <2>5 DEF GetFails, TypeOK, HitsBound
  <2>6. CASE Commit(c) \/ Reject(c) \/ Lost(c)
    <3>1. jobs' \in [Months -> Seq(Job)] /\ jobVer' \in Nat
      <4>1. \/ jobs' = jobs /\ jobVer' = jobVer
            \/ /\ jobs' = [jobs EXCEPT ![MonthOf[request[c].key]] = tx[c].data]
               /\ jobVer' = jobVer + 1
        BY <2>6 DEF Commit, Reject, Lost, Write
      <4>2. jobs \in [Months -> Seq(Job)] /\ jobVer \in Nat
        BY DEF TypeOK
      <4> QED BY <4>1, <4>2, <2>1
    <3>2. hits' \in [Calls -> 0..MaxAttempts] /\ hits'[c] \in {hits[c], hits[c] + 1}
          /\ (Reject(c) => hits' = hits)
      <4>1. hits[c] + 1 \in 0..MaxAttempts
        BY <2>1, <2>2, AttemptsAssumption
      <4>2. hits' = hits \/ hits' = [hits EXCEPT ![c] = @ + 1]
        BY <2>6 DEF Commit, Reject, Lost, Write
      <4>3. Reject(c) => hits' = hits
        BY DEF Reject
      <4> QED BY <4>1, <4>2, <4>3 DEF TypeOK
    <3>3. \/ /\ tx' = tx
             /\ \/ pc' = [pc EXCEPT ![c] = "done"]
                \/ pc' = [pc EXCEPT ![c] = "failed"]
          \/ /\ tx[c].try < MaxAttempts
             /\ tx' = [tx EXCEPT ![c].try = @ + 1] /\ pc' = [pc EXCEPT ![c] = "get"]
      BY <2>6 DEF Commit, Reject, Lost, Retry
    <3>4. tx' \in [Calls -> Tx] /\ pc' \in [Calls -> {"idle", "get", "commit", "done", "failed"}]
      <4>1. ASSUME tx[c].try < MaxAttempts PROVE [tx[c] EXCEPT !.try = @ + 1] \in Tx
        <5>1. tx[c].try + 1 \in 1..MaxAttempts
          BY <2>1, <4>1, AttemptsAssumption
        <5> QED BY <2>1, <5>1 DEF Tx
      <4>2. tx \in [Calls -> Tx] /\ pc \in [Calls -> {"idle", "get", "commit", "done", "failed"}]
        BY DEF TypeOK, Tx
      <4> QED BY <3>3, <4>1, <4>2
    <3>5. TypeOK'
      BY <3>1, <3>2, <3>4, <2>0 DEF TypeOK, Tx
    <3>6. pc'[c] \in {"done", "failed"} \/ hits'[c] < tx'[c].try
      <4>1. CASE pc'[c] \notin {"done", "failed"}
        <5>1. tx'[c].try = tx[c].try + 1
          BY <4>1, <3>3, <2>1 DEF TypeOK, Tx
        <5> QED BY <5>1, <2>1, <2>2, <3>2
      <4> QED BY <4>1
    <3>7. HitsBound'
      BY <3>6, <2>0 DEF HitsBound
    <3> QED BY <2>3, <3>5, <3>7
  <2> QED BY <1>2, <2>4, <2>5, <2>6 DEF Step
<1> QED BY <1>1, <1>2

\* A computation stays right until the document changes, and is then stale for
\* ever: versions only grow.
LEMMA TxFreshNext ==
  ASSUME TypeOK, Requested, TxFresh,
         NEW c \in Calls, Step(c) \/ \E o \in Operations, k \in Keys : Call(c, o, k)
  PROVE  TxFresh'
<1> DEFINE Fresh(d) ==
      /\ tx[d].ver <= jobVer
      /\ tx[d].ver = jobVer =>
           /\ tx[d].write = Writes(request[d].op, request[d].key, jobs[MonthOf[request[d].key]])
           /\ tx[d].data = NewList(request[d].op, request[d].key, jobs[MonthOf[request[d].key]])
<1>0. \A d \in Calls : pc[d] = "commit" => Fresh(d) /\ tx[d].ver \in Nat /\ jobVer \in Nat
  <2>1. \A d \in Calls : pc[d] = "commit" => tx[d].ver \in Nat
    BY CallTypes
  <2> QED BY <2>1 DEF TxFresh, TypeOK
<1>1. \/ UNCHANGED <<jobs, jobVer>> \/ jobVer' = jobVer + 1
  BY DEF Step, Call, Get, Commit, Reject, Lost, GetFails, Write
<1>2. ASSUME NEW d \in Calls \ {c}, pc'[d] = "commit" PROVE Fresh(d)'
  <2>1. pc[d] = "commit" /\ request'[d] = request[d] /\ tx'[d] = tx[d]
    BY <1>2, CallSteps
  <2>2. CASE UNCHANGED <<jobs, jobVer>>
    BY <2>1, <2>2, <1>0
  <2>3. CASE jobVer' = jobVer + 1
    <3>1. tx'[d].ver < jobVer'
      BY <2>1, <2>3, <1>0
    <3>2. tx'[d].ver \in Nat /\ jobVer' \in Nat
      BY <2>1, <2>3, <1>0
    <3> QED BY <3>1, <3>2
  <2> QED BY <1>1, <2>2, <2>3
<1>3. ASSUME pc'[c] = "commit" PROVE Fresh(c)'
  <2>1. Get(c)
    <3>1. CASE GetFails(c) \/ Commit(c) \/ Reject(c) \/ Lost(c)
      BY <3>1, <1>3 DEF GetFails, Commit, Reject, Lost, Retry, TypeOK
    <3>2. CASE \E o \in Operations, k \in Keys : Call(c, o, k)
      BY <3>2, <1>3 DEF Call, TypeOK
    <3> QED BY <3>1, <3>2 DEF Step
  <2>2. /\ tx'[c].ver = jobVer
        /\ tx'[c].write = Writes(request[c].op, request[c].key, jobs[MonthOf[request[c].key]])
        /\ tx'[c].data = NewList(request[c].op, request[c].key, jobs[MonthOf[request[c].key]])
    BY <2>1 DEF Get, TypeOK
  <2>3. UNCHANGED <<jobs, jobVer, request>> /\ jobVer \in Nat
    BY <2>1 DEF Get, TypeOK
  <2> QED BY <2>2, <2>3
<1> QED BY <1>2, <1>3 DEF TxFresh

\* The list a call writes holds the month's chores and its own.
LEMMA RightMonthNext ==
  ASSUME TypeOK, Requested, TxFresh, RightMonth,
         NEW c \in Calls, Step(c) \/ \E o \in Operations, k \in Keys : Call(c, o, k)
  PROVE  RightMonth'
<1>1. CASE jobs' = jobs
  BY <1>1 DEF RightMonth
<1>2. CASE jobs' # jobs
  <2>1. pc[c] = "commit" /\ Accepted(c) /\ tx[c].write /\ Write(c)
    BY <1>2 DEF Step, Call, Get, Commit, Reject, Lost, GetFails, Write
  <2>2. PICK o \in Operations : o = request[c].op
    BY <2>1, CallTypes
  <2>3. PICK k \in Keys : k = request[c].key
    BY <2>1, CallTypes
  <2>4. PICK list \in Seq(Job) : list = jobs[MonthOf[k]]
    BY <2>1, <2>3, CallTypes
  <2>5. Writes(o, k, list) /\ jobs' = [jobs EXCEPT ![MonthOf[k]] = NewList(o, k, list)]
    BY <2>1, <2>2, <2>3, <2>4, WriteIsHandler
  <2>6. MonthOf[k] \in Months
    BY MonthsAssumption
  <2>7. \A i \in DOMAIN NewList(o, k, list) : MonthOf[NewList(o, k, list)[i].key] = MonthOf[k]
    <3>1. \A j \in DOMAIN list : MonthOf[list[j].key] = MonthOf[k]
      BY <2>4, <2>6 DEF RightMonth
    <3> QED BY <2>5, <3>1, NewListCounts
  <2> QED BY <2>5, <2>6, <2>7 DEF RightMonth, TypeOK
<1> QED BY <1>1, <1>2

\* Inv holds in every reachable state.
THEOREM JobInvariance == Spec => []Inv
<1>1. Inv /\ [Next]_vars => Inv'
  <2> SUFFICES ASSUME Inv, [Next]_vars PROVE Inv'
      OBVIOUS
  <2>1. CASE Next
    BY <2>1, TypesNext, TxFreshNext, RightMonthNext DEF Inv, Next
  <2>2. CASE UNCHANGED vars
    BY <2>2 DEF vars, Inv, TypeOK, Requested, HitsBound, TxFresh, RightMonth
  <2> QED BY <2>1, <2>2
<1> QED BY <1>1, InitInv, PTL DEF Spec

\* A chore is always listed in the month of its own date.
THEOREM ChoresInTheirMonth == Spec => []RightMonth
BY JobInvariance, PTL DEF Inv

-----------------------------------------------------------------------------
(* The counts of open and finished chores. *)

\* The counts are numbers.
LEMMA CountType ==
  ASSUME TypeOK, NEW k \in Keys
  PROVE  OpenCount(k) \in Nat /\ FinishedCount(k) \in Nat
<1>1. jobs[MonthOf[k]] \in Seq(Job)
  BY MonthsAssumption DEF TypeOK
<1> QED BY <1>1, PositionsFinite DEF OpenCount, FinishedCount

\* A write changes the counts of the chore it is about as Board says, and no
\* other count.
LEMMA WriteCounts ==
  ASSUME TypeOK, Requested, TxFresh, NEW c \in Calls, pc[c] = "commit",
         Accepted(c), tx[c].write, Write(c), NEW k \in Keys, k = request[c].key
  PROVE  /\ \A q \in Keys \ {k} : /\ OpenCount(q)' = OpenCount(q)
                                  /\ FinishedCount(q)' = FinishedCount(q)
         /\ request[c].op = "create" => /\ OpenCount(k)' = OpenCount(k) + 1
                                        /\ FinishedCount(k)' = FinishedCount(k)
         /\ request[c].op = "finish" => /\ OpenCount(k) > 0
                                        /\ OpenCount(k)' = OpenCount(k) - 1
                                        /\ FinishedCount(k)' = FinishedCount(k) + 1
         /\ request[c].op = "delete" => /\ OpenCount(k) > 0
                                        /\ OpenCount(k)' = OpenCount(k) - 1
                                        /\ FinishedCount(k)' = FinishedCount(k)
<1>1. PICK o \in Operations : o = request[c].op
  BY CallTypes
<1>3. PICK list \in Seq(Job) : list = jobs[MonthOf[k]]
  BY CallTypes
<1>4. Writes(o, k, list) /\ jobs' = [jobs EXCEPT ![MonthOf[k]] = NewList(o, k, list)]
  BY <1>1, <1>3, WriteIsHandler
<1>5. \A q \in Keys : MonthOf[q] \in Months
  BY MonthsAssumption
<1>6. /\ jobs'[MonthOf[k]] = NewList(o, k, list)
      /\ \A q \in Keys : MonthOf[q] # MonthOf[k] => jobs'[MonthOf[q]] = jobs[MonthOf[q]]
  BY <1>4, <1>5 DEF TypeOK
<1>7. \A q : /\ OpenCount(q)' = CountIn(jobs'[MonthOf[q]], Open(q))
             /\ FinishedCount(q)' = CountIn(jobs'[MonthOf[q]], Finished(q))
  BY DEF OpenCount, FinishedCount
<1>8. ASSUME NEW q \in Keys \ {k}
      PROVE  /\ OpenCount(q)' = OpenCount(q)
             /\ FinishedCount(q)' = FinishedCount(q)
  <2>1. CASE MonthOf[q] # MonthOf[k]
    BY <2>1, <1>6, <1>7 DEF OpenCount, FinishedCount
  <2>2. CASE MonthOf[q] = MonthOf[k]
    <3>1. /\ Open(q) # Open(k) /\ Open(q) # Finished(k)
          /\ Finished(q) # Open(k) /\ Finished(q) # Finished(k)
      BY DEF Open, Finished
    <3>2. /\ CountIn(NewList(o, k, list), Open(q)) = CountIn(list, Open(q))
          /\ CountIn(NewList(o, k, list), Finished(q)) = CountIn(list, Finished(q))
      BY <1>4, <3>1, NewListCounts
    <3> QED BY <2>2, <3>2, <1>3, <1>6, <1>7 DEF OpenCount, FinishedCount
  <2> QED BY <2>1, <2>2
<1>9. /\ OpenCount(k) = CountIn(list, Open(k)) /\ FinishedCount(k) = CountIn(list, Finished(k))
      /\ OpenCount(k)' = CountIn(NewList(o, k, list), Open(k))
      /\ FinishedCount(k)' = CountIn(NewList(o, k, list), Finished(k))
  BY <1>3, <1>6, <1>7 DEF OpenCount, FinishedCount
<1>10. o = "create" => /\ OpenCount(k)' = OpenCount(k) + 1
                       /\ FinishedCount(k)' = FinishedCount(k)
  BY <1>4, <1>9, NewListCounts
<1>11. o = "finish" => /\ OpenCount(k) > 0
                       /\ OpenCount(k)' = OpenCount(k) - 1
                       /\ FinishedCount(k)' = FinishedCount(k) + 1
  BY <1>4, <1>9, NewListCounts
<1>12. o = "delete" => /\ OpenCount(k) > 0
                       /\ OpenCount(k)' = OpenCount(k) - 1
                       /\ FinishedCount(k)' = FinishedCount(k)
  BY <1>4, <1>9, NewListCounts
<1> QED BY <1>1, <1>8, <1>10, <1>11, <1>12

\* A step without a write leaves the counts alone.
LEMMA CountSame ==
  ASSUME jobs' = jobs
  PROVE  \A k : OpenCount(k)' = OpenCount(k) /\ FinishedCount(k)' = FinishedCount(k)
BY DEF OpenCount, FinishedCount, CountIn

\* A confirmed chore is never removed and never reopened.
THEOREM FinishedStay == Spec => FinishedForGood
<1> DEFINE Kept == \A k \in Keys : FinishedCount(k)' >= FinishedCount(k)
<1>1. ASSUME Inv, [Next]_vars PROVE [Kept]_vars
  <2>0. \A k \in Keys : FinishedCount(k) \in Nat
    BY <1>1, CountType DEF Inv
  <2>1. ASSUME jobs' = jobs PROVE Kept
    BY <2>0, <2>1, CountSame
  <2>2. ASSUME NEW c \in Calls, jobs' # jobs,
               Step(c) \/ \E o \in Operations, k \in Keys : Call(c, o, k)
        PROVE  Kept
    <3>1. pc[c] = "commit" /\ Accepted(c) /\ tx[c].write /\ Write(c)
      BY <2>2 DEF Step, Call, Get, Commit, Reject, Lost, GetFails, Write
    <3>2. request[c].op \in Operations /\ request[c].key \in Keys
      BY <1>1, <3>1, CallTypes DEF Inv
    <3>3. ASSUME NEW k \in Keys
          PROVE  FinishedCount(k)' = FinishedCount(k) \/ FinishedCount(k)' = FinishedCount(k) + 1
      <4>1. TypeOK /\ Requested /\ TxFresh
        BY <1>1 DEF Inv
      <4>2. PICK q \in Keys : q = request[c].key
        BY <3>2
      <4>3. CASE k # q
        BY <3>1, <4>1, <4>2, <4>3, WriteCounts
      <4>4. CASE k = q
        <5>1. request[c].op \in {"create", "finish", "delete"}
          BY <3>2 DEF Operations
        <5> QED BY <3>1, <4>1, <4>2, <4>4, <5>1, WriteCounts
      <4> QED BY <4>3, <4>4
    <3> QED BY <2>0, <3>3
  <2> QED BY <1>1, <2>1, <2>2 DEF Next
<1> QED BY <1>1, JobInvariance, PTL DEF Spec, FinishedForGood

-----------------------------------------------------------------------------
(* JobBoard implements Board. *)

\* The initial states map to initial states of Board.
LEMMA BoardInit == Init => Abs!Init
<1> SUFFICES ASSUME Init PROVE Abs!Init
    OBVIOUS
<1>1. TypeOK
  BY InitInv DEF Inv
<1>2. \A k \in Keys : OpenCount(k) \in Nat /\ FinishedCount(k) \in Nat
  BY <1>1, CountType
<1>3. \A c \in Calls : StatusOf(c) = "idle"
  BY DEF Init, StatusOf
<1>4. request = [c \in Calls |-> Abs!NoRequest] /\ hits = [c \in Calls |-> 0]
  BY DEF Init, NoRequest, Abs!NoRequest
<1> QED BY <1>2, <1>3, <1>4 DEF Abs!Init

\* A handler that writes nothing found no open chore.
LEMMA MissMeansNone ==
  ASSUME TypeOK, Requested, TxFresh, NEW c \in Calls, pc[c] = "commit",
         Accepted(c), ~tx[c].write
  PROVE  request[c].op # "create" /\ OpenCount(request[c].key) = 0
<1>1. PICK list \in Seq(Job) : list = jobs[MonthOf[request[c].key]]
  BY CallTypes
<1>2. ~Writes(request[c].op, request[c].key, list)
  BY <1>1 DEF TxFresh, Accepted
<1>3. request[c].op # "create" /\ FirstOpen(list, request[c].key) = 0
  BY <1>2 DEF Writes
<1>4. PositionsOf(list, Open(request[c].key)) = {}
  <2>1. ~(FirstOpen(list, request[c].key) \in 1..Len(list))
    BY <1>3
  <2> QED BY <2>1, FirstOpenFinds
<1> QED BY <1>1, <1>3, <1>4, CountsPositions, FS_EmptySet DEF OpenCount

\* Every step maps to a step of Board or leaves its variables alone.
LEMMA BoardNext ==
  ASSUME Inv, [Next]_vars
  PROVE  [Abs!Next]_(Abs!vars)
<1> DEFINE open == [k \in Keys |-> OpenCount(k)]
           finished == [k \in Keys |-> FinishedCount(k)]
           status == [c \in Calls |-> StatusOf(c)]
<1>0. TypeOK /\ Requested /\ HitsBound /\ TxFresh
  BY DEF Inv
<1>1. ASSUME NEW c \in Calls, NEW o \in Operations, NEW k \in Keys, Call(c, o, k)
      PROVE  Abs!Begin(c, o, k)
  <2>1. status[c] = "idle" /\ status' = [status EXCEPT ![c] = "pending"]
    BY <1>0, <1>1 DEF TypeOK, Call, StatusOf
  <2>2. open' = open /\ finished' = finished
    BY <1>1, CountSame DEF Call
  <2>3. request' = [request EXCEPT ![c] = [op |-> o, key |-> k]] /\ hits' = hits
    BY <1>1 DEF Call
  <2> QED BY <2>1, <2>2, <2>3 DEF Abs!Begin
<1>2. ASSUME NEW c \in Calls, pc[c] = "commit", Accepted(c), tx[c].write, Write(c),
             request' = request
      PROVE  Abs!Change(c)
  <2>1. status[c] = "pending"
    BY <1>2 DEF StatusOf
  <2>2. PICK k \in Keys : k = request[c].key
    BY <1>0, <1>2, CallTypes
  <2>3. request[c].op \in Operations /\ tx[c].try \in 1..MaxAttempts
    BY <1>0, <1>2, CallTypes
  <2>4. hits[c] < MaxAttempts
    <3>1. hits[c] < tx[c].try /\ hits[c] \in 0..MaxAttempts
      BY <1>0, <1>2 DEF HitsBound, TypeOK
    <3> QED BY <3>1, <2>3, AttemptsAssumption
  <2>5. hits' = [hits EXCEPT ![c] = @ + 1]
    BY <1>2 DEF Write
  <2>6. \A q \in Keys \ {k} : OpenCount(q)' = OpenCount(q) /\ FinishedCount(q)' = FinishedCount(q)
    BY <1>0, <1>2, <2>2, WriteCounts
  <2>7. CASE request[c].op = "create"
    <3>1. OpenCount(k)' = OpenCount(k) + 1 /\ FinishedCount(k)' = FinishedCount(k)
      BY <1>0, <1>2, <2>2, <2>7, WriteCounts
    <3>2. open' = [open EXCEPT ![k] = @ + 1] /\ finished' = finished
      BY <2>6, <3>1
    <3> QED BY <1>2, <2>1, <2>2, <2>4, <2>5, <2>7, <3>2 DEF Abs!Change
  <2>8. CASE request[c].op = "finish"
    <3>1. /\ OpenCount(k) > 0 /\ OpenCount(k)' = OpenCount(k) - 1
          /\ FinishedCount(k)' = FinishedCount(k) + 1
      BY <1>0, <1>2, <2>2, <2>8, WriteCounts
    <3>2. /\ open[k] > 0 /\ open' = [open EXCEPT ![k] = @ - 1]
          /\ finished' = [finished EXCEPT ![k] = @ + 1]
      BY <2>6, <3>1
    <3> QED BY <1>2, <2>1, <2>2, <2>4, <2>5, <2>8, <3>2 DEF Abs!Change
  <2>9. CASE request[c].op = "delete"
    <3>1. /\ OpenCount(k) > 0 /\ OpenCount(k)' = OpenCount(k) - 1
          /\ FinishedCount(k)' = FinishedCount(k)
      BY <1>0, <1>2, <2>2, <2>9, WriteCounts
    <3>2. open[k] > 0 /\ open' = [open EXCEPT ![k] = @ - 1] /\ finished' = finished
      BY <2>6, <3>1
    <3> QED BY <1>2, <2>1, <2>2, <2>4, <2>5, <2>9, <3>2 DEF Abs!Change
  <2> QED BY <2>3, <2>7, <2>8, <2>9 DEF Operations
<1>3. ASSUME NEW c \in Calls, Commit(c) PROVE Abs!Succeed(c) \/ Abs!Miss(c)
  <2>1. /\ status[c] = "pending" /\ status' = [status EXCEPT ![c] = "ok"]
        /\ pc[c] = "commit" /\ Accepted(c) /\ Write(c) /\ request' = request
    BY <1>0, <1>3 DEF TypeOK, Commit, StatusOf
  <2>2. CASE tx[c].write
    BY <1>2, <2>1, <2>2 DEF Abs!Succeed
  <2>3. CASE ~tx[c].write
    <3>1. request[c].op # "create" /\ OpenCount(request[c].key) = 0
          /\ request[c].key \in Keys
      BY <1>0, <2>1, <2>3, MissMeansNone, CallTypes
    <3>2. open[request[c].key] = 0
      BY <3>1
    <3>3. jobs' = jobs /\ hits' = hits
      BY <2>1, <2>3 DEF Write
    <3>4. open' = open /\ finished' = finished
      BY <3>3, CountSame
    <3> QED BY <2>1, <3>1, <3>2, <3>3, <3>4 DEF Abs!Miss
  <2> QED BY <2>2, <2>3
<1>4. ASSUME NEW c \in Calls, Lost(c) PROVE Abs!ChangeUnseen(c)
  <2>1. status' = status \/ status' = [status EXCEPT ![c] = "failed"]
    <3>1. /\ pc[c] = "commit" /\ pc'[c] \in {"get", "failed"}
          /\ \A d \in Calls \ {c} : pc'[d] = pc[d]
      BY <1>0, <1>4 DEF TypeOK, Lost, Retry
    <3> QED BY <3>1 DEF StatusOf
  <2>2. Abs!Change(c) /\ Unreliable
    BY <1>2, <1>4 DEF Lost
  <2> QED BY <2>1, <2>2 DEF Abs!ChangeUnseen
<1>5. ASSUME NEW c \in Calls, Get(c) \/ Reject(c) \/ GetFails(c)
      PROVE  Abs!Fail(c) \/ UNCHANGED Abs!vars
  <2>1. jobs' = jobs /\ request' = request /\ hits' = hits
    BY <1>5 DEF Get, Reject, GetFails
  <2>2. open' = open /\ finished' = finished
    BY <2>1, CountSame
  <2>3. status[c] = "pending"
        /\ (status' = status \/ status' = [status EXCEPT ![c] = "failed"])
    BY <1>0, <1>5 DEF TypeOK, Get, Reject, GetFails, Retry, StatusOf
  <2> QED BY <2>1, <2>2, <2>3 DEF Abs!Fail, Abs!vars
<1>6. CASE UNCHANGED vars
  <2>1. open' = open /\ finished' = finished /\ status' = status
    BY <1>6, CountSame DEF vars, StatusOf
  <2> QED BY <1>6, <2>1 DEF vars, Abs!vars
<1> QED BY <1>1, <1>3, <1>4, <1>5, <1>6 DEF Next, Step, Abs!Next, Operations, Abs!Operations

\* Each call of JobProvider is one atomic change of the counts of open and
\* finished chores, although it rewrites a whole month's list.
THEOREM BoardRefinement == Spec => ImplementsBoard
<1>1. Inv /\ [Next]_vars => [Abs!Next]_(Abs!vars)
  BY BoardNext
<1> QED BY <1>1, BoardInit, JobInvariance, PTL DEF Spec, ImplementsBoard, Abs!Spec
=============================================================================
