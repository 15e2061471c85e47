-------------------------- MODULE PointLedgerProofs --------------------------
(* The safety properties of PointLedger, for every number of calls, months,
   attempts and points, whether requests are lost or not, and the refinement
   of Account. *)
EXTENDS PointLedger, FiniteSetTheorems, TLAPS

\* Init makes every state component well typed, and the balance chain empty.
LEMMA InitTypeOK == Init => TypeOK
BY AmountsAssumption, InitialPointsAssumption, MaxMonthAssumption,
   MaxAttemptsAssumption
DEF Init, TypeOK, Exists, Balance, NoOuter, NoInner, PC, Months,
    Outer, Inner

\* The record of a call's current attempt is a passbook record.
LEMMA RecordOfType ==
  ASSUME TypeOK, NEW c \in Calls
  PROVE  RecordOf(c) \in Record
BY DEF TypeOK, RecordOf, Record, Outer

\* The balance is a number, the users document missing or not.
LEMMA BalanceType == TypeOK => Balance \in Int
BY DEF TypeOK, Balance, Exists

\* Every step keeps the types.
LEMMA NextTypeOK == TypeOK /\ [Next]_vars => TypeOK'
<1> SUFFICES ASSUME TypeOK, [Next]_vars PROVE TypeOK'
    OBVIOUS
<1> USE MaxMonthAssumption, MaxAttemptsAssumption
<1>1. ASSUME NEW c \in Calls, NEW p \in Amounts, ChangePoint(c, p)
      PROVE  TypeOK'
  BY <1>1, AmountsAssumption DEF TypeOK, ChangePoint, PC
<1>2. ASSUME NEW c \in Calls, OuterGet(c) PROVE TypeOK'
  <2>1. [try |-> outer[c].try, ver |-> userVer, total |-> Balance + amount[c]]
          \in Outer
    BY BalanceType DEF TypeOK, Outer
  <2>2. NoInner \in Inner
    BY DEF NoInner, Inner, Months
  <2> QED BY <1>2, <2>1, <2>2 DEF TypeOK, OuterGet, PC
<1>3. ASSUME NEW c \in Calls, AddRecordGet(c) PROVE TypeOK'
  <2>1. [try |-> inner[c].try, ver |-> bookVer, month |-> month,
         data |-> Append(book[month], RecordOf(c))] \in Inner
    BY RecordOfType DEF TypeOK, Inner
  <2> QED BY <1>3, <2>1 DEF TypeOK, AddRecordGet, Added, PC
<1>4. ASSUME NEW c \in Calls, WriteBook(c)
      PROVE  book' \in [Months -> Seq(Record)] /\ bookVer' \in Nat
  <2>1. inner[c].month \in Months /\ inner[c].data \in Seq(Record)
    BY DEF TypeOK, Inner
  <2> QED BY <1>4, <2>1 DEF TypeOK, WriteBook
<1>5. ASSUME NEW c \in Calls, RetryInner(c)
      PROVE  pc' \in [Calls -> PC] /\ inner' \in [Calls -> Inner]
  <2>1. CASE Exists(inner[c].ver) /\ inner[c].try < MaxAttempts
    <3>1. inner[c] \in Inner /\ inner[c].try + 1 \in 1..MaxAttempts
      BY <2>1 DEF TypeOK, Inner
    <3>2. [inner[c] EXCEPT !.try = @ + 1] \in Inner
      BY <3>1 DEF Inner
    <3> QED BY <1>5, <2>1, <3>2 DEF TypeOK, RetryInner, PC
  <2>2. CASE ~(Exists(inner[c].ver) /\ inner[c].try < MaxAttempts)
    BY <1>5, <2>2 DEF TypeOK, RetryInner, PC
  <2> QED BY <2>1, <2>2
<1>6. ASSUME NEW c \in Calls, WriteUser(c)
      PROVE  points' \in Int /\ userVer' \in Nat /\ log' \in Seq(Record)
  BY <1>6, RecordOfType DEF TypeOK, WriteUser, Outer
<1>7. ASSUME NEW c \in Calls, RetryOuter(c)
      PROVE  pc' \in [Calls -> PC] /\ outer' \in [Calls -> Outer]
  <2>1. CASE Exists(outer[c].ver) /\ outer[c].try < MaxAttempts
    <3>1. outer[c] \in Outer /\ outer[c].try + 1 \in 1..MaxAttempts
      BY <2>1 DEF TypeOK, Outer
    <3>2. [outer[c] EXCEPT !.try = @ + 1] \in Outer
      BY <3>1 DEF Outer
    <3> QED BY <1>7, <2>1, <3>2 DEF TypeOK, RetryOuter, PC
  <2>2. CASE ~(Exists(outer[c].ver) /\ outer[c].try < MaxAttempts)
    BY <1>7, <2>2 DEF TypeOK, RetryOuter, PC
  <2> QED BY <2>1, <2>2
<1>8. ASSUME NEW c \in Calls,
             AddRecordCommit(c) \/ AddRecordReject(c) \/ AddRecordLost(c)
      PROVE  TypeOK'
  BY <1>4, <1>5, <1>8
  DEF TypeOK, AddRecordCommit, AddRecordReject, AddRecordLost, PC
<1>9. ASSUME NEW c \in Calls, OuterCommit(c) \/ OuterReject(c) \/ OuterLost(c)
      PROVE  TypeOK'
  BY <1>6, <1>7, <1>9 DEF TypeOK, OuterCommit, OuterReject, OuterLost, PC
<1>10. ASSUME NEW c \in Calls, GetFails(c) PROVE TypeOK'
  BY <1>10 DEF TypeOK, GetFails, PC
<1>11. CASE NewMonth
  BY <1>11 DEF TypeOK, NewMonth, Months
<1>12. CASE UNCHANGED vars
  BY <1>12 DEF TypeOK, vars
<1> QED
  BY <1>1, <1>2, <1>3, <1>8, <1>9, <1>10, <1>11, <1>12 DEF Next, Step

\* Type correctness of PointProvider's documents and calls.
THEOREM TypeCorrect == Spec => []TypeOK
BY InitTypeOK, NextTypeOK, PTL DEF Spec

-----------------------------------------------------------------------------
\* Init establishes the inductive invariant.
LEMMA InitIInv == Init => IInv
<1> SUFFICES ASSUME Init PROVE IInv
    OBVIOUS
<1>1. TypeOK
  BY InitTypeOK
<1>2. UserFresh /\ BookFresh /\ RecordedFirst
  BY DEF Init, UserFresh, BookFresh, RecordedFirst
<1>3. BalanceChain /\ CommitsRecorded
  BY <1>1 DEF Init, BalanceChain, CommitsRecorded, TypeOK
<1> QED BY <1>1, <1>2, <1>3 DEF IInv

\* A total computed from the users document stays right until the document
\* changes, and is then never taken for fresh again.
LEMMA UserFreshNext ==
  ASSUME TypeOK, UserFresh, [Next]_vars
  PROVE  UserFresh'
<1>1. ASSUME NEW c \in Calls, NEW p \in Amounts, ChangePoint(c, p)
      PROVE  UserFresh'
  BY <1>1 DEF TypeOK, UserFresh, ChangePoint, Balance
<1>2. ASSUME NEW c \in Calls, OuterGet(c) PROVE UserFresh'
  BY <1>2, BalanceType DEF TypeOK, UserFresh, OuterGet, Balance
<1>3. ASSUME NEW c \in Calls, AddRecordGet(c) PROVE UserFresh'
  BY <1>3 DEF TypeOK, UserFresh, AddRecordGet, Balance
<1>4. ASSUME NEW c \in Calls,
             AddRecordCommit(c) \/ AddRecordReject(c) \/ AddRecordLost(c)
      PROVE  UserFresh'
  BY <1>4 DEF TypeOK, UserFresh, AddRecordCommit, AddRecordReject,
    AddRecordLost, RetryInner, Balance
<1>5. ASSUME NEW c \in Calls, OuterCommit(c) PROVE UserFresh'
  BY <1>5 DEF TypeOK, UserFresh, OuterCommit, WriteUser, Balance, Accepted,
    Exists, Outer
<1>6. ASSUME NEW c \in Calls, OuterReject(c) PROVE UserFresh'
  BY <1>6 DEF TypeOK, UserFresh, OuterReject, RetryOuter, Balance
<1>7. ASSUME NEW c \in Calls, OuterLost(c) PROVE UserFresh'
  <2>1. pc'[c] \in {"get", "failed"}
    BY <1>7 DEF TypeOK, OuterLost, RetryOuter
  <2>2. \A d \in Calls \ {c} : pc'[d] = pc[d] /\ outer'[d] = outer[d]
    BY <1>7 DEF TypeOK, OuterLost, RetryOuter
  <2>3. amount' = amount /\ userVer' = userVer + 1 /\ Exists(userVer)
    BY <1>7 DEF OuterLost, WriteUser, Accepted
  <2>4. userVer \in Nat /\ \A d \in Calls : outer[d].ver \in Nat
    BY DEF TypeOK, Outer
  <2>5. SUFFICES ASSUME NEW d \in Calls \ {c},
                        pc[d] \in {"addGet", "addCommit", "commit"}
                 PROVE  /\ Exists(outer[d].ver)
                        /\ outer[d].ver < userVer + 1
    BY <2>1, <2>2, <2>3, <2>4 DEF UserFresh, Exists
  <2> QED BY <2>3, <2>4, <2>5 DEF UserFresh, Exists
<1>8. ASSUME NEW c \in Calls, GetFails(c) PROVE UserFresh'
  BY <1>8 DEF TypeOK, UserFresh, GetFails, Balance
<1>9. CASE NewMonth
  BY <1>9 DEF UserFresh, NewMonth, Balance
<1>10. CASE UNCHANGED vars
  BY <1>10 DEF UserFresh, vars, Balance
<1> QED
  BY <1>1, <1>2, <1>3, <1>4, <1>5, <1>6, <1>7, <1>8, <1>9, <1>10
  DEF Next, Step

\* The same for the month's list that addRecord read.
LEMMA BookFreshNext ==
  ASSUME TypeOK, BookFresh, [Next]_vars
  PROVE  BookFresh'
<1>1. ASSUME NEW c \in Calls, NEW p \in Amounts, ChangePoint(c, p)
      PROVE  BookFresh'
  BY <1>1 DEF TypeOK, BookFresh, ChangePoint, RecordOf
<1>2. ASSUME NEW c \in Calls, OuterGet(c) PROVE BookFresh'
  BY <1>2 DEF TypeOK, BookFresh, OuterGet, RecordOf
<1>3. ASSUME NEW c \in Calls, AddRecordGet(c) PROVE BookFresh'
  <2>1. /\ inner'[c].ver = bookVer
        /\ inner'[c].data = Append(book[inner'[c].month], RecordOf(c))
    BY <1>3 DEF TypeOK, AddRecordGet, Added
  <2>2. \A d \in Calls \ {c} : pc'[d] = pc[d] /\ inner'[d] = inner[d]
    BY <1>3 DEF TypeOK, AddRecordGet
  <2>3. book' = book /\ bookVer' = bookVer
        /\ \A d \in Calls : RecordOf(d)' = RecordOf(d)
    BY <1>3 DEF AddRecordGet, RecordOf
  <2>4. bookVer \in Nat
    BY DEF TypeOK
  <2>5. ASSUME NEW d \in Calls, pc'[d] = "addCommit"
        PROVE  /\ inner'[d].ver <= bookVer
               /\ inner'[d].ver = bookVer =>
                    inner'[d].data = Append(book[inner'[d].month], RecordOf(d))
    <3>1. CASE d = c
      BY <3>1, <2>1, <2>4
    <3>2. CASE d # c
      BY <3>2, <2>2, <2>5 DEF BookFresh
    <3> QED BY <3>1, <3>2
  <2> QED BY <2>3, <2>5 DEF BookFresh
<1>4. ASSUME NEW c \in Calls, AddRecordCommit(c) PROVE BookFresh'
  <2>1. pc'[c] = "commit" /\ \A d \in Calls \ {c} : pc'[d] = pc[d]
    BY <1>4 DEF TypeOK, AddRecordCommit
  <2>2. inner' = inner /\ bookVer' = bookVer + 1
    BY <1>4 DEF AddRecordCommit, WriteBook
  <2>3. bookVer \in Nat /\ \A d \in Calls : inner[d].ver \in Nat
    BY DEF TypeOK, Inner
  <2> QED BY <2>1, <2>2, <2>3 DEF BookFresh
<1>5. ASSUME NEW c \in Calls, AddRecordReject(c) PROVE BookFresh'
  BY <1>5 DEF TypeOK, BookFresh, AddRecordReject, RetryInner, RecordOf
<1>6. ASSUME NEW c \in Calls, AddRecordLost(c) PROVE BookFresh'
  <2>1. pc'[c] \in {"addGet", "failed"}
    BY <1>6 DEF TypeOK, AddRecordLost, RetryInner
  <2>2. \A d \in Calls \ {c} : pc'[d] = pc[d] /\ inner'[d] = inner[d]
    BY <1>6 DEF TypeOK, AddRecordLost, RetryInner
  <2>3. bookVer' = bookVer + 1
    BY <1>6 DEF AddRecordLost, WriteBook
  <2>4. bookVer \in Nat /\ \A d \in Calls : inner[d].ver \in Nat
    BY DEF TypeOK, Inner
  <2> QED BY <2>1, <2>2, <2>3, <2>4 DEF BookFresh
<1>7. ASSUME NEW c \in Calls, OuterCommit(c) \/ OuterReject(c) \/ OuterLost(c)
      PROVE  BookFresh'
  BY <1>7 DEF TypeOK, BookFresh, OuterCommit, OuterReject, OuterLost,
    RetryOuter, RecordOf
<1>8. ASSUME NEW c \in Calls, GetFails(c) PROVE BookFresh'
  BY <1>8 DEF TypeOK, BookFresh, GetFails, RecordOf
<1>9. CASE NewMonth
  BY <1>9 DEF BookFresh, NewMonth, RecordOf
<1>10. CASE UNCHANGED vars
  BY <1>10 DEF BookFresh, vars, RecordOf
<1> QED
  BY <1>1, <1>2, <1>3, <1>4, <1>5, <1>6, <1>7, <1>8, <1>9, <1>10
  DEF Next, Step

\* An accepted write of addRecord appends exactly its own record.
LEMMA WriteBookAppends ==
  ASSUME TypeOK, BookFresh, NEW c \in Calls, pc[c] = "addCommit",
         Accepted(inner[c].ver, bookVer), WriteBook(c)
  PROVE  /\ inner[c].month \in Months
         /\ book' = [book EXCEPT ![inner[c].month] =
                       Append(book[inner[c].month], RecordOf(c))]
BY DEF TypeOK, BookFresh, Accepted, WriteBook, Inner

\* A record of the passbook stays in the passbook; one just appended is there.
LEMMA AppendKeepsBook ==
  ASSUME TypeOK, NEW k \in Months, NEW e \in Record,
         book' = [book EXCEPT ![k] = Append(book[k], e)]
  PROVE  InBook(e)' /\ \A r : InBook(r) => InBook(r)'
<1>1. \A m \in Months : \A j \in 1..Len(book[m]) :
        j \in 1..Len(book'[m]) /\ book'[m][j] = book[m][j]
  BY DEF TypeOK
<1>2. Len(book'[k]) \in 1..Len(book'[k]) /\ book'[k][Len(book'[k])] = e
  BY DEF TypeOK
<1> QED BY <1>1, <1>2 DEF InBook

\* Every step keeps the records of the passbook, and a call about to commit
\* has its own there.
LEMMA RecordedNext ==
  ASSUME TypeOK, BookFresh, RecordedFirst, CommitsRecorded, [Next]_vars
  PROVE  RecordedFirst' /\ CommitsRecorded'
<1>1. ASSUME NEW c \in Calls,
             AddRecordCommit(c) \/ AddRecordReject(c) \/ AddRecordLost(c)
      PROVE  RecordedFirst' /\ CommitsRecorded'
  <2>1. log' = log /\ \A d \in Calls : RecordOf(d)' = RecordOf(d)
    BY <1>1 DEF AddRecordCommit, AddRecordReject, AddRecordLost, RecordOf
  <2>2. \A d \in Calls \ {c} : pc'[d] = pc[d]
    BY <1>1 DEF TypeOK, AddRecordCommit, AddRecordReject, AddRecordLost,
      RetryInner
  <2>3. CASE AddRecordReject(c)
    <3>1. pc'[c] # "commit" /\ book' = book
      BY <2>3 DEF TypeOK, AddRecordReject, RetryInner
    <3> QED BY <2>1, <2>2, <3>1 DEF RecordedFirst, CommitsRecorded, InBook
  <2>4. CASE AddRecordCommit(c) \/ AddRecordLost(c)
    <3>1. InBook(RecordOf(c))' /\ \A r : InBook(r) => InBook(r)'
      <4>1. book' = [book EXCEPT ![inner[c].month] =
                       Append(book[inner[c].month], RecordOf(c))]
            /\ inner[c].month \in Months
        BY <2>4, WriteBookAppends DEF AddRecordCommit, AddRecordLost
      <4>2. \A r : InBook(r) => InBook(r)'
        BY <4>1, RecordOfType, AppendKeepsBook
      <4>3. Len(book'[inner[c].month]) \in 1..Len(book'[inner[c].month])
            /\ book'[inner[c].month][Len(book'[inner[c].month])] = RecordOf(c)
        BY <4>1, RecordOfType DEF TypeOK
      <4> QED BY <2>1, <4>1, <4>2, <4>3 DEF InBook
    <3> QED BY <2>1, <2>2, <3>1 DEF RecordedFirst, CommitsRecorded
  <2> QED BY <1>1, <2>3, <2>4
<1>2. ASSUME NEW c \in Calls, OuterCommit(c) \/ OuterLost(c)
      PROVE  RecordedFirst' /\ CommitsRecorded'
  <2>1. pc'[c] # "commit" /\ \A d \in Calls \ {c} :
          pc'[d] = pc[d] /\ outer'[d] = outer[d] /\ amount'[d] = amount[d]
    BY <1>2 DEF TypeOK, OuterCommit, OuterLost, RetryOuter
  <2>2. RecordedFirst'
    BY <1>2, <2>1 DEF RecordedFirst, RecordOf, InBook, OuterCommit, OuterLost
  <2>3. InBook(RecordOf(c)) /\ log' = Append(log, RecordOf(c)) /\ book' = book
    BY <1>2 DEF RecordedFirst, OuterCommit, OuterLost, WriteUser
  <2>4. CommitsRecorded'
    <3>1. \A i \in 1..Len(log') : InBook(log'[i])
      BY <2>3, RecordOfType DEF TypeOK, CommitsRecorded
    <3> QED BY <2>3, <3>1 DEF CommitsRecorded, InBook
  <2> QED BY <2>2, <2>4
<1>3. ASSUME NEW c \in Calls,
             \/ \E p \in Amounts : ChangePoint(c, p)
             \/ OuterGet(c) \/ AddRecordGet(c) \/ OuterReject(c) \/ GetFails(c)
      PROVE  RecordedFirst' /\ CommitsRecorded'
  <2>1. pc'[c] # "commit" /\ book' = book /\ log' = log
    BY <1>3 DEF TypeOK, ChangePoint, OuterGet, AddRecordGet, OuterReject,
      RetryOuter, GetFails
  <2>2. \A d \in Calls \ {c} :
          pc'[d] = pc[d] /\ outer'[d] = outer[d] /\ amount'[d] = amount[d]
    BY <1>3 DEF TypeOK, ChangePoint, OuterGet, AddRecordGet, OuterReject,
      RetryOuter, GetFails
  <2> QED BY <2>1, <2>2 DEF RecordedFirst, CommitsRecorded, RecordOf, InBook
<1>4. CASE NewMonth \/ UNCHANGED vars
  BY <1>4 DEF NewMonth, vars, RecordedFirst, CommitsRecorded, RecordOf, InBook
<1> QED BY <1>1, <1>2, <1>3, <1>4 DEF Next, Step

\* A committed total continues the chain; nothing else touches the balance.
LEMMA BalanceChainNext ==
  ASSUME TypeOK, UserFresh, BalanceChain, [Next]_vars
  PROVE  BalanceChain'
<1>1. ASSUME NEW c \in Calls, OuterCommit(c) \/ OuterLost(c)
      PROVE  BalanceChain'
  <2>1. /\ points' = outer[c].total /\ userVer' = userVer + 1 /\ start' = start
        /\ log' = Append(log, RecordOf(c))
        /\ outer[c].total = Balance + amount[c]
    BY <1>1 DEF OuterCommit, OuterLost, WriteUser, UserFresh, Accepted
  <2>2. Balance' = outer[c].total
    BY <2>1 DEF Balance, Exists, TypeOK
  <2>3. /\ RecordOf(c).total = outer[c].total
        /\ RecordOf(c).point = amount[c]
    BY DEF RecordOf
  <2>4. /\ Len(log') = Len(log) + 1 /\ Len(log) \in Nat
        /\ \A i \in 1..Len(log) : log'[i] = log[i]
        /\ log'[Len(log) + 1] = RecordOf(c)
        /\ log' # <<>>
        /\ log # <<>> => Len(log) \in 1..Len(log)
        /\ log = <<>> => Len(log) = 0
    BY <2>1, RecordOfType DEF TypeOK
  <2>5. Balance' = log'[Len(log')].total
    BY <2>2, <2>3, <2>4
  <2>6. ASSUME NEW i \in 1..Len(log')
        PROVE  log'[i].total
                 = (IF i = 1 THEN start ELSE log'[i-1].total) + log'[i].point
    <3>1. CASE i \in 1..Len(log)
      <4>1. i # 1 => i - 1 \in 1..Len(log)
        BY <3>1, <2>4
      <4> QED BY <3>1, <4>1, <2>4 DEF BalanceChain
    <3>2. CASE i = Len(log) + 1
      <4>1. log'[i].total = Balance + log'[i].point
        BY <3>2, <2>1, <2>3, <2>4
      <4>2. Balance = IF i = 1 THEN start ELSE log'[i-1].total
        BY <3>2, <2>4 DEF BalanceChain
      <4> QED BY <4>1, <4>2
    <3> QED BY <3>1, <3>2, <2>4
  <2> QED BY <2>1, <2>4, <2>5, <2>6 DEF BalanceChain
<1>2. ASSUME UNCHANGED <<points, userVer, log, start>>
      PROVE  BalanceChain'
  BY <1>2 DEF BalanceChain, Balance
<1>3. ASSUME NEW c \in Calls,
             \/ \E p \in Amounts : ChangePoint(c, p)
             \/ Step(c) /\ ~OuterCommit(c) /\ ~OuterLost(c)
      PROVE  UNCHANGED <<points, userVer, log, start>>
  BY <1>3 DEF Step, ChangePoint, OuterGet, AddRecordGet, AddRecordCommit,
    AddRecordReject, AddRecordLost, OuterReject, GetFails
<1>4. CASE NewMonth \/ UNCHANGED vars
  BY <1>2, <1>4 DEF NewMonth, vars
<1> QED BY <1>1, <1>2, <1>3, <1>4 DEF Next

\* IInv holds in every reachable state: initially, and after every step.
THEOREM Invariance == Spec => []IInv
<1>1. IInv /\ [Next]_vars => IInv'
  BY NextTypeOK, UserFreshNext, BookFreshNext, RecordedNext, BalanceChainNext
  DEF IInv
<1> QED BY InitIInv, <1>1, PTL DEF Spec

\* No balance update is lost, whatever the interleaving, the retries and the
\* lost replies.
THEOREM NoLostUpdate == Spec => []BalanceChain
BY Invariance, PTL DEF IInv

\* Every balance update has its record in the passbook, for ever.
THEOREM UpdatesAreRecorded == Spec => []CommitsRecorded
BY Invariance, PTL DEF IInv

\* No step changes what the passbook already shows.
THEOREM AppendOnly == Spec => PassbookAppendOnly
<1> DEFINE Kept == \A m \in Months : IsPrefix(book[m], book'[m])
<1>1. ASSUME IInv, [Next]_vars PROVE [Kept]_vars
  <2>1. ASSUME NEW c \in Calls, AddRecordCommit(c) \/ AddRecordLost(c)
        PROVE  Kept
    <3>1. /\ inner[c].month \in Months
          /\ book' = [book EXCEPT ![inner[c].month] =
                        Append(book[inner[c].month], RecordOf(c))]
      BY <1>1, <2>1, WriteBookAppends DEF AddRecordCommit, AddRecordLost, IInv
    <3>2. RecordOf(c) \in Record
      BY <1>1, RecordOfType DEF IInv
    <3>3. ASSUME NEW m \in Months PROVE IsPrefix(book[m], book'[m])
      <4>1. /\ Len(book[m]) <= Len(book'[m])
            /\ \A j \in 1..Len(book[m]) : book'[m][j] = book[m][j]
        BY <1>1, <3>1, <3>2 DEF IInv, TypeOK
      <4> QED BY <4>1, <1>1 DEF IInv, TypeOK, IsPrefix
    <3> QED BY <3>3
  <2>2. ASSUME book' = book PROVE Kept
    BY <2>2, <1>1 DEF IInv, TypeOK, IsPrefix
  <2> QED
    BY <1>1, <2>1, <2>2 DEF Next, Step, ChangePoint, OuterGet, AddRecordGet,
      AddRecordReject, OuterCommit, OuterReject, OuterLost, GetFails, NewMonth
<1> QED BY <1>1, Invariance, PTL DEF Spec, PassbookAppendOnly

-----------------------------------------------------------------------------
(* PointLedger implements Account. *)

\* The count of a call's balance updates is a number.
LEMMA TimesAppliedType ==
  ASSUME TypeOK, NEW c \in Calls
  PROVE  TimesApplied(c) \in Nat
<1>1. IsFiniteSet(1..Len(log))
  BY FS_Interval DEF TypeOK
<1>2. IsFiniteSet({i \in 1..Len(log) : log[i].by = c})
  BY <1>1, FS_Subset
<1> QED BY <1>2, FS_CardinalityType DEF TimesApplied

\* It grows by one when the call commits, and is untouched when another does.
LEMMA TimesAppliedAppend ==
  ASSUME TypeOK, NEW c \in Calls, log' = Append(log, RecordOf(c))
  PROVE  /\ TimesApplied(c)' = TimesApplied(c) + 1
         /\ \A d \in Calls \ {c} : TimesApplied(d)' = TimesApplied(d)
<1>1. /\ Len(log) \in Nat /\ Len(log') = Len(log) + 1
      /\ \A i \in 1..Len(log) : log'[i] = log[i]
      /\ log'[Len(log) + 1].by = c
  BY RecordOfType DEF TypeOK, RecordOf
<1> DEFINE By(d) == {i \in 1..Len(log) : log[i].by = d}
<1>2. By(c)' = By(c) \union {Len(log) + 1}
  BY <1>1
<1>3. ~(Len(log) + 1 \in By(c)) /\ By(c) \in SUBSET (1..Len(log))
  BY <1>1
<1>4. IsFiniteSet(1..Len(log))
  BY <1>1, FS_Interval
<1>5. IsFiniteSet(By(c))
  BY <1>3, <1>4, FS_Subset
<1>6. Cardinality(By(c) \union {Len(log) + 1}) = Cardinality(By(c)) + 1
  BY <1>3, <1>5, FS_AddElement
<1>7. ASSUME NEW d \in Calls \ {c} PROVE By(d)' = By(d)
  BY <1>1
<1> QED BY <1>2, <1>6, <1>7 DEF TimesApplied

\* A call has applied its points at most once per finished attempt.
AppliedBound ==
  \A c \in Calls : pc[c] \notin {"done", "failed"} =>
                     TimesApplied(c) < outer[c].try

\* A step that commits no balance update leaves the counts alone.
LEMMA TimesAppliedSame ==
  ASSUME log' = log
  PROVE  \A c \in Calls : TimesApplied(c)' = TimesApplied(c)
BY DEF TimesApplied

\* Initially no points were applied.
LEMMA AppliedBoundInit == Init => AppliedBound
<1> SUFFICES ASSUME Init, NEW c \in Calls PROVE TimesApplied(c) < outer[c].try
    BY DEF AppliedBound
<1>1. log = <<>> /\ outer[c].try = 1
  BY DEF Init, NoOuter
<1>2. {i \in 1..Len(log) : log[i].by = c} = {}
  BY <1>1
<1> QED BY <1>1, <1>2, FS_EmptySet DEF TimesApplied

\* A call that applies its points has then finished an attempt.
LEMMA AppliedBoundNext ==
  ASSUME TypeOK, AppliedBound, [Next]_vars
  PROVE  AppliedBound'
<1>0. \A d \in Calls : TimesApplied(d) \in Nat /\ outer[d].try \in Nat
  BY TimesAppliedType DEF TypeOK, Outer
<1>1. ASSUME NEW c \in Calls, OuterCommit(c) \/ OuterLost(c)
      PROVE  AppliedBound'
  <2>1. /\ TimesApplied(c)' = TimesApplied(c) + 1
        /\ \A d \in Calls \ {c} : TimesApplied(d)' = TimesApplied(d)
    BY <1>1, TimesAppliedAppend DEF OuterCommit, OuterLost, WriteUser
  <2>2. pc[c] = "commit"
    BY <1>1 DEF OuterCommit, OuterLost
  <2>3. \/ pc'[c] \in {"done", "failed"}
        \/ outer'[c].try = outer[c].try + 1
    BY <1>1 DEF TypeOK, OuterCommit, OuterLost, RetryOuter, Outer
  <2>4. \A d \in Calls \ {c} : pc'[d] = pc[d] /\ outer'[d] = outer[d]
    BY <1>1 DEF TypeOK, OuterCommit, OuterLost, RetryOuter
  <2> QED BY <1>0, <2>1, <2>2, <2>3, <2>4 DEF AppliedBound
<1>2. ASSUME NEW c \in Calls,
             \/ \E p \in Amounts : ChangePoint(c, p)
             \/ Step(c) /\ ~OuterCommit(c) /\ ~OuterLost(c)
      PROVE  AppliedBound'
  <2>1. \A d \in Calls : TimesApplied(d)' = TimesApplied(d)
    <3>1. log' = log
      BY <1>2 DEF Step, ChangePoint, OuterGet, AddRecordGet, AddRecordCommit,
        AddRecordReject, AddRecordLost, OuterReject, GetFails
    <3> QED BY <3>1, TimesAppliedSame
  <2>2. \A d \in Calls \ {c} : pc'[d] = pc[d] /\ outer'[d] = outer[d]
    BY <1>2 DEF TypeOK, Step, ChangePoint, OuterGet, AddRecordGet,
      AddRecordCommit, AddRecordReject, AddRecordLost, RetryInner,
      OuterReject, RetryOuter, GetFails
  <2>3. pc[c] \notin {"done", "failed"}
    BY <1>2 DEF Step, ChangePoint, OuterGet, AddRecordGet, AddRecordCommit,
      AddRecordReject, AddRecordLost, OuterReject, GetFails
  <2>4. outer'[c].try >= outer[c].try
    <3>1. CASE OuterGet(c)
      BY <3>1, <1>0 DEF TypeOK, OuterGet
    <3>2. CASE OuterReject(c)
      <4>1. outer'[c].try = outer[c].try \/ outer'[c].try = outer[c].try + 1
        BY <3>2 DEF TypeOK, OuterReject, RetryOuter, Outer
      <4> QED BY <4>1, <1>0
    <3>3. CASE outer' = outer
      BY <3>3, <1>0
    <3> QED
      BY <1>2, <3>1, <3>2, <3>3 DEF Step, ChangePoint, AddRecordGet,
        AddRecordCommit, AddRecordReject, AddRecordLost, GetFails
  <2>5. outer'[c].try \in Nat
    <3>1. TypeOK'
      BY NextTypeOK
    <3>2. outer'[c] \in Outer
      BY <3>1 DEF TypeOK
    <3> QED BY <3>2 DEF Outer
  <2> QED BY <1>0, <2>1, <2>2, <2>3, <2>4, <2>5 DEF AppliedBound
<1>3. CASE NewMonth \/ UNCHANGED vars
  <2>1. log' = log /\ pc' = pc /\ outer' = outer
    BY <1>3 DEF NewMonth, vars
  <2> QED BY <2>1, TimesAppliedSame DEF AppliedBound
<1> QED BY <1>1, <1>2, <1>3 DEF Next

\* The initial states map to initial states of Account.
LEMMA AccountInit == Init => Acc!Init
<1> SUFFICES ASSUME Init PROVE Acc!Init
    OBVIOUS
<1>1. Balance \in InitialPoints \union {0}
  BY DEF Init, Balance
<1>2. \A c \in Calls : StatusOf(c) = "idle"
  BY DEF Init, StatusOf, Running
<1>3. \A c \in Calls : TimesApplied(c) = 0
  <2>1. \A c \in Calls : {i \in 1..Len(log) : log[i].by = c} = {}
    BY DEF Init
  <2> QED BY <2>1, FS_EmptySet DEF TimesApplied
<1> QED BY <1>1, <1>2, <1>3 DEF Init, Acc!Init

\* Every step maps to a step of Account or leaves its variables alone.
LEMMA AccountNext ==
  ASSUME TypeOK, UserFresh, AppliedBound, [Next]_vars
  PROVE  [Acc!Next]_(Acc!vars)
<1> DEFINE status == [c \in Calls |-> StatusOf(c)]
           applied == [c \in Calls |-> TimesApplied(c)]
<1>1. ASSUME NEW c \in Calls, NEW p \in Amounts, ChangePoint(c, p)
      PROVE  Acc!Begin(c, p)
  <2>1. status[c] = "idle" /\ status' = [status EXCEPT ![c] = "pending"]
    BY <1>1 DEF TypeOK, ChangePoint, StatusOf, Running
  <2>2. Balance' = Balance /\ applied' = applied
    BY <1>1, TimesAppliedSame DEF ChangePoint, Balance
  <2>3. amount' = [amount EXCEPT ![c] = p]
    BY <1>1 DEF ChangePoint
  <2> QED BY <2>1, <2>2, <2>3 DEF Acc!Begin
<1>2. ASSUME NEW c \in Calls, OuterCommit(c) \/ OuterLost(c)
      PROVE  Acc!Credit(c)
  <2>1. status[c] = "pending"
    BY <1>2 DEF OuterCommit, OuterLost, StatusOf, Running
  <2>2. applied[c] < MaxAttempts
    <3>1. TimesApplied(c) < outer[c].try
      BY <1>2 DEF AppliedBound, OuterCommit, OuterLost
    <3>2. outer[c].try \in 1..MaxAttempts
      BY DEF TypeOK, Outer
    <3> QED BY <3>1, <3>2, TimesAppliedType, MaxAttemptsAssumption
  <2>3. Balance' = Balance + amount[c]
    BY <1>2 DEF TypeOK, OuterCommit, OuterLost, WriteUser, UserFresh,
      Accepted, Exists, Balance
  <2>4. applied' = [applied EXCEPT ![c] = @ + 1]
    <3>1. log' = Append(log, RecordOf(c))
      BY <1>2 DEF OuterCommit, OuterLost, WriteUser
    <3> QED BY <3>1, TimesAppliedAppend
  <2>5. amount' = amount
    BY <1>2 DEF OuterCommit, OuterLost
  <2> QED BY <2>1, <2>2, <2>3, <2>4, <2>5 DEF Acc!Credit
<1>3. ASSUME NEW c \in Calls, OuterCommit(c) PROVE Acc!Succeed(c)
  <2>1. status' = [status EXCEPT ![c] = "ok"]
    BY <1>3 DEF TypeOK, OuterCommit, StatusOf, Running
  <2> QED BY <1>2, <1>3, <2>1 DEF Acc!Succeed
<1>4. ASSUME NEW c \in Calls, OuterLost(c) PROVE Acc!CreditUnseen(c)
  <2>1. status' = status \/ status' = [status EXCEPT ![c] = "failed"]
    BY <1>4 DEF TypeOK, OuterLost, RetryOuter, StatusOf, Running
  <2> QED BY <1>2, <1>4, <2>1 DEF Acc!CreditUnseen, OuterLost
<1>5. ASSUME NEW c \in Calls, Step(c), ~OuterCommit(c), ~OuterLost(c)
      PROVE  Acc!Fail(c) \/ UNCHANGED Acc!vars
  <2>1. log' = log /\ points' = points /\ userVer' = userVer
        /\ amount' = amount
    BY <1>5 DEF Step, OuterGet, AddRecordGet, AddRecordCommit,
      AddRecordReject, AddRecordLost, OuterReject, GetFails
  <2>2. Balance' = Balance /\ applied' = applied
    BY <2>1, TimesAppliedSame DEF Balance
  <2>3. pc[c] \in Running /\ pc'[c] \in Running \union {"failed"}
        /\ \A d \in Calls \ {c} : pc'[d] = pc[d]
    BY <1>5 DEF TypeOK, Step, OuterGet, AddRecordGet, AddRecordCommit,
      AddRecordReject, AddRecordLost, RetryInner, OuterReject, RetryOuter,
      GetFails, Running
  <2>4. status[c] = "pending"
        /\ (status' = status \/ status' = [status EXCEPT ![c] = "failed"])
    BY <2>3 DEF StatusOf, Running
  <2> QED BY <2>1, <2>2, <2>4 DEF Acc!Fail, Acc!vars
<1>6. CASE NewMonth \/ UNCHANGED vars
  <2>1. log' = log /\ points' = points /\ userVer' = userVer
        /\ amount' = amount /\ pc' = pc
    BY <1>6 DEF NewMonth, vars
  <2>2. Balance' = Balance /\ applied' = applied /\ status' = status
    BY <2>1, TimesAppliedSame DEF Balance, StatusOf
  <2> QED BY <2>1, <2>2 DEF Acc!vars
<1> QED BY <1>1, <1>3, <1>4, <1>5, <1>6 DEF Next, Acc!Next

\* changePoint is atomic: the two nested optimistic transactions implement an
\* account whose balance changes by a call's points in a single step.
THEOREM Refinement == Spec => ImplementsAccount
<1>1. Init /\ [][Next]_vars => []AppliedBound
  <2>1. TypeOK /\ AppliedBound /\ [Next]_vars => AppliedBound'
    BY AppliedBoundNext
  <2> QED BY <2>1, AppliedBoundInit, TypeCorrect, PTL DEF Spec
<1>2. IInv /\ AppliedBound /\ [Next]_vars => [Acc!Next]_(Acc!vars)
  BY AccountNext DEF IInv
<1> QED BY <1>1, <1>2, AccountInit, Invariance, PTL
        DEF Spec, ImplementsAccount, Acc!Spec

-----------------------------------------------------------------------------
(* What the passbook shows and what a call answers: the records are counted,
   and placed in the order of the balance updates. *)


\* A place is a month and a position in that month's list.
LEMMA PlacesAre ==
  \A p : p \in Places <=> \E m \in Months : \E j \in 1..Len(book[m]) : p = <<m, j>>
BY DEF Places

\* A record appended to a month's list takes a new place and leaves the others.
LEMMA AppendAddsPlace ==
  ASSUME TypeOK, NEW k \in Months, NEW e \in Record,
         book' = [book EXCEPT ![k] = Append(book[k], e)]
  PROVE  \E new : 
         /\ new = <<k, Len(book[k]) + 1>>
         /\ Places' = Places \union {new} /\ new \notin Places
         /\ RecordAt(new)' = e
         /\ \A p \in Places : RecordAt(p)' = RecordAt(p)
<1>0. PICK new : new = <<k, Len(book[k]) + 1>>
  OBVIOUS
<1>1. /\ Len(book[k]) \in Nat /\ Len(book'[k]) = Len(book[k]) + 1
      /\ book'[k][Len(book[k]) + 1] = e
      /\ \A j \in 1..Len(book[k]) : book'[k][j] = book[k][j]
      /\ \A m \in Months \ {k} : book'[m] = book[m]
  BY DEF TypeOK
<1>2. \A p : p \in Places' <=> \E m \in Months : \E j \in 1..Len(book'[m]) : p = <<m, j>>
  BY DEF Places
<1>3. ASSUME NEW p PROVE p \in Places' <=> p \in Places \/ p = new
  <2>1. ASSUME NEW m \in Months, NEW j \in 1..Len(book'[m]), p = <<m, j>>
        PROVE  p \in Places \/ p = new
    <3>1. CASE m = k /\ j = Len(book[k]) + 1
      BY <2>1, <3>1, <1>0
    <3>2. CASE m # k \/ j # Len(book[k]) + 1
      <4>1. j \in 1..Len(book[m])
        BY <1>1, <3>2
      <4> QED BY <2>1, <4>1, PlacesAre
    <3> QED BY <3>1, <3>2
  <2>2. ASSUME NEW m \in Months, NEW j \in 1..Len(book[m]), p = <<m, j>>
        PROVE  p \in Places'
    <3>1. j \in 1..Len(book'[m])
      BY <1>1
    <3> QED BY <2>2, <3>1, <1>2
  <2>3. new \in Places'
    BY <1>0, <1>1, <1>2
  <2> QED BY <2>1, <2>2, <2>3, <1>2, PlacesAre
<1>4. new \notin Places
  BY <1>0, <1>1, PlacesAre
<1>5. RecordAt(new)' = e
  BY <1>0, <1>1 DEF RecordAt
<1>6. ASSUME NEW p \in Places PROVE RecordAt(p)' = RecordAt(p)
  <2>1. PICK m \in Months : \E j \in 1..Len(book[m]) : p = <<m, j>>
    BY PlacesAre
  <2>3. PICK j \in 1..Len(book[m]) : p = <<m, j>>
    BY <2>1
  <2>2. book'[m][j] = book[m][j]
    BY <1>1
  <2> QED BY <2>3, <2>2 DEF RecordAt
<1> QED BY <1>0, <1>3, <1>4, <1>5, <1>6

\* The counts of records after a record of c was appended.
LEMMA AppendCounts ==
  ASSUME TypeOK, IsFiniteSet(Places), NEW c \in Calls, NEW k \in Months,
         book' = [book EXCEPT ![k] = Append(book[k], RecordOf(c))]
  PROVE  /\ IsFiniteSet(Places)'
         /\ RecordsOf(c)' = RecordsOf(c) + 1
         /\ \A d \in Calls \ {c} : /\ RecordsOf(d)' = RecordsOf(d)
                                   /\ RecordsOfOthers(d)' = RecordsOfOthers(d) + 1
         /\ RecordsOfOthers(c)' = RecordsOfOthers(c)
<1> DEFINE By(d) == {p \in Places : RecordAt(p).by = d}
           ByOthers(d) == {p \in Places : RecordAt(p).by # d}
<1>1. PICK new : /\ Places' = Places \union {new} /\ new \notin Places
                 /\ RecordAt(new)' = RecordOf(c)
                 /\ \A p \in Places : RecordAt(p)' = RecordAt(p)
  BY RecordOfType, AppendAddsPlace
<1>2. RecordAt(new)'.by = c
  BY <1>1 DEF RecordOf
<1>3. \A d : IsFiniteSet(By(d)) /\ IsFiniteSet(ByOthers(d))
  BY FS_Subset
<1>4. By(c)' = By(c) \union {new} /\ ByOthers(c)' = ByOthers(c)
  BY <1>1, <1>2
<1>5. ASSUME NEW d \in Calls \ {c}
      PROVE  By(d)' = By(d) /\ ByOthers(d)' = ByOthers(d) \union {new}
  BY <1>1, <1>2
<1>6. \A d : new \notin By(d) /\ new \notin ByOthers(d)
  BY <1>1
<1>7. IsFiniteSet(Places)'
  BY <1>1, FS_AddElement
<1> HIDE DEF By, ByOthers
<1>8. /\ Cardinality(By(c) \union {new}) = Cardinality(By(c)) + 1
      /\ \A d : Cardinality(ByOthers(d) \union {new}) = Cardinality(ByOthers(d)) + 1
  BY <1>3, <1>6, FS_AddElement
<1>9. /\ RecordsOf(c)' = RecordsOf(c) + 1
      /\ RecordsOfOthers(c)' = RecordsOfOthers(c)
  BY <1>4, <1>8 DEF RecordsOf, RecordsOfOthers, By, ByOthers
<1>10. ASSUME NEW d \in Calls \ {c}
       PROVE  /\ RecordsOf(d)' = RecordsOf(d)
              /\ RecordsOfOthers(d)' = RecordsOfOthers(d) + 1
  BY <1>5, <1>8 DEF RecordsOf, RecordsOfOthers, By, ByOthers
<1> QED BY <1>7, <1>9, <1>10

-----------------------------------------------------------------------------
(* Without lost replies: who updated the balance, and how often. *)

\* How many balance updates the other calls made.
UpdatesOfOthers(c) == Cardinality({i \in 1..Len(log) : log[i].by # c})

\* Every call updates the balance once at most, and has then returned.
UpdatedOnce ==
  /\ \A i, j \in 1..Len(log) : log[i].by = log[j].by => i = j
  /\ \A i \in 1..Len(log) : pc[log[i].by] = "done"

\* Every attempt that a running call lost, it lost to an update, or a record, of
\* another call made since it read the document; and so it has lost the current
\* one if the document has changed.
LostToOthers ==
  \A c \in Calls :
    /\ pc[c] = "idle" => outer[c].try = 1
    /\ pc[c] \in Running => outer[c].try - 1 <= UpdatesOfOthers(c)
    /\ pc[c] \in Running \ {"get"} /\ outer[c].ver < userVer
         => outer[c].try <= UpdatesOfOthers(c)
    /\ pc[c] \in {"addGet", "addCommit"} => inner[c].try - 1 <= RecordsOfOthers(c)
    /\ pc[c] = "addCommit" /\ inner[c].ver < bookVer => inner[c].try <= RecordsOfOthers(c)
    /\ pc[c] = "addCommit" /\ ~Exists(inner[c].ver) => ~Exists(bookVer)

\* A step of c leaves the other calls where they are.
LEMMA OneCallSteps ==
  ASSUME TypeOK, NEW c \in Calls, Step(c) \/ \E p \in Amounts : ChangePoint(c, p)
  PROVE  \A d \in Calls \ {c} : /\ pc'[d] = pc[d] /\ outer'[d] = outer[d]
                                /\ inner'[d] = inner[d] /\ amount'[d] = amount[d]
<1>1. CASE OuterGet(c) \/ AddRecordGet(c) \/ GetFails(c) \/ \E p \in Amounts : ChangePoint(c, p)
  BY <1>1 DEF TypeOK, OuterGet, AddRecordGet, GetFails, ChangePoint
<1>2. CASE AddRecordCommit(c) \/ AddRecordReject(c) \/ AddRecordLost(c)
  BY <1>2 DEF TypeOK, AddRecordCommit, AddRecordReject, AddRecordLost, RetryInner
<1>3. CASE OuterCommit(c) \/ OuterReject(c) \/ OuterLost(c)
  BY <1>3 DEF TypeOK, OuterCommit, OuterReject, OuterLost, RetryOuter
<1> QED BY <1>1, <1>2, <1>3 DEF Step

\* Without lost replies a step of c changes nothing, or appends c's record to
\* the passbook, or c's update to the history of the balance.
LEMMA StepWrites ==
  ASSUME TypeOK, BookFresh, ~Unreliable,
         NEW c \in Calls, Step(c) \/ \E p \in Amounts : ChangePoint(c, p)
  PROVE  \/ /\ ~AddRecordCommit(c) /\ ~OuterCommit(c)
            /\ UNCHANGED <<book, bookVer, userVer, log>>
         \/ /\ AddRecordCommit(c)
            /\ inner[c].month \in Months
            /\ book' = [book EXCEPT ![inner[c].month] =
                          Append(book[inner[c].month], RecordOf(c))]
            /\ bookVer # 0 /\ bookVer' = bookVer + 1 /\ UNCHANGED <<userVer, log>>
         \/ /\ OuterCommit(c)
            /\ log' = Append(log, RecordOf(c))
            /\ userVer # 0 /\ userVer' = userVer + 1 /\ UNCHANGED <<book, bookVer>>
<1>1. CASE AddRecordCommit(c)
  <2>1. pc[c] = "addCommit" /\ Accepted(inner[c].ver, bookVer) /\ WriteBook(c)
        /\ UNCHANGED <<userVer, log>>
    BY <1>1 DEF AddRecordCommit
  <2> QED BY <1>1, <2>1, WriteBookAppends DEF WriteBook, Accepted, Exists
<1>2. CASE OuterCommit(c)
  BY <1>2 DEF OuterCommit, WriteUser, Accepted, Exists
<1>3. CASE ~AddRecordCommit(c) /\ ~OuterCommit(c)
  BY <1>3 DEF Step, OuterGet, AddRecordGet, GetFails, ChangePoint,
    AddRecordReject, AddRecordLost, OuterReject, OuterLost
<1> QED BY <1>1, <1>2, <1>3

\* The updates of others after an update of c.
LEMMA AppendUpdates ==
  ASSUME TypeOK, NEW c \in Calls, log' = Append(log, RecordOf(c))
  PROVE  \A d \in Calls \ {c} : UpdatesOfOthers(d)' = UpdatesOfOthers(d) + 1
<1>1. /\ Len(log) \in Nat /\ Len(log') = Len(log) + 1
      /\ \A i \in 1..Len(log) : log'[i] = log[i]
      /\ log'[Len(log) + 1].by = c
  BY RecordOfType DEF TypeOK, RecordOf
<1> SUFFICES ASSUME NEW d \in Calls \ {c}
             PROVE  UpdatesOfOthers(d)' = UpdatesOfOthers(d) + 1
    OBVIOUS
<1> DEFINE S == {i \in 1..Len(log) : log[i].by # d}
<1>2. S' = S \union {Len(log) + 1}
  BY <1>1
<1>3. Len(log) + 1 \notin S /\ S \in SUBSET (1..Len(log)) /\ IsFiniteSet(1..Len(log))
  BY <1>1, FS_Interval
<1>4. IsFiniteSet(S)
  BY <1>3, FS_Subset
<1> HIDE DEF S
<1>5. Cardinality(S \union {Len(log) + 1}) = Cardinality(S) + 1
  BY <1>3, <1>4, FS_AddElement
<1> QED BY <1>2, <1>5 DEF UpdatesOfOthers, S

\* The counts are numbers.
LEMMA CountsType ==
  ASSUME TypeOK, IsFiniteSet(Places), NEW c \in Calls
  PROVE  RecordsOf(c) \in Nat /\ RecordsOfOthers(c) \in Nat /\ UpdatesOfOthers(c) \in Nat
<1>1. IsFiniteSet({p \in Places : RecordAt(p).by = c})
      /\ IsFiniteSet({p \in Places : RecordAt(p).by # c})
  BY FS_Subset
<1>2. IsFiniteSet(1..Len(log))
  BY FS_Interval DEF TypeOK
<1>3. IsFiniteSet({i \in 1..Len(log) : log[i].by # c})
  BY <1>2, FS_Subset
<1> QED BY <1>1, <1>3, FS_CardinalityType DEF RecordsOf, RecordsOfOthers, UpdatesOfOthers

\* A call that updates the balance has not done so before, and returns.
LEMMA UpdatedOnceNext ==
  ASSUME TypeOK, BookFresh, UpdatedOnce, ~Unreliable, [Next]_vars
  PROVE  UpdatedOnce'
<1>0. \A i \in 1..Len(log) : log[i].by \in Calls
  <2>1. \A i \in 1..Len(log) : log[i] \in Record
    BY DEF TypeOK
  <2> QED BY <2>1 DEF Record
<1>1. ASSUME NEW c \in Calls, Step(c) \/ \E p \in Amounts : ChangePoint(c, p)
      PROVE  UpdatedOnce'
  <2>1. pc[c] # "done"
    BY <1>1 DEF Step, ChangePoint, OuterGet, AddRecordGet, AddRecordCommit,
      AddRecordReject, AddRecordLost, OuterCommit, OuterReject, OuterLost, GetFails
  <2>2. \A i \in 1..Len(log) : log[i].by # c /\ pc'[log[i].by] = "done"
    BY <1>0, <1>1, <2>1, OneCallSteps DEF UpdatedOnce
  <2>3. CASE log' = log
    BY <2>2, <2>3 DEF UpdatedOnce
  <2>4. CASE OuterCommit(c) /\ log' = Append(log, RecordOf(c))
    <3>1. /\ Len(log) \in Nat /\ Len(log') = Len(log) + 1
          /\ \A i \in 1..Len(log) : log'[i] = log[i]
          /\ log'[Len(log) + 1].by = c
      BY <2>4, RecordOfType DEF TypeOK, RecordOf
    <3>2. pc'[c] = "done"
      BY <2>4 DEF OuterCommit, TypeOK
    <3>3. \A i \in 1..Len(log') : i \in 1..Len(log) \/ i = Len(log) + 1
      BY <3>1
    <3> QED BY <2>2, <3>1, <3>2, <3>3 DEF UpdatedOnce
  <2> QED BY <1>1, <2>3, <2>4, StepWrites
<1>2. CASE NewMonth \/ UNCHANGED vars
  BY <1>2 DEF NewMonth, vars, UpdatedOnce
<1> QED BY <1>1, <1>2 DEF Next

\* Every update has a record, and different updates have different ones.
LEMMA UpdatesAreRecords ==
  ASSUME TypeOK, IsFiniteSet(Places), CommitsRecorded, UpdatedOnce, NEW c \in Calls
  PROVE  UpdatesOfOthers(c) <= RecordsOfOthers(c)
<1> DEFINE S == {i \in 1..Len(log) : log[i].by # c}
           T == {p \in Places : RecordAt(p).by # c}
           f == [i \in S |-> CHOOSE p \in Places : RecordAt(p) = log[i]]
<1>1. ASSUME NEW i \in S PROVE f[i] \in Places /\ RecordAt(f[i]) = log[i]
  <2>1. PICK m \in Months : \E j \in 1..Len(book[m]) : book[m][j] = log[i]
    BY DEF CommitsRecorded, InBook
  <2>2. PICK j \in 1..Len(book[m]) : book[m][j] = log[i]
    BY <2>1
  <2>3. <<m, j>> \in Places /\ RecordAt(<<m, j>>) = log[i]
    BY <2>2, PlacesAre DEF RecordAt
  <2> QED BY <2>3
<1>2. ASSUME NEW i \in S, NEW j \in S, f[i] = f[j] PROVE i = j
  <2>1. log[i] = log[j]
    BY <1>1, <1>2
  <2> QED BY <2>1 DEF UpdatedOnce
<1>3. f \in Injection(S, T)
  <2>1. \A i \in S : f[i] \in T
    BY <1>1
  <2>2. f \in [S -> T]
    BY <2>1
  <2> QED BY <1>2, <2>2 DEF Injection, IsInjective
<1>4. IsFiniteSet(T)
  BY FS_Subset
<1> HIDE DEF S, T, f
<1> QED BY <1>3, <1>4, FS_Injection DEF UpdatesOfOthers, RecordsOfOthers, S, T

\* No attempt is lost but to others.
LEMMA LostToOthersNext ==
  ASSUME TypeOK, UserFresh, BookFresh, IsFiniteSet(Places), LostToOthers,
         ~Unreliable, [Next]_vars
  PROVE  LostToOthers' /\ IsFiniteSet(Places)'
<1>1. ASSUME NEW c \in Calls, Step(c) \/ \E p \in Amounts : ChangePoint(c, p)
      PROVE  LostToOthers' /\ IsFiniteSet(Places)'
  <2>0. /\ \A d \in Calls : /\ RecordsOfOthers(d) \in Nat /\ UpdatesOfOthers(d) \in Nat
                            /\ outer[d].try \in Nat /\ outer[d].ver \in Nat
                            /\ inner[d].try \in Nat /\ inner[d].ver \in Nat
        /\ userVer \in Nat /\ bookVer \in Nat
    <3>1. \A d \in Calls : RecordsOfOthers(d) \in Nat /\ UpdatesOfOthers(d) \in Nat
      BY CountsType
    <3>2. \A d \in Calls : /\ outer[d].try \in Nat /\ outer[d].ver \in Nat
                           /\ inner[d].try \in Nat /\ inner[d].ver \in Nat
      <4>1. \A d \in Calls : outer[d] \in Outer /\ inner[d] \in Inner
        BY DEF TypeOK
      <4> QED BY <4>1, MaxAttemptsAssumption DEF Outer, Inner
    <3>3. userVer \in Nat /\ bookVer \in Nat
      BY DEF TypeOK
    <3> QED BY <3>1, <3>2, <3>3
  <2>1. \/ UNCHANGED <<book, bookVer>>
        \/ /\ bookVer # 0 /\ bookVer' = bookVer + 1 /\ IsFiniteSet(Places)'
           /\ \A d \in Calls \ {c} : RecordsOfOthers(d)' = RecordsOfOthers(d) + 1
    BY <1>1, StepWrites, AppendCounts
  <2>2. \/ UNCHANGED <<log, userVer>>
        \/ /\ userVer' = userVer + 1
           /\ \A d \in Calls \ {c} : UpdatesOfOthers(d)' = UpdatesOfOthers(d) + 1
    BY <1>1, StepWrites, AppendUpdates
  <2>3. book' = book => /\ IsFiniteSet(Places)'
                        /\ \A d \in Calls : RecordsOfOthers(d)' = RecordsOfOthers(d)
    BY DEF Places, RecordsOfOthers, RecordAt
  <2>4. log' = log => \A d \in Calls : UpdatesOfOthers(d)' = UpdatesOfOthers(d)
    BY DEF UpdatesOfOthers
  <2> DEFINE Lost(d) ==
         /\ pc[d] = "idle" => outer[d].try = 1
         /\ pc[d] \in Running => outer[d].try - 1 <= UpdatesOfOthers(d)
         /\ pc[d] \in Running \ {"get"} /\ outer[d].ver < userVer
              => outer[d].try <= UpdatesOfOthers(d)
         /\ pc[d] \in {"addGet", "addCommit"} => inner[d].try - 1 <= RecordsOfOthers(d)
         /\ pc[d] = "addCommit" /\ inner[d].ver < bookVer
              => inner[d].try <= RecordsOfOthers(d)
         /\ pc[d] = "addCommit" /\ ~Exists(inner[d].ver) => ~Exists(bookVer)
  <2>5. \A d \in Calls : Lost(d)
    BY DEF LostToOthers
  <2>6. ASSUME NEW d \in Calls \ {c} PROVE Lost(d)'
    <3>1. pc'[d] = pc[d] /\ outer'[d] = outer[d] /\ inner'[d] = inner[d]
      BY <1>1, OneCallSteps
    <3>2. \/ bookVer' = bookVer /\ RecordsOfOthers(d)' = RecordsOfOthers(d)
          \/ /\ bookVer # 0 /\ bookVer' = bookVer + 1
             /\ RecordsOfOthers(d)' = RecordsOfOthers(d) + 1
      BY <2>1, <2>3
    <3>3. \/ userVer' = userVer /\ UpdatesOfOthers(d)' = UpdatesOfOthers(d)
          \/ userVer' = userVer + 1 /\ UpdatesOfOthers(d)' = UpdatesOfOthers(d) + 1
      BY <2>2, <2>4
    <3> QED BY <2>0, <2>5, <3>1, <3>2, <3>3 DEF Exists
  <2>7. Lost(c)'
    <3>1. CASE OuterGet(c) \/ AddRecordGet(c) \/ \E p \in Amounts : ChangePoint(c, p)
      <4>1. /\ UNCHANGED <<bookVer, userVer>>
            /\ RecordsOfOthers(c)' = RecordsOfOthers(c)
            /\ UpdatesOfOthers(c)' = UpdatesOfOthers(c)
        BY <3>1, <2>3, <2>4 DEF OuterGet, AddRecordGet, ChangePoint
      <4>2. CASE OuterGet(c)
        BY <4>1, <4>2, <2>0, <2>5 DEF OuterGet, TypeOK, Running, NoInner
      <4>3. CASE AddRecordGet(c)
        BY <4>1, <4>3, <2>0, <2>5 DEF AddRecordGet, TypeOK, Running, Exists
      <4>4. CASE \E p \in Amounts : ChangePoint(c, p)
        BY <4>1, <4>4, <2>0, <2>5 DEF ChangePoint, TypeOK, Running
      <4> QED BY <3>1, <4>2, <4>3, <4>4
    <3>2. CASE AddRecordCommit(c) \/ OuterCommit(c)
      <4>1. CASE AddRecordCommit(c)
        <5>1. pc[c] = "addCommit" /\ pc'[c] = "commit" /\ outer' = outer /\ userVer' = userVer
              /\ UpdatesOfOthers(c)' = UpdatesOfOthers(c)
          BY <4>1, <2>4 DEF AddRecordCommit, TypeOK
        <5> QED BY <5>1, <2>5 DEF Running
      <4>2. CASE OuterCommit(c)
        <5>1. pc'[c] = "done"
          BY <4>2 DEF OuterCommit, TypeOK
        <5> QED BY <5>1 DEF Running
      <4> QED BY <3>2, <4>1, <4>2
    <3>3. CASE AddRecordReject(c)
      <4>1. /\ UNCHANGED <<bookVer, userVer, outer>> /\ pc[c] = "addCommit"
            /\ RecordsOfOthers(c)' = RecordsOfOthers(c)
            /\ UpdatesOfOthers(c)' = UpdatesOfOthers(c)
        BY <3>3, <2>3, <2>4 DEF AddRecordReject
      <4>2. CASE pc'[c] = "failed"
        BY <4>2 DEF Running
      <4>3. CASE pc'[c] # "failed"
        <5>1. pc'[c] = "addGet" /\ inner'[c].try = inner[c].try + 1 /\ Exists(inner[c].ver)
          BY <3>3, <4>3 DEF AddRecordReject, RetryInner, TypeOK, Inner
        <5>2. inner[c].ver < bookVer
          BY <3>3, <5>1, <2>0 DEF AddRecordReject, Accepted, BookFresh
        <5> QED BY <4>1, <5>1, <5>2, <2>0, <2>5 DEF Running
      <4> QED BY <4>2, <4>3
    <3>4. CASE OuterReject(c)
      <4>1. /\ userVer' = userVer /\ pc[c] = "commit"
            /\ UpdatesOfOthers(c)' = UpdatesOfOthers(c)
        BY <3>4, <2>4 DEF OuterReject
      <4>2. CASE pc'[c] = "failed"
        BY <4>2 DEF Running
      <4>3. CASE pc'[c] # "failed"
        <5>1. pc'[c] = "get" /\ outer'[c].try = outer[c].try + 1 /\ Exists(outer[c].ver)
          BY <3>4, <4>3 DEF OuterReject, RetryOuter, TypeOK, Outer
        <5>2. outer[c].ver < userVer
          BY <3>4, <5>1, <2>0 DEF OuterReject, Accepted, UserFresh
        <5> QED BY <4>1, <5>1, <5>2, <2>0, <2>5 DEF Running
      <4> QED BY <4>2, <4>3
    <3> QED BY <1>1, <3>1, <3>2, <3>3, <3>4
        DEF Step, AddRecordLost, OuterLost, GetFails
  <2>8. LostToOthers'
    <3> HIDE DEF Lost
    <3>1. \A d \in Calls : Lost(d)'
      BY <2>6, <2>7
    <3> QED BY <3>1 DEF LostToOthers, Lost
  <2> QED BY <2>1, <2>3, <2>8
<1>2. CASE NewMonth \/ UNCHANGED vars
  <2>1. UNCHANGED <<pc, outer, inner, book, bookVer, userVer, log>>
    BY <1>2 DEF NewMonth, vars
  <2>2. /\ Places' = Places
        /\ \A d \in Calls : /\ UpdatesOfOthers(d)' = UpdatesOfOthers(d)
                           /\ RecordsOfOthers(d)' = RecordsOfOthers(d)
    BY <2>1 DEF UpdatesOfOthers, RecordsOfOthers, Places, RecordAt
  <2> QED BY <2>1, <2>2 DEF LostToOthers, Exists
<1> QED BY <1>1, <1>2 DEF Next

\* A call that throws has found a document missing, or lost its last attempt.
LEMMA FailureHasCauseNext ==
  ASSUME TypeOK, UserFresh, BookFresh, IsFiniteSet(Places), LostToOthers,
         CommitsRecorded, UpdatedOnce, FailureHasCause, ~Unreliable, [Next]_vars
  PROVE  FailureHasCause'
<1> DEFINE Cause(d) == \/ ~Exists(userVer)
                       \/ ~Exists(bookVer)
                       \/ RecordsOfOthers(d) >= MaxAttempts
<1>1. ASSUME NEW c \in Calls, Step(c) \/ \E p \in Amounts : ChangePoint(c, p)
      PROVE  FailureHasCause'
  <2>0. \A d \in Calls : RecordsOfOthers(d) \in Nat /\ UpdatesOfOthers(d) \in Nat
    BY CountsType
  <2>1. /\ ~Exists(userVer) => ~Exists(userVer)'
        /\ ~Exists(bookVer) => ~Exists(bookVer)'
    BY <1>1, StepWrites DEF Exists
  <2>2. ASSUME NEW d \in Calls 
        PROVE  RecordsOfOthers(d)' \in Nat /\ RecordsOfOthers(d)' >= RecordsOfOthers(d)
    <3>1. CASE book' = book
      BY <3>1, <2>0 DEF RecordsOfOthers, Places, RecordAt
    <3>2. CASE book' # book
      <4>1. \/ RecordsOfOthers(d)' = RecordsOfOthers(d)
            \/ RecordsOfOthers(d)' = RecordsOfOthers(d) + 1
        BY <1>1, <3>2, StepWrites, AppendCounts
      <4> QED BY <4>1, <2>0
    <3> QED BY <3>1, <3>2
  <2>4. ASSUME NEW d \in Calls, Cause(d) PROVE Cause(d)'
    BY <2>0, <2>1, <2>2, <2>4, MaxAttemptsAssumption
  <2>5. ASSUME pc'[c] = "failed" PROVE Cause(c)
    <3>0. /\ inner[c].try \in 1..MaxAttempts /\ inner[c].ver \in Nat
          /\ outer[c].try \in 1..MaxAttempts /\ outer[c].ver \in Nat
          /\ userVer \in Nat /\ bookVer \in Nat
      <4>1. outer[c] \in Outer /\ inner[c] \in Inner /\ userVer \in Nat /\ bookVer \in Nat
        BY DEF TypeOK
      <4> QED BY <4>1 DEF Outer, Inner
    <3>1. AddRecordReject(c) \/ OuterReject(c)
      <4>1. CASE \E p \in Amounts : ChangePoint(c, p)
        BY <4>1, <2>5 DEF ChangePoint, TypeOK
      <4>2. CASE Step(c)
        BY <4>2, <2>5 DEF Step, TypeOK, OuterGet, AddRecordGet, AddRecordCommit,
          AddRecordLost, OuterCommit, OuterLost, GetFails
      <4> QED BY <1>1, <4>1, <4>2
    <3>2. CASE AddRecordReject(c)
      <4>1. /\ pc[c] = "addCommit" /\ ~Accepted(inner[c].ver, bookVer)
            /\ ~(Exists(inner[c].ver) /\ inner[c].try < MaxAttempts)
        BY <3>2, <2>5 DEF AddRecordReject, RetryInner, TypeOK
      <4>2. CASE ~Exists(inner[c].ver)
        BY <4>1, <4>2 DEF LostToOthers
      <4>3. CASE Exists(inner[c].ver)
        <5>1. inner[c].try = MaxAttempts /\ inner[c].ver < bookVer
          BY <4>1, <4>3, <3>0, MaxAttemptsAssumption DEF Accepted, BookFresh
        <5>2. inner[c].try <= RecordsOfOthers(c)
          BY <4>1, <5>1 DEF LostToOthers
        <5> QED BY <5>1, <5>2, <2>0, MaxAttemptsAssumption
      <4> QED BY <4>2, <4>3
    <3>3. CASE OuterReject(c)
      <4>1. /\ pc[c] = "commit" /\ ~Accepted(outer[c].ver, userVer)
            /\ ~(Exists(outer[c].ver) /\ outer[c].try < MaxAttempts)
        BY <3>3, <2>5 DEF OuterReject, RetryOuter, TypeOK
      <4>2. CASE ~Exists(outer[c].ver)
        BY <4>1, <4>2 DEF UserFresh
      <4>3. CASE Exists(outer[c].ver)
        <5>1. outer[c].try = MaxAttempts /\ outer[c].ver < userVer
          BY <4>1, <4>3, <3>0, MaxAttemptsAssumption DEF Accepted, UserFresh
        <5>2. outer[c].try <= UpdatesOfOthers(c)
          BY <4>1, <5>1 DEF LostToOthers, Running
        <5>3. UpdatesOfOthers(c) <= RecordsOfOthers(c)
          BY UpdatesAreRecords
        <5> QED BY <5>1, <5>2, <5>3, <2>0, MaxAttemptsAssumption
      <4> QED BY <4>2, <4>3
    <3> QED BY <3>1, <3>2, <3>3
  <2>6. ASSUME NEW d \in Calls, pc'[d] = "failed" PROVE Cause(d)
    <3>1. CASE d = c
      BY <3>1, <2>5, <2>6
    <3>2. CASE d # c
      BY <3>2, <2>6, <1>1, OneCallSteps DEF FailureHasCause
    <3> QED BY <3>1, <3>2
  <2> QED BY <2>4, <2>6 DEF FailureHasCause
<1>2. CASE NewMonth \/ UNCHANGED vars
  <2>1. UNCHANGED <<pc, book, bookVer, userVer>>
    BY <1>2 DEF NewMonth, vars
  <2>2. \A d \in Calls : RecordsOfOthers(d)' = RecordsOfOthers(d)
    BY <2>1 DEF RecordsOfOthers, Places, RecordAt
  <2> QED BY <2>1, <2>2 DEF FailureHasCause, Exists
<1> QED BY <1>1, <1>2 DEF Next

\* One record for each attempt whose addRecord committed.
LEMMA PhantomPerRetryNext ==
  ASSUME TypeOK, BookFresh, IsFiniteSet(Places), LostToOthers, PhantomPerRetry,
         ~Unreliable, [Next]_vars
  PROVE  PhantomPerRetry'
<1> DEFINE Phantom(d) ==
      /\ pc[d] = "idle" => RecordsOf(d) = 0
      /\ pc[d] \in {"get", "addGet", "addCommit"} => RecordsOf(d) = outer[d].try - 1
      /\ pc[d] \in {"commit", "done"} => RecordsOf(d) = outer[d].try
      /\ pc[d] = "failed" => RecordsOf(d) \in {outer[d].try - 1, outer[d].try}
<1>0. /\ \A d \in Calls : RecordsOf(d) \in Nat /\ outer[d].try \in Nat /\ pc[d] \in PC
      /\ \A d \in Calls : pc'[d] \in PC
  <2>1. \A d \in Calls : outer[d] \in Outer /\ pc[d] \in PC
    BY DEF TypeOK
  <2>2. \A d \in Calls : pc'[d] \in PC
    BY NextTypeOK DEF TypeOK
  <2> QED BY <2>1, <2>2, CountsType DEF Outer
<1>1. \A d \in Calls : Phantom(d)
  BY <1>0 DEF PhantomPerRetry, PC
<1>2. SUFFICES \A d \in Calls : Phantom(d)'
  BY <1>0, <1>2 DEF PhantomPerRetry, PC
<1>3. ASSUME NEW c \in Calls, Step(c) \/ \E p \in Amounts : ChangePoint(c, p)
      PROVE  \A d \in Calls : Phantom(d)'
  <2>1. ASSUME NEW d \in Calls \ {c} PROVE RecordsOf(d)' = RecordsOf(d)
    <3>1. CASE book' = book
      BY <3>1 DEF RecordsOf, Places, RecordAt
    <3>2. CASE book' # book
      BY <1>3, <3>2, StepWrites, AppendCounts
    <3> QED BY <3>1, <3>2
  <2>2. ASSUME NEW d \in Calls \ {c} PROVE Phantom(d)'
    BY <2>1, <2>2, <1>1, <1>3, OneCallSteps
  <2>3. Phantom(c)'
    <3>1. CASE AddRecordCommit(c)
      <4>1. RecordsOf(c)' = RecordsOf(c) + 1
        BY <3>1, <1>3, StepWrites, AppendCounts DEF AddRecordCommit, OuterCommit
      <4>2. pc[c] = "addCommit" /\ pc'[c] = "commit" /\ outer' = outer
        BY <3>1 DEF AddRecordCommit, TypeOK
      <4> QED BY <4>1, <4>2, <1>0, <1>1
    <3>2. CASE ~AddRecordCommit(c)
      <4>0. book' = book
        BY <1>3, <3>2, StepWrites
      <4>1. RecordsOf(c)' = RecordsOf(c)
        BY <4>0 DEF RecordsOf, Places, RecordAt
      <4>2. CASE \E p \in Amounts : ChangePoint(c, p)
        BY <4>1, <4>2, <1>0, <1>1 DEF ChangePoint, TypeOK, LostToOthers
      <4>3. CASE OuterGet(c) \/ AddRecordGet(c)
        <5>1. /\ pc[c] \in {"get", "addGet"} /\ pc'[c] \in {"addGet", "addCommit"}
              /\ outer'[c].try = outer[c].try
          BY <4>3 DEF OuterGet, AddRecordGet, TypeOK
        <5> QED BY <4>1, <5>1, <1>0, <1>1
      <4>4. CASE AddRecordReject(c)
        <5>1. pc[c] = "addCommit" /\ outer' = outer /\ pc'[c] \in {"addGet", "failed"}
          BY <4>4 DEF AddRecordReject, RetryInner, TypeOK
        <5> QED BY <4>1, <5>1, <1>0, <1>1
      <4>5. CASE OuterCommit(c)
        <5>1. pc[c] = "commit" /\ outer' = outer /\ pc'[c] = "done"
          BY <4>5 DEF OuterCommit, TypeOK
        <5> QED BY <4>1, <5>1, <1>0, <1>1
      <4>6. CASE OuterReject(c)
        <5>1. /\ pc[c] = "commit"
              /\ \/ pc'[c] = "get" /\ outer'[c].try = outer[c].try + 1
                 \/ pc'[c] = "failed" /\ outer' = outer
          BY <4>6 DEF OuterReject, RetryOuter, TypeOK, Outer
        <5> QED BY <4>1, <5>1, <1>0, <1>1
      <4> QED BY <1>3, <3>2, <4>2, <4>3, <4>4, <4>5, <4>6
          DEF Step, AddRecordLost, OuterLost, GetFails
    <3> QED BY <3>1, <3>2
  <2> QED BY <2>2, <2>3
<1>4. CASE NewMonth \/ UNCHANGED vars
  <2>1. UNCHANGED <<pc, book, outer>>
    BY <1>4 DEF NewMonth, vars
  <2>2. \A d \in Calls : RecordsOf(d)' = RecordsOf(d)
    BY <2>1 DEF RecordsOf, Places, RecordAt
  <2> QED BY <2>1, <2>2, <1>1
<1> QED BY <1>3, <1>4 DEF Next

\* Whether replies are lost or not, the answer of a call is right after it.
LEMMA AnswerIsTrueNext ==
  ASSUME TypeOK, AnswerIsTrue, [Next]_vars
  PROVE  AnswerIsTrue'
<1> DEFINE True(d) == IF Unreliable THEN pc[d] = "done" => TimesApplied(d) >= 1
                      ELSE TimesApplied(d) = (IF pc[d] = "done" THEN 1 ELSE 0)
<1>0. \A d \in Calls : True(d) /\ TimesApplied(d) \in Nat
  BY TimesAppliedType DEF AnswerIsTrue
<1>1. ASSUME NEW c \in Calls, Step(c) \/ \E p \in Amounts : ChangePoint(c, p)
      PROVE  AnswerIsTrue'
  <2>1. \A d \in Calls \ {c} : pc'[d] = pc[d]
    BY <1>1, OneCallSteps
  <2>2. pc[c] # "done"
    BY <1>1 DEF Step, ChangePoint, OuterGet, AddRecordGet, AddRecordCommit,
      AddRecordReject, AddRecordLost, OuterCommit, OuterReject, OuterLost, GetFails
  <2>3. CASE OuterCommit(c) \/ OuterLost(c)
    <3>1. /\ TimesApplied(c)' = TimesApplied(c) + 1
          /\ \A d \in Calls \ {c} : TimesApplied(d)' = TimesApplied(d)
      BY <2>3, TimesAppliedAppend DEF OuterCommit, OuterLost, WriteUser
    <3>2. pc'[c] = "done" \/ Unreliable
      BY <2>3 DEF OuterCommit, OuterLost, TypeOK
    <3>3. True(c)'
      BY <3>1, <3>2, <2>2, <1>0, UnreliableAssumption
    <3>4. \A d \in Calls \ {c} : True(d)'
      BY <3>1, <2>1, <1>0
    <3> QED BY <3>3, <3>4 DEF AnswerIsTrue
  <2>4. CASE ~OuterCommit(c) /\ ~OuterLost(c)
    <3>1. log' = log /\ pc'[c] # "done"
      <4>1. CASE \E p \in Amounts : ChangePoint(c, p)
        BY <4>1 DEF ChangePoint, TypeOK
      <4>2. CASE Step(c)
        BY <4>2, <2>4 DEF Step, OuterGet, AddRecordGet, AddRecordCommit, AddRecordReject,
          AddRecordLost, RetryInner, OuterReject, RetryOuter, GetFails, TypeOK
      <4> QED BY <1>1, <4>1, <4>2
    <3>2. \A d \in Calls : TimesApplied(d)' = TimesApplied(d)
      BY <3>1, TimesAppliedSame
    <3>3. True(c)'
      BY <3>1, <3>2, <2>2, <1>0
    <3>4. \A d \in Calls \ {c} : True(d)'
      BY <3>2, <2>1, <1>0
    <3> QED BY <3>3, <3>4 DEF AnswerIsTrue
  <2> QED BY <2>3, <2>4
<1>2. CASE NewMonth \/ UNCHANGED vars
  <2>1. log' = log /\ pc' = pc
    BY <1>2 DEF NewMonth, vars
  <2> QED BY <2>1, <1>0, TimesAppliedSame DEF AnswerIsTrue
<1> QED BY <1>1, <1>2 DEF Next

-----------------------------------------------------------------------------
(* Without lost replies: the passbook is in commit order. *)

\* A record was written by an attempt its call has made, once only; an attempt
\* that has not committed its record yet has none.
OncePerAttempt ==
  /\ \A p \in Places :
       LET r == RecordAt(p) IN
       /\ pc[r.by] # "idle" /\ r.try <= outer[r.by].try
       /\ pc[r.by] \in {"get", "addGet", "addCommit"} => r.try < outer[r.by].try
  /\ \A p, q \in Places :
       RecordAt(p).by = RecordAt(q).by /\ RecordAt(p).try = RecordAt(q).try => p = q

\* Nothing is written for a month to come.
NoFutureMonth ==
  /\ \A p \in Places : p[1] <= month
  /\ \A c \in Calls : pc[c] = "addCommit" => inner[c].month <= month

\* The place p holds the record of a balance update.
Logged(p) == \E i \in 1..Len(log) : RecordAt(p) = log[i]

\* While the balance is what a call has read, the records of all updates so far
\* stand before its own, or will.
LoggedFirst ==
  \A c \in Calls : outer[c].ver = userVer =>
    \A p \in Places : Logged(p) =>
      /\ pc[c] = "addCommit" => p[1] <= inner[c].month
      /\ pc[c] = "commit" => \A q \in Places : RecordAt(q) = RecordOf(c) => Before(p, q)

\* What a place is, and what stands there.
LEMMA PlaceType ==
  ASSUME TypeOK, NEW p \in Places
  PROVE  /\ p[1] \in Months /\ p[2] \in 1..Len(book[p[1]]) /\ p = <<p[1], p[2]>>
         /\ RecordAt(p).by \in Calls /\ RecordAt(p).try \in 1..MaxAttempts
<1>1. PICK m \in Months : \E j \in 1..Len(book[m]) : p = <<m, j>>
  BY PlacesAre
<1>2. PICK j \in 1..Len(book[m]) : p = <<m, j>>
  BY <1>1
<1>3. book[m][j] \in Record
  BY DEF TypeOK
<1> QED BY <1>2, <1>3 DEF RecordAt, Record

\* How the attempts of a call go on.
LEMMA TryGrows ==
  ASSUME TypeOK, ~Unreliable, NEW c \in Calls,
         Step(c) \/ \E p \in Amounts : ChangePoint(c, p)
  PROVE  /\ outer[c].try \in Nat /\ outer'[c].try \in Nat
         /\ outer'[c].try >= outer[c].try /\ pc'[c] # "idle"
         /\ pc'[c] \in {"get", "addGet", "addCommit"} =>
              \/ pc[c] \in {"idle", "get", "addGet", "addCommit"}
              \/ outer'[c].try > outer[c].try
<1>0. outer[c] \in Outer /\ outer[c].try \in Nat
  <2>1. outer[c] \in Outer
    BY DEF TypeOK
  <2> QED BY <2>1 DEF Outer
<1>1. CASE OuterGet(c) \/ AddRecordGet(c) \/ \E p \in Amounts : ChangePoint(c, p)
  <2>1. outer'[c].try = outer[c].try /\ pc[c] \in {"idle", "get", "addGet"} /\ pc'[c] # "idle"
    BY <1>1 DEF OuterGet, AddRecordGet, ChangePoint, TypeOK
  <2> QED BY <1>0, <2>1
<1>2. CASE AddRecordCommit(c) \/ AddRecordReject(c) \/ OuterCommit(c)
  <2>1. outer' = outer /\ pc'[c] # "idle"
        /\ (pc[c] = "addCommit" \/ pc'[c] = "done")
    BY <1>2 DEF AddRecordCommit, AddRecordReject, RetryInner, OuterCommit, TypeOK
  <2> QED BY <1>0, <2>1
<1>3. CASE OuterReject(c)
  <2>1. \/ outer'[c].try = outer[c].try + 1 /\ pc'[c] = "get"
        \/ outer'[c].try = outer[c].try /\ pc'[c] = "failed"
    BY <1>3, <1>0 DEF OuterReject, RetryOuter, TypeOK, Outer
  <2> QED BY <1>0, <2>1
<1> QED BY <1>1, <1>2, <1>3 DEF Step, AddRecordLost, OuterLost, GetFails

\* Every attempt writes one record at most.
LEMMA OncePerAttemptNext ==
  ASSUME TypeOK, BookFresh, OncePerAttempt, ~Unreliable, [Next]_vars
  PROVE  OncePerAttempt'
<1>1. ASSUME NEW c \in Calls, Step(c) \/ \E p \in Amounts : ChangePoint(c, p)
      PROVE  OncePerAttempt'
  <2>0. \A p \in Places : /\ RecordAt(p).by \in Calls /\ RecordAt(p).try \in Nat
                          /\ outer[RecordAt(p).by].try \in Nat
    <3>1. \A p \in Places : RecordAt(p).by \in Calls /\ RecordAt(p).try \in Nat
      BY PlaceType
    <3>2. \A d \in Calls : outer[d] \in Outer
      BY DEF TypeOK
    <3> QED BY <3>1, <3>2 DEF Outer
  <2>1. ASSUME NEW p \in Places
        PROVE  LET r == RecordAt(p) IN
               /\ pc'[r.by] # "idle" /\ r.try <= outer'[r.by].try
               /\ pc'[r.by] \in {"get", "addGet", "addCommit"} => r.try < outer'[r.by].try
    <3>1. LET r == RecordAt(p) IN
          /\ pc[r.by] # "idle" /\ r.try <= outer[r.by].try
          /\ pc[r.by] \in {"get", "addGet", "addCommit"} => r.try < outer[r.by].try
      BY DEF OncePerAttempt
    <3>2. CASE RecordAt(p).by = c
      BY <3>1, <3>2, <2>0, <1>1, TryGrows
    <3>3. CASE RecordAt(p).by # c
      BY <3>1, <3>3, <2>0, <1>1, OneCallSteps
    <3> QED BY <3>2, <3>3
  <2>2. CASE book' = book
    <3>1. Places' = Places /\ \A p \in Places : RecordAt(p)' = RecordAt(p)
      BY <2>2 DEF Places, RecordAt
    <3> QED BY <2>1, <3>1 DEF OncePerAttempt
  <2>3. CASE AddRecordCommit(c)
    <3>1. /\ inner[c].month \in Months
          /\ book' = [book EXCEPT ![inner[c].month] =
                        Append(book[inner[c].month], RecordOf(c))]
      BY <2>3, WriteBookAppends DEF AddRecordCommit
    <3>2. PICK new : /\ Places' = Places \union {new} /\ new \notin Places
                     /\ RecordAt(new)' = RecordOf(c)
                     /\ \A p \in Places : RecordAt(p)' = RecordAt(p)
      BY <3>1, RecordOfType, AppendAddsPlace
    <3>3. RecordOf(c).by = c /\ RecordOf(c).try = outer[c].try
      BY DEF RecordOf
    <3>4. pc[c] = "addCommit" /\ pc'[c] = "commit" /\ outer' = outer /\ outer[c].try \in Nat
      BY <2>3, <1>1, TryGrows DEF AddRecordCommit, TypeOK
    <3>5. \A p \in Places : ~(RecordAt(p).by = c /\ RecordAt(p).try = outer[c].try)
      BY <2>0, <3>4 DEF OncePerAttempt
    <3>6. ASSUME NEW p \in Places'
          PROVE  LET r == RecordAt(p)' IN
               /\ pc'[r.by] # "idle" /\ r.try <= outer'[r.by].try
               /\ pc'[r.by] \in {"get", "addGet", "addCommit"} => r.try < outer'[r.by].try
      <4>1. CASE p = new
        BY <4>1, <3>2, <3>3, <3>4
      <4>2. CASE p \in Places
        BY <4>2, <3>2, <2>1
      <4> QED BY <3>2, <4>1, <4>2
    <3>7. ASSUME NEW p \in Places', NEW q \in Places',
                 RecordAt(p)'.by = RecordAt(q)'.by, RecordAt(p)'.try = RecordAt(q)'.try
          PROVE  p = q
      <4>1. CASE p \in Places /\ q \in Places
        BY <4>1, <3>2, <3>7 DEF OncePerAttempt
      <4>2. CASE p = new \/ q = new
        BY <4>2, <3>2, <3>3, <3>5, <3>7
      <4> QED BY <3>2, <4>1, <4>2
    <3> QED BY <3>6, <3>7 DEF OncePerAttempt
  <2> QED BY <1>1, <2>2, <2>3, StepWrites
<1>2. CASE NewMonth \/ UNCHANGED vars
  <2>1. UNCHANGED <<pc, outer, book>>
    BY <1>2 DEF NewMonth, vars
  <2>2. Places' = Places /\ \A p \in Places : RecordAt(p)' = RecordAt(p)
    BY <2>1 DEF Places, RecordAt
  <2> QED BY <2>1, <2>2 DEF OncePerAttempt
<1> QED BY <1>1, <1>2 DEF Next

\* The clock only goes forward.
LEMMA NoFutureMonthNext ==
  ASSUME TypeOK, BookFresh, NoFutureMonth, ~Unreliable, [Next]_vars
  PROVE  NoFutureMonth'
<1>0. month \in Nat /\ (\A p \in Places : p[1] \in Nat) /\ \A c \in Calls : inner[c].month \in Nat
  <2>1. \A p \in Places : p[1] \in Nat
    BY PlaceType DEF Months
  <2>2. \A c \in Calls : inner[c] \in Inner
    BY DEF TypeOK
  <2> QED BY <2>1, <2>2 DEF TypeOK, Inner, Months
<1>1. ASSUME NEW c \in Calls, Step(c) \/ \E p \in Amounts : ChangePoint(c, p)
      PROVE  NoFutureMonth'
  <2>1. month' = month
    BY <1>1 DEF Step, ChangePoint, OuterGet, AddRecordGet, AddRecordCommit,
      AddRecordReject, AddRecordLost, OuterCommit, OuterReject, OuterLost, GetFails
  <2>2. ASSUME NEW d \in Calls, pc'[d] = "addCommit" PROVE inner'[d].month <= month
    <3>1. CASE d # c
      BY <3>1, <2>2, <1>1, OneCallSteps DEF NoFutureMonth
    <3>2. CASE d = c
      <4>1. AddRecordGet(c)
        <5>1. CASE \E p \in Amounts : ChangePoint(c, p)
          BY <5>1, <3>2, <2>2 DEF ChangePoint, TypeOK
        <5>2. CASE OuterGet(c) \/ AddRecordCommit(c) \/ AddRecordReject(c)
          BY <5>2, <3>2, <2>2 DEF OuterGet, AddRecordCommit, AddRecordReject,
            RetryInner, TypeOK
        <5>3. CASE OuterCommit(c) \/ OuterReject(c)
          BY <5>3, <3>2, <2>2 DEF OuterCommit, OuterReject, RetryOuter, TypeOK
        <5> QED BY <1>1, <5>1, <5>2, <5>3
            DEF Step, AddRecordLost, OuterLost, GetFails
      <4>2. inner'[c].month = month
        BY <4>1 DEF AddRecordGet, TypeOK
      <4> QED BY <3>2, <4>2, <1>0
    <3> QED BY <3>1, <3>2
  <2>3. ASSUME NEW p \in Places' PROVE p[1] <= month
    <3>1. CASE book' = book
      <4>1. Places' = Places
        BY <3>1 DEF Places
      <4> QED BY <4>1 DEF NoFutureMonth
    <3>2. CASE AddRecordCommit(c)
      <4>1. /\ inner[c].month \in Months /\ pc[c] = "addCommit"
            /\ book' = [book EXCEPT ![inner[c].month] =
                          Append(book[inner[c].month], RecordOf(c))]
        BY <3>2, WriteBookAppends DEF AddRecordCommit
      <4>2. p \in Places \/ p = <<inner[c].month, Len(book[inner[c].month]) + 1>>
        <5>1. PICK new : /\ new = <<inner[c].month, Len(book[inner[c].month]) + 1>>
                         /\ Places' = Places \union {new}
          BY <4>1, RecordOfType, AppendAddsPlace
        <5> QED BY <5>1
      <4> QED BY <4>1, <4>2 DEF NoFutureMonth
    <3> QED BY <1>1, <3>1, <3>2, StepWrites
  <2> QED BY <2>1, <2>2, <2>3 DEF NoFutureMonth
<1>2. CASE NewMonth \/ UNCHANGED vars
  <2>1. UNCHANGED <<pc, inner, book>> /\ (month' = month \/ month' = month + 1)
    BY <1>2 DEF NewMonth, vars
  <2>2. Places' = Places
    BY <2>1 DEF Places
  <2> QED BY <1>0, <2>1, <2>2 DEF NoFutureMonth
<1> QED BY <1>1, <1>2 DEF Next

\* A step that does not update the balance leaves the logged records where they
\* are: a record it adds is that of a call that has not updated the balance.
LEMMA LoggedSame ==
  ASSUME TypeOK, BookFresh, UpdatedOnce, ~Unreliable, NEW c \in Calls,
         Step(c) \/ \E p \in Amounts : ChangePoint(c, p), log' = log
  PROVE  \A p \in Places' : \A i \in 1..Len(log) : RecordAt(p)' = log[i] =>
           p \in Places /\ RecordAt(p) = log[i]
<1>1. CASE book' = book
  BY <1>1 DEF Places, RecordAt
<1>2. CASE AddRecordCommit(c)
  <2>1. /\ inner[c].month \in Months /\ pc[c] = "addCommit"
        /\ book' = [book EXCEPT ![inner[c].month] =
                      Append(book[inner[c].month], RecordOf(c))]
    BY <1>2, WriteBookAppends DEF AddRecordCommit
  <2>2. PICK new : /\ Places' = Places \union {new}
                   /\ RecordAt(new)' = RecordOf(c)
                   /\ \A p \in Places : RecordAt(p)' = RecordAt(p)
    BY <2>1, RecordOfType, AppendAddsPlace
  <2>3. \A i \in 1..Len(log) : log[i] # RecordOf(c)
    BY <2>1 DEF UpdatedOnce, RecordOf
  <2> QED BY <2>2, <2>3
<1> QED BY <1>1, <1>2, StepWrites

\* The record of a call is written behind all those of the updates it has seen.
LEMMA LoggedFirstNext ==
  ASSUME TypeOK, UserFresh, BookFresh, UpdatedOnce, OncePerAttempt, NoFutureMonth,
         LoggedFirst, ~Unreliable, [Next]_vars
  PROVE  LoggedFirst'
<1>1. ASSUME NEW c \in Calls, Step(c) \/ \E p \in Amounts : ChangePoint(c, p)
      PROVE  LoggedFirst'
  <2>0. /\ \A d \in Calls : outer[d].ver \in Nat /\ outer[d].try \in Nat
        /\ userVer \in Nat
    <3>1. userVer \in Nat /\ \A d \in Calls : outer[d] \in Outer
      BY DEF TypeOK
    <3> QED BY <3>1 DEF Outer
  <2>1. CASE OuterCommit(c)
    <3>1. pc'[c] = "done" /\ userVer' = userVer + 1 /\ outer' = outer
      BY <2>1 DEF OuterCommit, WriteUser, TypeOK
    <3>2. ASSUME NEW d \in Calls \ {c}, pc'[d] \in {"addCommit", "commit"}
          PROVE  outer'[d].ver # userVer'
      <4>1. pc[d] \in {"addCommit", "commit"}
        BY <3>2, <1>1, OneCallSteps
      <4>2. outer[d].ver <= userVer
        BY <4>1 DEF UserFresh
      <4> QED BY <4>2, <3>1, <2>0
    <3> QED BY <3>1, <3>2 DEF LoggedFirst
  <2>2. CASE ~OuterCommit(c)
    <3>1. log' = log /\ userVer' = userVer
      BY <1>1, <2>2, StepWrites
    <3>2. SUFFICES ASSUME NEW d \in Calls, outer'[d].ver = userVer, NEW p \in Places',
                          Logged(p)'
                   PROVE  /\ pc'[d] = "addCommit" => p[1] <= inner'[d].month
                          /\ pc'[d] = "commit" => \A q \in Places' :
                               RecordAt(q)' = RecordOf(d)' => Before(p, q)
      BY <3>1 DEF LoggedFirst
    <3>3. p \in Places /\ Logged(p)
      BY <1>1, <3>1, <3>2, LoggedSame DEF Logged
    <3>4. CASE d # c
      <4>1. /\ pc'[d] = pc[d] /\ outer'[d] = outer[d] /\ inner'[d] = inner[d]
            /\ RecordOf(d)' = RecordOf(d)
        BY <3>4, <1>1, OneCallSteps DEF RecordOf
      <4>2. /\ pc[d] = "addCommit" => p[1] <= inner[d].month
            /\ pc[d] = "commit" => \A q \in Places : RecordAt(q) = RecordOf(d) => Before(p, q)
        BY <3>2, <3>3, <4>1 DEF LoggedFirst
      <4>3. ASSUME NEW q \in Places', RecordAt(q)' = RecordOf(d)
            PROVE  q \in Places /\ RecordAt(q) = RecordOf(d)
        <5>1. CASE book' = book
          BY <5>1, <4>3 DEF Places, RecordAt
        <5>2. CASE AddRecordCommit(c)
          <6>1. /\ inner[c].month \in Months
                /\ book' = [book EXCEPT ![inner[c].month] =
                              Append(book[inner[c].month], RecordOf(c))]
            BY <5>2, WriteBookAppends DEF AddRecordCommit
          <6>2. PICK new : /\ Places' = Places \union {new}
                           /\ RecordAt(new)' = RecordOf(c)
                           /\ \A x \in Places : RecordAt(x)' = RecordAt(x)
            BY <6>1, RecordOfType, AppendAddsPlace
          <6>3. RecordOf(c) # RecordOf(d)
            BY <3>4 DEF RecordOf
          <6> QED BY <6>2, <6>3, <4>3
        <5> QED BY <1>1, <5>1, <5>2, StepWrites
      <4> QED BY <4>1, <4>2, <4>3
    <3>5. CASE d = c
      <4>1. CASE AddRecordGet(c)
        <5>1. pc'[c] = "addCommit" /\ inner'[c].month = month
          BY <4>1 DEF AddRecordGet, TypeOK
        <5> QED BY <5>1, <3>3, <3>5 DEF NoFutureMonth
      <4>2. CASE AddRecordCommit(c)
        <5>1. /\ inner[c].month \in Months /\ pc[c] = "addCommit" /\ pc'[c] = "commit"
              /\ outer' = outer /\ RecordOf(c)' = RecordOf(c)
              /\ book' = [book EXCEPT ![inner[c].month] =
                            Append(book[inner[c].month], RecordOf(c))]
          BY <4>2, WriteBookAppends DEF AddRecordCommit, RecordOf, TypeOK
        <5>2. PICK new : /\ new = <<inner[c].month, Len(book[inner[c].month]) + 1>>
                         /\ Places' = Places \union {new}
                         /\ \A x \in Places : RecordAt(x)' = RecordAt(x)
          BY <5>1, RecordOfType, AppendAddsPlace
        <5>3. p[1] <= inner[c].month
          BY <3>2, <3>3, <3>5, <5>1 DEF LoggedFirst
        <5>4. \A x \in Places : RecordAt(x) # RecordOf(c)
          BY <5>1, <2>0 DEF OncePerAttempt, RecordOf
        <5>5. /\ p[1] \in Nat /\ p[2] \in Nat /\ p[2] <= Len(book[p[1]])
              /\ inner[c].month \in Nat /\ Len(book[inner[c].month]) \in Nat
          <6>1. p[1] \in Months /\ p[2] \in 1..Len(book[p[1]])
            BY <3>3, PlaceType
          <6>2. \A m \in Months : m \in Nat /\ Len(book[m]) \in Nat
            BY DEF TypeOK, Months
          <6> QED BY <6>1, <6>2, <5>1
        <5>6. Before(p, new)
          BY <5>2, <5>3, <5>5 DEF Before
        <5> QED BY <5>1, <5>2, <5>4, <5>6, <3>5
      <4>3. CASE ~AddRecordGet(c) /\ ~AddRecordCommit(c)
        <5>1. pc'[c] \notin {"addCommit", "commit"}
          <6>1. CASE \E x \in Amounts : ChangePoint(c, x)
            BY <6>1 DEF ChangePoint, TypeOK
          <6>2. CASE OuterGet(c) \/ AddRecordReject(c)
            BY <6>2 DEF OuterGet, AddRecordReject, RetryInner, TypeOK
          <6>3. CASE OuterReject(c)
            BY <6>3 DEF OuterReject, RetryOuter, TypeOK
          <6> QED BY <1>1, <2>2, <4>3, <6>1, <6>2, <6>3
              DEF Step, AddRecordLost, OuterLost, GetFails
        <5> QED BY <5>1, <3>5
      <4> QED BY <4>1, <4>2, <4>3
    <3> QED BY <3>4, <3>5
  <2> QED BY <2>1, <2>2
<1>2. CASE NewMonth \/ UNCHANGED vars
  <2>1. UNCHANGED <<pc, outer, inner, userVer, book, log, amount>>
    BY <1>2 DEF NewMonth, vars
  <2>2. /\ Places' = Places /\ \A p \in Places : RecordAt(p)' = RecordAt(p)
        /\ \A c \in Calls : RecordOf(c)' = RecordOf(c)
    BY <2>1 DEF Places, RecordAt, RecordOf
  <2>3. \A p \in Places : Logged(p)' <=> Logged(p)
    BY <2>1, <2>2 DEF Logged
  <2> QED BY <2>1, <2>2, <2>3 DEF LoggedFirst
<1> QED BY <1>1, <1>2 DEF Next

\* An update is recorded once, behind the records of all earlier updates.
LEMMA CommitOrderNext ==
  ASSUME TypeOK, UserFresh, BookFresh, UpdatedOnce, OncePerAttempt, LoggedFirst,
         PassbookInCommitOrder, ~Unreliable, [Next]_vars
  PROVE  PassbookInCommitOrder'
<1>1. ASSUME NEW c \in Calls, Step(c) \/ \E p \in Amounts : ChangePoint(c, p)
      PROVE  PassbookInCommitOrder'
  <2>1. CASE OuterCommit(c)
    <3>1. /\ pc[c] = "commit" /\ outer[c].ver = userVer
          /\ log' = Append(log, RecordOf(c)) /\ book' = book
      BY <2>1 DEF OuterCommit, WriteUser, Accepted
    <3>2. /\ Len(log) \in Nat /\ Len(log') = Len(log) + 1
          /\ \A i \in 1..Len(log) : log'[i] = log[i]
          /\ log'[Len(log) + 1] = RecordOf(c)
      BY <3>1, RecordOfType DEF TypeOK
    <3>3. Places' = Places /\ \A p \in Places : RecordAt(p)' = RecordAt(p)
      BY <3>1 DEF Places, RecordAt
    <3>4. ASSUME NEW i \in 1..Len(log'), NEW j \in 1..Len(log'),
                 NEW p \in Places, NEW q \in Places,
                 RecordAt(p) = log'[i], RecordAt(q) = log'[j]
          PROVE  (i = j => p = q) /\ (i < j => Before(p, q))
      <4>1. i = j => p = q
        BY <3>4 DEF OncePerAttempt
      <4>2. CASE j \in 1..Len(log)
        <5>1. i < j => i \in 1..Len(log)
          BY <3>2, <4>2
        <5> QED BY <3>2, <3>4, <4>1, <4>2, <5>1 DEF PassbookInCommitOrder
      <4>3. CASE j = Len(log) + 1
        <5>1. i < j => i \in 1..Len(log)
          BY <3>2, <4>3
        <5>2. i < j => Logged(p)
          BY <5>1, <3>2, <3>4 DEF Logged
        <5>3. RecordAt(q) = RecordOf(c)
          BY <3>2, <3>4, <4>3
        <5> QED BY <3>1, <4>1, <5>2, <5>3 DEF LoggedFirst
      <4> QED BY <3>2, <4>2, <4>3
    <3> QED BY <3>3, <3>4 DEF PassbookInCommitOrder
  <2>2. CASE ~OuterCommit(c)
    <3>1. log' = log
      BY <1>1, <2>2, StepWrites
    <3> QED BY <1>1, <3>1, LoggedSame DEF PassbookInCommitOrder
  <2> QED BY <2>1, <2>2
<1>2. CASE NewMonth \/ UNCHANGED vars
  <2>1. UNCHANGED <<book, log>>
    BY <1>2 DEF NewMonth, vars
  <2>2. Places' = Places /\ \A p \in Places : RecordAt(p)' = RecordAt(p)
    BY <2>1 DEF Places, RecordAt
  <2> QED BY <2>1, <2>2 DEF PassbookInCommitOrder
<1> QED BY <1>1, <1>2 DEF Next

-----------------------------------------------------------------------------
\* What makes the properties of the passbook inductive, while no reply is lost.
ReliableInv ==
  /\ IsFiniteSet(Places) /\ UpdatedOnce /\ LostToOthers
  /\ OncePerAttempt /\ NoFutureMonth /\ LoggedFirst
  /\ FailureHasCause /\ PhantomPerRetry /\ PassbookInCommitOrder

\* At the start the passbook and the history are empty.
LEMMA ReliableInit == Init /\ ~Unreliable => ReliableInv
<1> SUFFICES ASSUME Init, ~Unreliable PROVE ReliableInv
    OBVIOUS
<1>1. Places = {} /\ log = <<>>
  BY PlacesAre DEF Init
<1>2. \A c \in Calls : RecordsOf(c) = 0 /\ RecordsOfOthers(c) = 0 /\ UpdatesOfOthers(c) = 0
  <2>1. \A c \in Calls : /\ {p \in Places : RecordAt(p).by = c} = {}
                         /\ {p \in Places : RecordAt(p).by # c} = {}
                         /\ {i \in 1..Len(log) : log[i].by # c} = {}
    BY <1>1
  <2> QED BY <2>1, FS_EmptySet DEF RecordsOf, RecordsOfOthers, UpdatesOfOthers
<1>3. IsFiniteSet(Places) /\ UpdatedOnce /\ PassbookInCommitOrder
  BY <1>1, FS_EmptySet DEF UpdatedOnce, PassbookInCommitOrder
<1>4. \A c \in Calls : pc[c] = "idle" /\ outer[c].try = 1
  BY DEF Init, NoOuter
<1>5. LostToOthers /\ FailureHasCause
  BY <1>4 DEF LostToOthers, FailureHasCause, Running
<1>6. PhantomPerRetry
  BY <1>2, <1>4 DEF PhantomPerRetry
<1>7. OncePerAttempt /\ NoFutureMonth /\ LoggedFirst
  BY <1>1, <1>4 DEF OncePerAttempt, NoFutureMonth, LoggedFirst
<1> QED BY <1>3, <1>5, <1>6, <1>7 DEF ReliableInv

\* Every step keeps it.
LEMMA ReliableNext ==
  ASSUME IInv, ReliableInv, ~Unreliable, [Next]_vars
  PROVE  ReliableInv'
BY UpdatedOnceNext, LostToOthersNext, FailureHasCauseNext, PhantomPerRetryNext,
   OncePerAttemptNext, NoFutureMonthNext, LoggedFirstNext, CommitOrderNext
DEF IInv, ReliableInv

\* It holds in every reachable state of a run without lost replies.
THEOREM ReliableInvariance == Spec => [](~Unreliable => ReliableInv)
<1>1. Init => (~Unreliable => ReliableInv)
  BY ReliableInit
<1>2. IInv /\ (~Unreliable => ReliableInv) /\ [Next]_vars => (~Unreliable => ReliableInv)'
  BY ReliableNext
<1> QED BY <1>1, <1>2, Invariance, PTL DEF Spec

\* A failed call met a missing document, or lost all its attempts to records
\* that other calls wrote: contention alone never makes every call fail.
THEOREM FailuresHaveCause == Spec => []FailureHasCause
<1>1. (~Unreliable => ReliableInv) => FailureHasCause
  BY DEF FailureHasCause, ReliableInv
<1> QED BY <1>1, ReliableInvariance, PTL

\* A call leaves one passbook record for each attempt whose addRecord committed.
THEOREM PhantomsCounted == Spec => []PhantomPerRetry
<1>1. (~Unreliable => ReliableInv) => PhantomPerRetry
  BY DEF PhantomPerRetry, ReliableInv
<1> QED BY <1>1, ReliableInvariance, PTL

\* The passbook lists the balance updates once each, in commit order, also
\* across the end of a month.
THEOREM CommitOrder == Spec => []PassbookInCommitOrder
<1>1. (~Unreliable => ReliableInv) => PassbookInCommitOrder
  BY DEF PassbookInCommitOrder, ReliableInv
<1> QED BY <1>1, ReliableInvariance, PTL

\* A call that returns has added its points, exactly once when no reply is
\* lost; one that throws has then added none.
THEOREM AnswersAreTrue == Spec => []AnswerIsTrue
<1>1. Init => AnswerIsTrue
  <2> SUFFICES ASSUME Init, NEW c \in Calls PROVE TimesApplied(c) = 0 /\ pc[c] = "idle"
      BY DEF AnswerIsTrue
  <2>1. {i \in 1..Len(log) : log[i].by = c} = {}
    BY DEF Init
  <2> QED BY <2>1, FS_EmptySet DEF TimesApplied, Init
<1>2. TypeOK /\ AnswerIsTrue /\ [Next]_vars => AnswerIsTrue'
  BY AnswerIsTrueNext
<1> QED BY <1>1, <1>2, TypeCorrect, PTL DEF Spec
=============================================================================
