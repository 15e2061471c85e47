----------------------------- MODULE PointLedger -----------------------------
(***************************************************************************)
(* PointProvider (src/lib/providers/point.dart): the balance of one child, *)
(* kept in users/{email}.point, and its passbook, kept in point/{email} as *)
(* one list of records per month.  changePoint runs a Firestore            *)
(* transaction over the users document; its handler awaits addRecord,      *)
(* which is a SECOND, independent transaction over the point document and  *)
(* is committed before the first one is.                                   *)
(*                                                                         *)
(* Calls run concurrently (several devices, two taps on one button).  A    *)
(* Firestore transaction is optimistic: a get records the version of the   *)
(* document, the commit is rejected when the version has moved, and the    *)
(* handler is then run again, at most MaxAttempts times in all.            *)
(***************************************************************************)
EXTENDS Integers, Sequences, FiniteSets, SequencesExt

CONSTANTS Calls,         \* calls of changePoint, over all devices
          Amounts,       \* points a call may add (negative: a reward redeemed)
          InitialPoints, \* values users/{email}.point may start with
          MaxMonth,      \* the clock runs through months 1..MaxMonth
          MaxAttempts,   \* runs a transaction is given
          Unreliable     \* TRUE: requests may fail and replies may be lost

ASSUME AmountsAssumption == Amounts \subseteq Int
ASSUME InitialPointsAssumption == InitialPoints \subseteq Int
ASSUME MaxMonthAssumption == MaxMonth \in Nat \ {0}
ASSUME MaxAttemptsAssumption == MaxAttempts \in Nat \ {0}
ASSUME UnreliableAssumption == Unreliable \in BOOLEAN

VARIABLES points,  \* the field users/{email}.point
          userVer, \* version of the document users/{email}
          book,    \* the document point/{email}: the list of each month
          bookVer, \* version of the document point/{email}
          month,   \* the month DateTime.now() falls in
          pc,      \* pc[c]: where call c is
          amount,  \* amount[c]: argument `point' of call c
          outer,   \* outer[c]: the transaction of changePoint, this attempt
          inner,   \* inner[c]: the transaction of addRecord, this attempt
          log,     \* history: the balance updates, in commit order
          start    \* history: the balance at the start

vars == <<points, userVer, book, bookVer, month, pc, amount, outer, inner, log, start>>

-----------------------------------------------------------------------------
Months == 1..MaxMonth

\* A passbook record.  Its type, note and date are those of the attempt that
\* wrote it, named by the call and the attempt's number.
Record == [by : Calls, try : 1..MaxAttempts, point : Int, total : Int]

\* A document is read at a version; version 0 is that of a missing document.
Exists(ver) == ver # 0

\* (docData?['point'] as int? ?? 0); a document without the field reads as 0.
Balance == IF Exists(userVer) THEN points ELSE 0

\* The record addRecord writes for the current attempt of c.
RecordOf(c) == [by |-> c, try |-> outer[c].try,
                point |-> amount[c], total |-> outer[c].total]

\* A transaction under way: the attempt's number, the version it read and what
\* it will write.
Outer == [try : 1..MaxAttempts, ver : Nat, total : Int]
Inner == [try : 1..MaxAttempts, ver : Nat, month : Months, data : Seq(Record)]
NoOuter == [try |-> 1, ver |-> 0, total |-> 0]
NoInner == [try |-> 1, ver |-> 0, month |-> 1, data |-> <<>>]

Init ==
  /\ points \in InitialPoints
  /\ userVer \in {0, 1}
  /\ book = [m \in Months |-> <<>>]
  /\ bookVer \in {0, 1}
  /\ month = 1
  /\ pc = [c \in Calls |-> "idle"]
  /\ amount = [c \in Calls |-> 0]
  /\ outer = [c \in Calls |-> NoOuter]
  /\ inner = [c \in Calls |-> NoInner]
  /\ log = <<>>
  /\ start = Balance

-----------------------------------------------------------------------------
(* changePoint *)

ChangePoint(c, p) ==
  /\ pc[c] = "idle"
  /\ pc' = [pc EXCEPT ![c] = "get"]
  /\ amount' = [amount EXCEPT ![c] = p]
  /\ UNCHANGED <<points, userVer, book, bookVer, month, outer, inner, log, start>>

\* Mutated: a rerun of the handler keeps the total of the first run.
OuterGetKeepsTotal(c) ==
  /\ pc[c] = "get"
  /\ pc' = [pc EXCEPT ![c] = "addGet"]
  /\ outer' = [outer EXCEPT ![c] = [try |-> @.try, ver |-> userVer,
                                    total |-> IF @.try = 1
                                              THEN Balance + amount[c]
                                              ELSE @.total]]
  /\ inner' = [inner EXCEPT ![c] = NoInner]
  /\ UNCHANGED <<points, userVer, book, bookVer, month, amount, log, start>>

\* transaction.get(users/{email}); the total is computed from what was read,
\* the update is buffered and addRecord is called.
OuterGet(c) ==
  /\ pc[c] = "get"
  /\ pc' = [pc EXCEPT ![c] = "addGet"]
  /\ outer' = [outer EXCEPT ![c] = [try |-> @.try, ver |-> userVer,
                                    total |-> Balance + amount[c]]]
  /\ inner' = [inner EXCEPT ![c] = NoInner]
  /\ UNCHANGED <<points, userVer, book, bookVer, month, amount, log, start>>

\* The month's list with the record added: data.add(model.toJson()).
\* Mutated: the record goes to the front; the list read is forgotten.
AddedInFront(list, r) == <<r>> \o list
AddedToNothing(list, r) == <<r>>
Added(list, r) == Append(list, r)

\* addRecord: transaction.get(point/{email}); the month is the clock's after
\* the get; the month's whole list, with the record appended, is buffered.
AddRecordGet(c) ==
  /\ pc[c] = "addGet"
  /\ pc' = [pc EXCEPT ![c] = "addCommit"]
  /\ inner' = [inner EXCEPT ![c] =
                 [try |-> @.try, ver |-> bookVer, month |-> month,
                  data |-> Added(book[month], RecordOf(c))]]
  /\ UNCHANGED <<points, userVer, book, bookVer, month, amount, outer, log, start>>

-----------------------------------------------------------------------------
(* The commits *)

\* Mutated: the version is not compared.
AcceptedAnyVersion(read, current) == Exists(read)

\* The server applies an update of a document that was read at a version
\* only when that is still its version; the client refuses to send an
\* update of a document it read as missing.
Accepted(read, current) == Exists(read) /\ read = current

\* The write of addRecord: the month's list is replaced by the buffered one.
WriteBook(c) ==
  /\ book' = [book EXCEPT ![inner[c].month] = inner[c].data]
  /\ bookVer' = bookVer + 1

\* The write of changePoint.
WriteUser(c) ==
  /\ points' = outer[c].total
  /\ userVer' = userVer + 1
  /\ log' = Append(log, RecordOf(c))

\* Mutated: one attempt too many; attempts are not counted.
RetryInnerOnceMore(c) ==
  IF Exists(inner[c].ver) /\ inner[c].try <= MaxAttempts
  THEN /\ pc' = [pc EXCEPT ![c] = "addGet"]
       /\ inner' = [inner EXCEPT ![c].try = @ + 1]
  ELSE /\ pc' = [pc EXCEPT ![c] = "failed"]
       /\ UNCHANGED inner

RetryInnerForever(c) ==
  IF Exists(inner[c].ver)
  THEN /\ pc' = [pc EXCEPT ![c] = "addGet"]
       /\ UNCHANGED inner
  ELSE /\ pc' = [pc EXCEPT ![c] = "failed"]
       /\ UNCHANGED inner

\* A rejected transaction runs its handler again while attempts remain; an
\* update of a missing document is never retried.
RetryInner(c) ==
  IF Exists(inner[c].ver) /\ inner[c].try < MaxAttempts
  THEN /\ pc' = [pc EXCEPT ![c] = "addGet"]
       /\ inner' = [inner EXCEPT ![c].try = @ + 1]
  ELSE /\ pc' = [pc EXCEPT ![c] = "failed"]
       /\ UNCHANGED inner

\* Mutated: one attempt too few; the exception is not rethrown.
RetryOuterOnceLess(c) ==
  IF Exists(outer[c].ver) /\ outer[c].try + 1 < MaxAttempts
  THEN /\ pc' = [pc EXCEPT ![c] = "get"]
       /\ outer' = [outer EXCEPT ![c].try = @ + 1]
  ELSE /\ pc' = [pc EXCEPT ![c] = "failed"]
       /\ UNCHANGED outer

RetryOuterSwallows(c) ==
  IF Exists(outer[c].ver) /\ outer[c].try < MaxAttempts
  THEN /\ pc' = [pc EXCEPT ![c] = "get"]
       /\ outer' = [outer EXCEPT ![c].try = @ + 1]
  ELSE /\ pc' = [pc EXCEPT ![c] = "done"]
       /\ UNCHANGED outer

\* The handler of changePoint, run again, calls addRecord again.
RetryOuter(c) ==
  IF Exists(outer[c].ver) /\ outer[c].try < MaxAttempts
  THEN /\ pc' = [pc EXCEPT ![c] = "get"]
       /\ outer' = [outer EXCEPT ![c].try = @ + 1]
  ELSE /\ pc' = [pc EXCEPT ![c] = "failed"]
       /\ UNCHANGED outer

AddRecordCommit(c) ==
  /\ pc[c] = "addCommit"
  /\ Accepted(inner[c].ver, bookVer)
  /\ WriteBook(c)
  /\ pc' = [pc EXCEPT ![c] = "commit"]
  /\ UNCHANGED <<points, userVer, month, amount, outer, inner, log, start>>

\* Rejected: by the version check, or because the request never arrived.  When
\* the attempts are used up addRecord throws, and changePoint with it.
AddRecordReject(c) ==
  /\ pc[c] = "addCommit"
  /\ Unreliable \/ ~Accepted(inner[c].ver, bookVer)
  /\ RetryInner(c)
  /\ UNCHANGED <<points, userVer, book, bookVer, month, amount, outer, log, start>>

\* Applied, but the reply is lost: the client sees a retryable error.
AddRecordLost(c) ==
  /\ Unreliable
  /\ pc[c] = "addCommit"
  /\ Accepted(inner[c].ver, bookVer)
  /\ WriteBook(c)
  /\ RetryInner(c)
  /\ UNCHANGED <<points, userVer, month, amount, outer, log, start>>

OuterCommit(c) ==
  /\ pc[c] = "commit"
  /\ Accepted(outer[c].ver, userVer)
  /\ WriteUser(c)
  /\ pc' = [pc EXCEPT ![c] = "done"]
  /\ UNCHANGED <<book, bookVer, month, amount, outer, inner, start>>

OuterReject(c) ==
  /\ pc[c] = "commit"
  /\ Unreliable \/ ~Accepted(outer[c].ver, userVer)
  /\ RetryOuter(c)
  /\ UNCHANGED <<points, userVer, book, bookVer, month, amount, inner, log, start>>

OuterLost(c) ==
  /\ Unreliable
  /\ pc[c] = "commit"
  /\ Accepted(outer[c].ver, userVer)
  /\ WriteUser(c)
  /\ RetryOuter(c)
  /\ UNCHANGED <<book, bookVer, month, amount, inner, start>>

\* A get that cannot be served throws inside the handler: nothing is retried.
GetFails(c) ==
  /\ Unreliable
  /\ pc[c] \in {"get", "addGet"}
  /\ pc' = [pc EXCEPT ![c] = "failed"]
  /\ UNCHANGED <<points, userVer, book, bookVer, month, amount, outer, inner, log, start>>

\* Midnight of the last day of a month passes.
NewMonth ==
  /\ month < MaxMonth
  /\ month' = month + 1
  /\ UNCHANGED <<points, userVer, book, bookVer, pc, amount, outer, inner, log, start>>

-----------------------------------------------------------------------------
\* The steps a call takes by itself once it was made.
Step(c) ==
  \/ OuterGet(c)     \/ AddRecordGet(c)
  \/ AddRecordCommit(c) \/ AddRecordReject(c) \/ AddRecordLost(c)
  \/ OuterCommit(c)  \/ OuterReject(c) \/ OuterLost(c)
  \/ GetFails(c)

Next ==
  \/ \E c \in Calls : Step(c)
  \/ \E c \in Calls, p \in Amounts : ChangePoint(c, p)
  \/ NewMonth

Spec == Init /\ [][Next]_vars

\* Every request is answered, if only by a timeout, and the handler's
\* continuation is then run by the event loop.
FairSpec == Spec /\ \A c \in Calls : WF_vars(Step(c))

-----------------------------------------------------------------------------
(* Properties *)

PC == {"idle", "get", "addGet", "addCommit", "commit", "done", "failed"}
Running == {"get", "addGet", "addCommit", "commit"}

\* Type correctness of the two documents, the calls and the history.
TypeOK ==
  /\ points \in Int /\ userVer \in Nat
  /\ book \in [Months -> Seq(Record)] /\ bookVer \in Nat
  /\ month \in Months
  /\ pc \in [Calls -> PC]
  /\ amount \in [Calls -> Int]
  /\ outer \in [Calls -> Outer] /\ inner \in [Calls -> Inner]
  /\ log \in Seq(Record)
  /\ start \in Int

\* No balance update is lost (changePoint, point.dart:14-30): each committed
\* total is the previously committed one plus the call's own points, and the
\* balance stored in users/{email}.point is the last of them.
BalanceChain ==
  /\ \A i \in 1..Len(log) :
       log[i].total = (IF i = 1 THEN start ELSE log[i-1].total) + log[i].point
  /\ Balance = IF log = <<>> THEN start ELSE log[Len(log)].total

InBook(r) ==
  \E m \in Months : \E j \in 1..Len(book[m]) : book[m][j] = r

\* A balance update is never without its passbook record (addRecord is awaited
\* before the update commits, point.dart:23-29), and no later rewrite of a
\* month's list drops that record.
CommitsRecorded == \A i \in 1..Len(log) : InBook(log[i])

(* What makes the above inductive: a total, or a list, computed from a
   document that has not changed since is right; a call about to commit its
   balance update has its record in the passbook. *)
UserFresh ==
  \A c \in Calls : pc[c] \in {"addGet", "addCommit", "commit"} =>
    /\ Exists(outer[c].ver) <=> Exists(userVer)
    /\ outer[c].ver <= userVer
    /\ outer[c].ver = userVer => outer[c].total = Balance + amount[c]

BookFresh ==
  \A c \in Calls : pc[c] = "addCommit" =>
    /\ inner[c].ver <= bookVer
    /\ inner[c].ver = bookVer =>
         inner[c].data = Append(book[inner[c].month], RecordOf(c))

RecordedFirst == \A c \in Calls : pc[c] = "commit" => InBook(RecordOf(c))

IInv ==
  /\ TypeOK /\ UserFresh /\ BookFresh /\ RecordedFirst
  /\ BalanceChain /\ CommitsRecorded

\* The passbook as the detail pages list it, the months one after the other:
\* the places of its records, what stands there, and their order.
Places == UNION {{m} \X (1..Len(book[m])) : m \in Months}
RecordAt(p) == book[p[1]][p[2]]
Before(p, q) == p[1] < q[1] \/ (p[1] = q[1] /\ p[2] < q[2])

\* Leaving aside the records of attempts that did not commit, the passbook is
\* the commit history, as long as no reply is lost: the same records
\* (CommitsRecorded), each once, in commit order, also across the end of a
\* month (point.dart:23-29, 54-68).
PassbookInCommitOrder ==
  ~Unreliable =>
    \A i, j \in 1..Len(log) : \A p, q \in Places :
      RecordAt(p) = log[i] /\ RecordAt(q) = log[j] =>
        /\ i = j => p = q
        /\ i < j => Before(p, q)

\* How often the points of c were added to the balance.
TimesApplied(c) == Cardinality({i \in 1..Len(log) : log[i].by = c})

\* The answer of changePoint is the truth: a call that returns added its points
\* exactly once and a call that throws never did, as long as no reply is
\* lost; when replies are lost, a call that returns added them at least once.
AnswerIsTrue ==
  \A c \in Calls :
    IF Unreliable THEN pc[c] = "done" => TimesApplied(c) >= 1
    ELSE TimesApplied(c) = (IF pc[c] = "done" THEN 1 ELSE 0)

\* How many records the passbook has of call c, and of the other calls.
RecordsOf(c) == Cardinality({p \in Places : RecordAt(p).by = c})
RecordsOfOthers(c) == Cardinality({p \in Places : RecordAt(p).by # c})

\* The two ways to fail when no request is: a document is missing, or the call
\* lost every one of its attempts to another call, each of which wrote its own
\* record meanwhile.  So some call always makes progress.
FailureHasCause ==
  \A c \in Calls :
    (pc[c] = "failed" /\ ~Unreliable) =>
      \/ ~Exists(userVer)
      \/ ~Exists(bookVer)
      \/ RecordsOfOthers(c) >= MaxAttempts

\* addRecord only ever adds at the end of a month's list: no step removes,
\* reorders or alters what the passbook already shows (point.dart:54-68).
PassbookAppendOnly ==
  [][\A m \in Months : IsPrefix(book[m], book'[m])]_vars

\* Every call of changePoint comes to an end, with a result or an exception,
\* however often it is retried.
CallsEnd == \A c \in Calls : (pc[c] = "get") ~> (pc[c] \in {"done", "failed"})

\* What the passbook shows for a call, as long as no reply is lost: one record
\* for each attempt of changePoint whose addRecord committed, so that a call
\* retried n times leaves n records of changes that never were, whether it
\* then succeeds or not, and no call leaves more (point.dart:23-29, 68).
PhantomPerRetry ==
  \A c \in Calls : ~Unreliable =>
    CASE pc[c] = "idle" -> RecordsOf(c) = 0
      [] pc[c] \in {"get", "addGet", "addCommit"} -> RecordsOf(c) = outer[c].try - 1
      [] pc[c] \in {"commit", "done"} -> RecordsOf(c) = outer[c].try
      [] pc[c] = "failed" -> RecordsOf(c) \in {outer[c].try - 1, outer[c].try}

\* changePoint is an atomic change of the balance: PointLedger implements
\* Account.
StatusOf(c) == CASE pc[c] = "idle" -> "idle"
                 [] pc[c] \in Running -> "pending"
                 [] pc[c] = "done" -> "ok"
                 [] OTHER -> "failed"

Acc == INSTANCE Account
         WITH balance <- Balance,
              InitialPoints <- InitialPoints \union {0},
              status <- [c \in Calls |-> StatusOf(c)],
              applied <- [c \in Calls |-> TimesApplied(c)]

ImplementsAccount == Acc!Spec

=============================================================================
