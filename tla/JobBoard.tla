------------------------------ MODULE JobBoard -------------------------------
(***************************************************************************)
(* JobProvider (src/lib/providers/job.dart): the chores of one child, kept *)
(* in job/{email} as one list per month of the chores' dates.  createJob,  *)
(* finishJob and deleteJob are Firestore transactions that read the        *)
(* document, find the month's list, and write the WHOLE list back, so that *)
(* two calls on different chores of a month interfere.  A chore is found   *)
(* again by its description (type, note, date, points): descriptions are   *)
(* the Keys, and a month may hold the same one several times.              *)
(***************************************************************************)
EXTENDS Integers, Sequences, FiniteSets, SequencesExt

CONSTANTS Calls,       \* calls of JobProvider, over all devices
          Keys,        \* descriptions of chores
          MaxMonth,    \* the chores' dates lie in months 1..MaxMonth
          MonthOf,     \* MonthOf[k]: getYearMonth of the date of k
          InitialJobs, \* contents job/{email} may start with
          MaxAttempts, \* runs a transaction is given
          Unreliable   \* TRUE: requests may fail and replies may be lost

Months == 1..MaxMonth
Job == [key : Keys, finish : BOOLEAN]
Open(k) == [key |-> k, finish |-> FALSE]
Finished(k) == [key |-> k, finish |-> TRUE]
Operations == {"create", "finish", "delete"}

ASSUME MonthsAssumption == MaxMonth \in Nat /\ MonthOf \in [Keys -> Months]
ASSUME InitialJobsAssumption == InitialJobs \subseteq [Months -> Seq(Job)]
\* Only createJob puts a chore into the document, under the month of its date.
ASSUME InitialMonthsAssumption ==
  \A doc \in InitialJobs : \A m \in Months : \A i \in DOMAIN doc[m] :
    MonthOf[doc[m][i].key] = m
ASSUME AttemptsAssumption == MaxAttempts \in Nat \ {0}
ASSUME ReliabilityAssumption == Unreliable \in BOOLEAN

VARIABLES jobs,    \* the document job/{email}: the list of each month
          jobVer,  \* its version; 0: there is no such document
          request, \* request[c]: operation and arguments of call c
          pc,      \* pc[c]: where call c is
          tx,      \* tx[c]: the transaction of call c, this attempt
          hits     \* history: hits[c] counts the changes c made to the board

vars == <<jobs, jobVer, request, pc, tx, hits>>

NoRequest == [op |-> "none", key |-> "none"]
NoTx == [try |-> 1, ver |-> 0, write |-> FALSE, data |-> <<>>]

Init ==
  /\ jobs \in InitialJobs
  /\ jobVer \in {0, 1}
  /\ jobVer = 0 => \A m \in Months : jobs[m] = <<>>
  /\ request = [c \in Calls |-> NoRequest]
  /\ pc = [c \in Calls |-> "idle"]
  /\ tx = [c \in Calls |-> NoTx]
  /\ hits = [c \in Calls |-> 0]

-----------------------------------------------------------------------------
(* The handlers: what each one makes of the month's list. *)

IsOpen(job, k) == job.key = k /\ ~job.finish

\* The first unfinished chore with description k, 0 if there is none.
\* Mutated: `finish == false' is not asked for.
FirstByDescription(list, k) == SelectInSeq(list, LAMBDA j : j.key = k)
FirstOpen(list, k) == SelectInSeq(list, LAMBDA j : IsOpen(j, k))

\* Does the handler call transaction.update?
Writes(o, k, list) == o = "create" \/ FirstOpen(list, k) # 0

createJob(k, list) == Append(list, Open(k))

finishJob(k, list) == [list EXCEPT ![FirstOpen(list, k)].finish = TRUE]

deleteJob(k, list) == RemoveAt(list, FirstOpen(list, k))

NewList(o, k, list) ==
  IF ~Writes(o, k, list) THEN list
  ELSE CASE o = "create" -> createJob(k, list)
         [] o = "finish" -> finishJob(k, list)
         [] o = "delete" -> deleteJob(k, list)

-----------------------------------------------------------------------------
(* The transactions *)

Call(c, o, k) ==
  /\ pc[c] = "idle"
  /\ request' = [request EXCEPT ![c] = [op |-> o, key |-> k]]
  /\ pc' = [pc EXCEPT ![c] = "get"]
  /\ UNCHANGED <<jobs, jobVer, tx, hits>>

\* transaction.get(job/{email}), and the handler's computation; a month
\* without a list reads as the empty list.
Get(c) ==
  LET o == request[c].op
      k == request[c].key
      list == jobs[MonthOf[k]]
  IN /\ pc[c] = "get"
     /\ tx' = [tx EXCEPT ![c] = [try |-> @.try, ver |-> jobVer,
                                 write |-> Writes(o, k, list),
                                 data |-> NewList(o, k, list)]]
     /\ pc' = [pc EXCEPT ![c] = "commit"]
     /\ UNCHANGED <<jobs, jobVer, request, hits>>

\* An update is accepted at the version read, and never of a document read as
\* missing; a handler that wrote nothing only has its read verified.
\* Mutated: the version is not compared.
AcceptedAnyVersion(c) == tx[c].write => tx[c].ver # 0
Accepted(c) == tx[c].ver = jobVer /\ (tx[c].write => tx[c].ver # 0)

\* Mutated: the list goes to a fixed month instead of that of the date.
WriteFirstMonth(c) ==
  IF tx[c].write
  THEN /\ jobs' = [jobs EXCEPT ![1] = tx[c].data]
       /\ jobVer' = jobVer + 1
       /\ hits' = [hits EXCEPT ![c] = @ + 1]
  ELSE UNCHANGED <<jobs, jobVer, hits>>

\* The write of the month's list, if the handler called transaction.update.
Write(c) ==
  IF tx[c].write
  THEN /\ jobs' = [jobs EXCEPT ![MonthOf[request[c].key]] = tx[c].data]
       /\ jobVer' = jobVer + 1
       /\ hits' = [hits EXCEPT ![c] = @ + 1]
  ELSE UNCHANGED <<jobs, jobVer, hits>>

\* Rejected commits are retried while attempts remain, unless the document is
\* missing.
Retry(c) ==
  IF tx[c].try < MaxAttempts /\ ~(tx[c].write /\ tx[c].ver = 0)
  THEN /\ pc' = [pc EXCEPT ![c] = "get"]
       /\ tx' = [tx EXCEPT ![c].try = @ + 1]
  ELSE /\ pc' = [pc EXCEPT ![c] = "failed"]
       /\ UNCHANGED tx

Commit(c) ==
  /\ pc[c] = "commit"
  /\ Accepted(c)
  /\ Write(c)
  /\ pc' = [pc EXCEPT ![c] = "done"]
  /\ UNCHANGED <<request, tx>>

Reject(c) ==
  /\ pc[c] = "commit"
  /\ Unreliable \/ ~Accepted(c)
  /\ Retry(c)
  /\ UNCHANGED <<jobs, jobVer, request, hits>>

\* The commit is applied and the reply lost.
Lost(c) ==
  /\ Unreliable
  /\ pc[c] = "commit"
  /\ Accepted(c) /\ tx[c].write
  /\ Write(c)
  /\ Retry(c)
  /\ UNCHANGED request

\* A get that cannot be served throws inside the handler: nothing is retried.
GetFails(c) ==
  /\ Unreliable
  /\ pc[c] = "get"
  /\ pc' = [pc EXCEPT ![c] = "failed"]
  /\ UNCHANGED <<jobs, jobVer, request, tx, hits>>

Step(c) == Get(c) \/ Commit(c) \/ Reject(c) \/ Lost(c) \/ GetFails(c)

Next ==
  \E c \in Calls :
    \/ Step(c)
    \/ \E o \in Operations, k \in Keys : Call(c, o, k)

Spec == Init /\ [][Next]_vars

-----------------------------------------------------------------------------
(* Properties *)

\* Type correctness of the document and of the calls.
TypeOK ==
  /\ jobs \in [Months -> Seq(Job)]
  /\ jobVer \in Nat
  /\ request \in [Calls -> [op : Operations, key : Keys] \union {NoRequest}]
  /\ pc \in [Calls -> {"idle", "get", "commit", "done", "failed"}]
  /\ tx \in [Calls -> [try : 1..MaxAttempts, ver : Nat, write : BOOLEAN,
                       data : Seq(Job)]]
  /\ hits \in [Calls -> 0..MaxAttempts]

\* How many chores k are open, and how many are finished.
CountIn(list, job) == Cardinality({i \in DOMAIN list : list[i] = job})
OpenCount(k) == CountIn(jobs[MonthOf[k]], Open(k))
FinishedCount(k) == CountIn(jobs[MonthOf[k]], Finished(k))

\* A chore is listed in the month of its own date, where finishJob and
\* deleteJob look for it.
RightMonth ==
  \A m \in Months : \A i \in DOMAIN jobs[m] : MonthOf[jobs[m][i].key] = m

\* A chore once confirmed stays confirmed: no call removes it or reopens it,
\* neither its own deleteJob nor a rewrite of the month's list by a call on
\* another chore (job.dart:71-81, 117-131).
FinishedForGood ==
  [][\A k \in Keys : FinishedCount(k)' >= FinishedCount(k)]_vars

\* JobBoard implements Board: each call is one atomic change of the counts of
\* open and finished chores, and a call that returns without a change found
\* nothing to change at that moment.
StatusOf(c) == CASE pc[c] = "idle" -> "idle"
                 [] pc[c] \in {"get", "commit"} -> "pending"
                 [] pc[c] = "done" -> "ok"
                 [] OTHER -> "failed"

Abs == INSTANCE Board
         WITH open <- [k \in Keys |-> OpenCount(k)],
              finished <- [k \in Keys |-> FinishedCount(k)],
              InitialCounts <- Nat,
              status <- [c \in Calls |-> StatusOf(c)]

ImplementsBoard == Abs!Spec

=============================================================================
