--------------------------- MODULE WorkDetailProofs --------------------------
(* The safety properties of WorkDetail, for every number of devices, taps,
   chores, points and attempts, whether calls fail, replies are lost and the
   app is killed or not. *)
EXTENDS WorkDetail, FiniteSetTheorems, TLAPS

Statuses == {"idle", "pending", "ok", "failed"}

\* The types of the board and of the account, as far as the page uses them.
BoardTypes ==
  /\ open \in [Keys -> Nat]
  /\ finished \in [Keys -> Nat]
  /\ request \in [Taps -> [op : {"finish", "delete"}, key : Keys]
                          \union {Jobs!NoRequest}]
  /\ jobStatus \in [Taps -> Statuses]
  /\ hits \in [Taps -> 0..MaxAttempts]

AccountTypes ==
  /\ payStatus \in [Taps -> Statuses]
  /\ applied \in [Taps -> 0..MaxAttempts]

\* How far the handler of a tap is, its two calls and their effects agree.
Idle ==
  \A t \in Taps :
    /\ stage[t] = "none" <=> jobStatus[t] = "idle"
    /\ jobStatus[t] = "idle" => hits[t] = 0 /\ t \notin unbacked
    /\ jobStatus[t] # "idle" => request[t] # Jobs!NoRequest

PaysAfterwards ==
  \A t \in Taps :
    /\ payStatus[t] # "idle" => jobStatus[t] = "ok" /\ request[t].op = "finish"
    /\ payStatus[t] = "idle" => applied[t] = 0
    /\ payStatus[t] = "ok" => applied[t] > 0
    /\ stage[t] = "job" => payStatus[t] = "idle"
    /\ stage[t] = "pay" => payStatus[t] # "idle"
    /\ stage[t] = "end" /\ request[t].op = "finish" => payStatus[t] = "ok"

\* The taps a chore was open for when they were made, of which the call found
\* none, or has not come to the board yet; and what may have taken their
\* chores: taps no chore was left for, and calls that ran again.
Missed(k) == {t \in Taps \ unbacked :
                request[t].key = k /\ hits[t] = 0 /\ jobStatus[t] = "ok"}
Waiting(k) == {t \in Taps \ unbacked :
                request[t].key = k /\ hits[t] = 0 /\ jobStatus[t] = "pending"}
Late(k) == {t \in unbacked : request[t].key = k /\ hits[t] > 0}
Again(k) == Repeats({t \in Taps : request[t].key = k}, hits)

\* Every tap that was backed still has a chore to take, or lost it to a tap
\* that was not or to a call that ran again.
Backed ==
  \A k \in Keys :
    /\ Cardinality(Missed(k)) + Cardinality(Waiting(k)) <=
         open[k] + Cardinality(Again(k)) + Cardinality(Late(k))
    /\ Cardinality(Missed(k)) <= Cardinality(Again(k)) + Cardinality(Late(k))

\* Every finished chore was finished by a confirmation.
Counted ==
  \A k \in Keys : finished[k] = Cardinality(Times(Confirmations(k), hits))

Types == TypeOK /\ BoardTypes /\ AccountTypes

-----------------------------------------------------------------------------
(* The steps, as the board, the account and the page see them. *)

\* Call t of the board takes an open chore, to finish it or to delete it.
Took(t) ==
  /\ jobStatus[t] = "pending" /\ hits[t] < MaxAttempts
  /\ open[request[t].key] > 0
  /\ open' = [open EXCEPT ![request[t].key] = @ - 1]
  /\ \/ /\ request[t].op = "finish"
        /\ finished' = [finished EXCEPT ![request[t].key] = @ + 1]
     \/ /\ request[t].op = "delete"
        /\ finished' = finished
  /\ hits' = [hits EXCEPT ![t] = @ + 1]
  /\ request' = request
  /\ jobStatus' \in {jobStatus, [jobStatus EXCEPT ![t] = "ok"],
                     [jobStatus EXCEPT ![t] = "failed"]}

\* A step of the page's own: neither the board nor the account changes.
PageStep ==
  \/ \E d \in Devices :
       \/ Snapshot(d) \/ TapNo(d) \/ Crash(d)
       \/ \E kind \in {"confirm", "delete"}, k \in Keys : ShowDialog(d, kind, k)
  \/ \E t \in Taps : AfterDelete(t) \/ AfterPay(t) \/ HandlerThrows(t)

\* A request that was made has a known operation and a known chore.
LEMMA RequestType ==
  ASSUME Types, Idle, NEW t \in Taps, jobStatus[t] # "idle"
  PROVE  /\ request[t].op \in {"finish", "delete"} /\ request[t].key \in Keys
         /\ request[t] \in [op : {"finish", "delete"}, key : Keys]
<1>1. request[t] \in [op : {"finish", "delete"}, key : Keys]
  BY DEF Types, BoardTypes, Idle
<1> QED BY <1>1

\* The dialog on top of the page holds a chore.
LEMMA DialogType ==
  ASSUME Types, NEW d \in Devices, routes[d] = 2
  PROVE  dialog[d] \in [kind : {"confirm", "delete"}, key : Keys]
BY DEF Types, TypeOK

\* Every step is one of the page, of a tap on "Yes", of a handler that pays, of
\* the board, or of the account.
LEMMA StepKinds ==
  ASSUME Types, Idle, Next
  PROVE  \/ PageStep /\ UNCHANGED <<board, account>>
         \/ \E d \in Devices : \E t \in On(d) : TapYes(d, t)
         \/ \E t \in Taps : AfterFinish(t)
         \/ \E t \in Taps :
              /\ Took(t) \/ Jobs!Miss(t) \/ Jobs!Fail(t)
              /\ UNCHANGED <<account, page>>
         \/ \E t \in Taps : PayStep(t)
<1>1. ASSUME NEW d \in Devices,
             \/ Snapshot(d) \/ TapNo(d) \/ Crash(d)
             \/ \E kind \in {"confirm", "delete"}, k \in Keys : ShowDialog(d, kind, k)
      PROVE  PageStep /\ UNCHANGED <<board, account>>
  <2>1. PageStep
    BY <1>1 DEF PageStep
  <2> QED BY <1>1, <2>1 DEF Snapshot, TapNo, Crash, ShowDialog
<1>2. ASSUME NEW t \in Taps, AfterDelete(t) \/ AfterPay(t) \/ HandlerThrows(t)
      PROVE  PageStep /\ UNCHANGED <<board, account>>
  <2>1. PageStep
    BY <1>2 DEF PageStep
  <2> QED BY <1>2, <2>1
      DEF AfterDelete, AfterPay, HandlerThrows, CallThrows, PopThrows, Throw
<1>3. ASSUME NEW t \in Taps, JobStep(t)
      PROVE  /\ Took(t) \/ Jobs!Miss(t) \/ Jobs!Fail(t)
             /\ UNCHANGED <<account, page>>
  <2>1. UNCHANGED <<account, page>>
    BY <1>3 DEF JobStep
  <2>2. ASSUME Jobs!Change(t),
               jobStatus' \in {jobStatus, [jobStatus EXCEPT ![t] = "ok"],
                               [jobStatus EXCEPT ![t] = "failed"]}
        PROVE  Took(t)
    <3>1. request[t].op \in {"finish", "delete"}
      BY <2>2, RequestType DEF Jobs!Change
    <3> QED BY <2>2, <3>1 DEF Jobs!Change, Took
  <2>3. CASE Jobs!Succeed(t)
    BY <2>1, <2>2, <2>3 DEF Jobs!Succeed
  <2>4. CASE Jobs!ChangeUnseen(t)
    BY <2>1, <2>2, <2>4 DEF Jobs!ChangeUnseen
  <2>5. CASE Jobs!Miss(t) \/ Jobs!Fail(t)
    BY <2>1, <2>5
  <2> QED BY <1>3, <2>3, <2>4, <2>5 DEF JobStep
<1> QED BY <1>1, <1>2, <1>3 DEF Next, HandlerStep

\* Init makes every state component well typed and the history empty.
LEMMA InitTypes == Init => Types /\ Idle /\ PaysAfterwards
<1> SUFFICES ASSUME Init PROVE Types /\ Idle /\ PaysAfterwards
    OBVIOUS
<1> USE TapsAssumption, CountsAssumption
<1>1. TypeOK
  <2>1. open \in [Keys -> Nat]
    BY DEF Init
  <2> QED BY <2>1 DEF Init, TypeOK
<1>2. BoardTypes
  <2>1. open \in [Keys -> Nat] /\ finished \in [Keys -> Nat]
    BY DEF Init
  <2>2. request \in [Taps -> [op : {"finish", "delete"}, key : Keys]
                             \union {Jobs!NoRequest}]
    BY DEF Init, Jobs!Init
  <2>3. jobStatus \in [Taps -> Statuses] /\ hits \in [Taps -> 0..MaxAttempts]
    BY DEF Init, Jobs!Init, Statuses
  <2> QED BY <2>1, <2>2, <2>3 DEF BoardTypes
<1>3. AccountTypes
  BY DEF Init, AccountTypes, Purse!Init, Statuses
<1>4. Idle
  BY DEF Init, Idle, Jobs!Init
<1>5. PaysAfterwards
  BY DEF Init, PaysAfterwards, Purse!Init
<1> QED BY <1>1, <1>2, <1>3, <1>4, <1>5 DEF Types

\* Popping the navigator keeps the types of the page.
LEMMA PopTypes ==
  ASSUME TypeOK, NEW d \in Devices, NEW ending, Pop(d, ending)
  PROVE  /\ dialog' \in [Devices -> [kind : {"confirm", "delete"}, key : Keys]
                                    \union {NoDialog}]
         /\ routes' \in [Devices -> 0..2]
         /\ \A e \in Devices : routes'[e] = 2 <=> dialog'[e] # NoDialog
         /\ orphans' \subseteq Taps
BY DEF TypeOK, Pop, On

\* Every step keeps the types of the page.
LEMMA PageTypesNext == ASSUME Types, Idle, [Next]_vars PROVE TypeOK'
<1> USE TapsAssumption
<1>1. ASSUME NEW d \in Devices, Snapshot(d) PROVE TypeOK'
  BY <1>1 DEF Types, TypeOK, BoardTypes, Snapshot
<1>2. ASSUME NEW d \in Devices, TapNo(d) PROVE TypeOK'
  <2>1. Pop(d, {}) /\ TypeOK /\ UNCHANGED <<shown, stage, spinner, unbacked>>
    BY <1>2 DEF TapNo, Types
  <2> QED BY <2>1, PopTypes DEF TypeOK
<1>3. ASSUME NEW d \in Devices, Crash(d) PROVE TypeOK'
  <2>1. /\ stage' \in [Taps -> {"none", "job", "pay", "end", "threw", "killed"}]
        /\ shown' \in [Devices -> [Keys -> Nat]]
        /\ spinner' \in [Devices -> BOOLEAN]
        /\ orphans' \subseteq Taps /\ unbacked' \subseteq Taps
    BY <1>3 DEF Types, TypeOK, BoardTypes, Crash
  <2>2. /\ dialog' \in [Devices -> [kind : {"confirm", "delete"}, key : Keys]
                                   \union {NoDialog}]
        /\ routes' \in [Devices -> 0..2]
        /\ \A e \in Devices : routes'[e] = 2 <=> dialog'[e] # NoDialog
    BY <1>3 DEF Types, TypeOK, Crash
  <2> QED BY <2>1, <2>2 DEF TypeOK
<1>4. ASSUME NEW d \in Devices, NEW kind \in {"confirm", "delete"}, NEW k \in Keys,
             ShowDialog(d, kind, k)
      PROVE  TypeOK'
  BY <1>4 DEF Types, TypeOK, ShowDialog, NoDialog
<1>5. ASSUME NEW d \in Devices, NEW t \in On(d), TapYes(d, t) PROVE TypeOK'
  BY <1>5 DEF Types, TypeOK, TapYes, On
<1>6. ASSUME NEW t \in Taps, EndHandler(t) PROVE TypeOK'
  <2>1. t[1] \in Devices
    OBVIOUS
  <2>2. Pop(t[1], {t}) /\ TypeOK
    BY <1>6 DEF EndHandler, Types
  <2> QED BY <1>6, <2>1, <2>2, PopTypes DEF TypeOK, EndHandler
<1>7. ASSUME NEW t \in Taps, HandlerThrows(t) PROVE TypeOK'
  <2>1. Throw(t) /\ spinner' \in {spinner, [spinner EXCEPT ![t[1]] = FALSE]}
    BY <1>7 DEF HandlerThrows, CallThrows, PopThrows
  <2> QED BY <2>1 DEF Types, TypeOK, Throw
<1>8. ASSUME NEW t \in Taps, AfterFinish(t) PROVE TypeOK'
  BY <1>8 DEF Types, TypeOK, AfterFinish
<1>9. ASSUME UNCHANGED page PROVE TypeOK'
  BY <1>9 DEF Types, TypeOK, page
<1>10. ASSUME NEW t \in Taps, HandlerStep(t) PROVE TypeOK'
  BY <1>6, <1>7, <1>8, <1>9, <1>10
  DEF HandlerStep, AfterDelete, AfterPay, JobStep, PayStep
<1> QED BY <1>1, <1>2, <1>3, <1>4, <1>5, <1>9, <1>10 DEF Next, vars

\* Every step keeps the types of the board.
LEMMA BoardTypesNext == ASSUME Types, Idle, [Next]_vars PROVE BoardTypes'
<1> USE TapsAssumption, CountsAssumption
<1>1. ASSUME UNCHANGED board PROVE BoardTypes'
  BY <1>1 DEF Types, BoardTypes, board
<1>2. ASSUME NEW d \in Devices, NEW t \in On(d), TapYes(d, t) PROVE BoardTypes'
  <2>1. t \in Taps /\ routes[d] = 2
    BY <1>2 DEF On, TapYes
  <2>2. dialog[d] \in [kind : {"confirm", "delete"}, key : Keys]
    BY <2>1, DialogType
  <2>3. PICK o \in {"finish", "delete"} :
          o = IF dialog[d].kind = "confirm" THEN "finish" ELSE "delete"
    OBVIOUS
  <2>4. PICK k \in Keys : k = dialog[d].key
    BY <2>2
  <2>5. Jobs!Begin(t, o, k)
    BY <1>2, <2>3, <2>4 DEF TapYes
  <2>6. [op |-> o, key |-> k] \in [op : {"finish", "delete"}, key : Keys]
    OBVIOUS
  <2> QED BY <2>1, <2>5, <2>6 DEF Jobs!Begin, Types, BoardTypes, Statuses
<1>3. ASSUME NEW t \in Taps, Took(t) PROVE BoardTypes'
  <2>1. request[t].key \in Keys
    BY <1>3, RequestType DEF Took
  <2>2. /\ open' \in [Keys -> Nat] /\ finished' \in [Keys -> Nat]
        /\ request' = request
    BY <1>3, <2>1 DEF Took, Types, BoardTypes
  <2>3. jobStatus' \in [Taps -> Statuses] /\ hits' \in [Taps -> 0..MaxAttempts]
    BY <1>3 DEF Took, Types, BoardTypes, Statuses
  <2> QED BY <2>2, <2>3 DEF Types, BoardTypes
<1>4. ASSUME NEW t \in Taps, Jobs!Miss(t) \/ Jobs!Fail(t) PROVE BoardTypes'
  BY <1>4 DEF Jobs!Miss, Jobs!Fail, Types, BoardTypes, Statuses
<1>5. ASSUME NEW t \in Taps, AfterFinish(t) \/ PayStep(t) PROVE UNCHANGED board
  BY <1>5 DEF AfterFinish, PayStep
<1>6. ASSUME UNCHANGED vars PROVE UNCHANGED board
  BY <1>6 DEF vars
<1> QED BY <1>1, <1>2, <1>3, <1>4, <1>5, <1>6, StepKinds

\* What a payment that has not returned may do: it is made, made unseen, or fails.
LEMMA PaySteps ==
  ASSUME Types, NEW t \in Taps, PayStep(t)
  PROVE  /\ payStatus[t] = "pending"
         /\ payStatus' \in {payStatus, [payStatus EXCEPT ![t] = "ok"],
                            [payStatus EXCEPT ![t] = "failed"]}
         /\ \/ applied' = applied /\ payStatus' = [payStatus EXCEPT ![t] = "failed"]
            \/ applied[t] < MaxAttempts /\ applied' = [applied EXCEPT ![t] = @ + 1]
         /\ UNCHANGED <<board, page>>
<1>1. UNCHANGED <<board, page>>
  BY DEF PayStep
<1>2. CASE Purse!Succeed(t)
  BY <1>1, <1>2 DEF Purse!Succeed, Purse!Credit
<1>3. CASE Purse!CreditUnseen(t)
  BY <1>1, <1>3 DEF Purse!CreditUnseen, Purse!Credit
<1>4. CASE Purse!Fail(t)
  BY <1>1, <1>4 DEF Purse!Fail
<1> QED BY <1>2, <1>3, <1>4 DEF PayStep

\* Every step keeps the types of the account.
LEMMA AccountTypesNext == ASSUME Types, Idle, [Next]_vars PROVE AccountTypes'
<1> USE CountsAssumption
<1>1. ASSUME UNCHANGED account PROVE AccountTypes'
  BY <1>1 DEF Types, AccountTypes, account
<1>2. ASSUME NEW t \in Taps, AfterFinish(t) PROVE AccountTypes'
  BY <1>2 DEF AfterFinish, Purse!Begin, Types, AccountTypes, Statuses
<1>3. ASSUME NEW t \in Taps, PayStep(t) PROVE AccountTypes'
  <2>1. payStatus' \in [Taps -> Statuses]
    BY <1>3, PaySteps DEF Types, AccountTypes, Statuses
  <2>2. applied' \in [Taps -> 0..MaxAttempts]
    BY <1>3, PaySteps DEF Types, AccountTypes
  <2> QED BY <2>1, <2>2 DEF AccountTypes
<1>4. ASSUME NEW d \in Devices, NEW t \in On(d), TapYes(d, t) PROVE UNCHANGED account
  BY <1>4 DEF TapYes
<1>5. ASSUME UNCHANGED vars PROVE UNCHANGED account
  BY <1>5 DEF vars
<1> QED BY <1>1, <1>2, <1>3, <1>4, <1>5, StepKinds

\* The steps of the page end a handler, cut it short, or leave it alone.
LEMMA PageSteps ==
  ASSUME Types, PageStep
  PROVE  /\ unbacked' = unbacked
         /\ \A t \in Taps :
              \/ stage'[t] = stage[t]
              \/ stage[t] \in {"job", "pay"} /\ stage'[t] \in {"threw", "killed"}
              \/ /\ stage'[t] = "end"
                 /\ \/ stage[t] = "job" /\ request[t].op = "delete"
                    \/ stage[t] = "pay" /\ payStatus[t] = "ok"
<1>1. ASSUME NEW d \in Devices,
             \/ Snapshot(d) \/ TapNo(d)
             \/ \E kind \in {"confirm", "delete"}, k \in Keys : ShowDialog(d, kind, k)
      PROVE  UNCHANGED <<stage, unbacked>>
  BY <1>1 DEF Snapshot, TapNo, ShowDialog
<1>2. ASSUME NEW d \in Devices, Crash(d)
      PROVE  /\ unbacked' = unbacked
             /\ \A t \in Taps :
                  \/ stage'[t] = stage[t]
                  \/ stage[t] \in {"job", "pay"} /\ stage'[t] = "killed"
  BY <1>2 DEF Crash, InHandler
<1>3. ASSUME NEW u \in Taps, AfterDelete(u) \/ AfterPay(u)
      PROVE  /\ unbacked' = unbacked
             /\ \A t \in Taps \ {u} : stage'[t] = stage[t]
             /\ stage'[u] = "end"
             /\ \/ stage[u] = "job" /\ request[u].op = "delete"
                \/ stage[u] = "pay" /\ payStatus[u] = "ok"
  BY <1>3 DEF AfterDelete, AfterPay, EndHandler, Types, TypeOK
<1>4. ASSUME NEW u \in Taps, HandlerThrows(u)
      PROVE  /\ unbacked' = unbacked
             /\ \A t \in Taps \ {u} : stage'[t] = stage[t]
             /\ stage'[u] = "threw" /\ stage[u] \in {"job", "pay"}
  BY <1>4 DEF HandlerThrows, CallThrows, PopThrows, Throw, InHandler, Types, TypeOK
<1> QED BY <1>1, <1>2, <1>3, <1>4 DEF PageStep

\* Every step keeps handlers and calls in agreement: a call that was not made
\* has done nothing.
LEMMA IdleNext == ASSUME Types, Idle, [Next]_vars PROVE Idle'
<1>1. ASSUME PageStep, UNCHANGED <<board, account>> PROVE Idle'
  <2>1. UNCHANGED <<request, jobStatus, hits>>
    BY <1>1 DEF board
  <2> QED BY <1>1, <2>1, PageSteps DEF Idle
<1>2. ASSUME NEW d \in Devices, NEW t \in On(d), TapYes(d, t) PROVE Idle'
  <2>1. t \in Taps /\ routes[d] = 2
    BY <1>2 DEF On, TapYes
  <2>2. PICK o, k : o \in {"finish", "delete"} /\ Jobs!Begin(t, o, k)
    BY <1>2 DEF TapYes
  <2>3. [op |-> o, key |-> k] # Jobs!NoRequest
    BY <2>2 DEF Jobs!NoRequest
  <2>4. /\ stage' = [stage EXCEPT ![t] = "job"]
        /\ unbacked' \subseteq unbacked \union {t}
    BY <1>2 DEF TapYes
  <2> QED BY <2>1, <2>2, <2>3, <2>4 DEF Jobs!Begin, Types, TypeOK, BoardTypes, Idle
<1>3. ASSUME NEW t \in Taps, AfterFinish(t) PROVE Idle'
  BY <1>3 DEF AfterFinish, board, Types, TypeOK, Idle
<1>4. ASSUME NEW t \in Taps, Took(t), UNCHANGED page PROVE Idle'
  BY <1>4 DEF Took, page, Types, BoardTypes, Idle
<1>5. ASSUME NEW t \in Taps, Jobs!Miss(t) \/ Jobs!Fail(t), UNCHANGED page PROVE Idle'
  BY <1>5 DEF Jobs!Miss, Jobs!Fail, page, Types, BoardTypes, Idle
<1>6. ASSUME UNCHANGED <<board, page>> PROVE Idle'
  BY <1>6 DEF board, page, Idle
<1>7. ASSUME NEW t \in Taps, PayStep(t) PROVE UNCHANGED <<board, page>>
  BY <1>7 DEF PayStep
<1>8. ASSUME UNCHANGED vars PROVE UNCHANGED <<board, page>>
  BY <1>8 DEF vars
<1> QED BY <1>1, <1>2, <1>3, <1>4, <1>5, <1>6, <1>7, <1>8, StepKinds

\* Every step keeps the two calls of a handler in agreement: it pays after the
\* chore, and ends after it has paid.
LEMMA PaysAfterwardsNext ==
  ASSUME Types, Idle, PaysAfterwards, [Next]_vars
  PROVE  PaysAfterwards'
<1>1. ASSUME PageStep, UNCHANGED <<board, account>> PROVE PaysAfterwards'
  <2>1. UNCHANGED <<request, jobStatus, payStatus, applied>>
    BY <1>1 DEF board, account
  <2> QED BY <1>1, <2>1, PageSteps DEF PaysAfterwards
<1>2. ASSUME NEW d \in Devices, NEW t \in On(d), TapYes(d, t) PROVE PaysAfterwards'
  <2>1. t \in Taps /\ jobStatus[t] = "idle" /\ payStatus[t] = "idle"
    BY <1>2 DEF On, TapYes, Jobs!Begin, PaysAfterwards
  <2>2. /\ \A u \in Taps \ {t} : request'[u] = request[u] /\ jobStatus'[u] = jobStatus[u]
        /\ \A u \in Taps \ {t} : stage'[u] = stage[u]
        /\ stage'[t] = "job" /\ payStatus' = payStatus /\ applied' = applied
    BY <1>2, <2>1 DEF TapYes, Jobs!Begin, account, Types, TypeOK, BoardTypes
  <2> QED BY <2>1, <2>2 DEF PaysAfterwards
<1>3. ASSUME NEW t \in Taps, AfterFinish(t) PROVE PaysAfterwards'
  BY <1>3 DEF AfterFinish, Purse!Begin, board, Types, TypeOK, AccountTypes, PaysAfterwards
<1>4. ASSUME NEW t \in Taps, Took(t) \/ Jobs!Miss(t) \/ Jobs!Fail(t),
             UNCHANGED <<account, page>>
      PROVE  PaysAfterwards'
  <2>1. jobStatus[t] = "pending" /\ request' = request
    BY <1>4 DEF Took, Jobs!Miss, Jobs!Fail
  <2>2. \A u \in Taps \ {t} : jobStatus'[u] = jobStatus[u]
    BY <1>4 DEF Took, Jobs!Miss, Jobs!Fail, Types, BoardTypes
  <2> QED BY <1>4, <2>1, <2>2 DEF account, page, PaysAfterwards
<1>5. ASSUME NEW t \in Taps, PayStep(t) PROVE PaysAfterwards'
  <2>1. payStatus[t] = "pending" /\ UNCHANGED <<board, page>>
    BY <1>5, PaySteps
  <2>2. /\ \A u \in Taps \ {t} : payStatus'[u] = payStatus[u] /\ applied'[u] = applied[u]
        /\ payStatus'[t] # "idle"
        /\ payStatus'[t] = "ok" => applied'[t] > 0
    BY <1>5, PaySteps, CountsAssumption DEF Types, AccountTypes
  <2> QED BY <2>1, <2>2 DEF board, page, PaysAfterwards
<1>6. ASSUME UNCHANGED vars PROVE PaysAfterwards'
  BY <1>6 DEF vars, board, account, page, PaysAfterwards
<1> QED BY <1>1, <1>2, <1>3, <1>4, <1>5, <1>6, StepKinds

-----------------------------------------------------------------------------
(* Counting *)

\* The sets that are counted are finite.
LEMMA Finite ==
  /\ \A T \in SUBSET Taps : IsFiniteSet(T) /\ Cardinality(T) \in Nat
  /\ \A T \in SUBSET (Taps \X (1..MaxAttempts)) : IsFiniteSet(T) /\ Cardinality(T) \in Nat
<1>1. IsFiniteSet(Taps) /\ IsFiniteSet(1..MaxAttempts)
  BY TapsAssumption, CountsAssumption, FS_Interval
<1>2. IsFiniteSet(Taps \X (1..MaxAttempts))
  BY <1>1, FS_Product
<1> QED BY <1>1, <1>2, FS_Subset, FS_CardinalityType

\* A pair is a change of the board by a call in T when the call made that many.
LEMMA TimesAre ==
  ASSUME NEW T \in SUBSET Taps, NEW f
  PROVE  /\ Times(T, f) \in SUBSET (Taps \X (1..MaxAttempts))
         /\ \A h : h \in Times(T, f) <=>
              \E t \in T : \E n \in 1..MaxAttempts : h = <<t, n>> /\ n <= f[t]
BY DEF Times

\* A call that changed nothing does not count, in whatever set it is.
LEMMA TimesSame ==
  ASSUME NEW T \in SUBSET Taps, NEW U \in SUBSET Taps, NEW t \in Taps, NEW f,
         f[t] = 0, \A u \in Taps \ {t} : u \in U <=> u \in T
  PROVE  Times(U, f) = Times(T, f)
<1>1. \A h : h \in Times(U, f) <=>
               \E u \in U : \E n \in 1..MaxAttempts : h = <<u, n>> /\ n <= f[u]
  BY TimesAre
<1>2. \A h : h \in Times(T, f) <=>
               \E u \in T : \E n \in 1..MaxAttempts : h = <<u, n>> /\ n <= f[u]
  BY TimesAre
<1>3. \A n \in 1..MaxAttempts : ~(n <= f[t])
  BY CountsAssumption
<1>4. \A h : h \in Times(U, f) <=> h \in Times(T, f)
  BY <1>1, <1>2, <1>3
<1> QED BY <1>4

\* The same of the changes a call made after its first one.
LEMMA RepeatsAre ==
  ASSUME NEW T \in SUBSET Taps, NEW f
  PROVE  /\ Repeats(T, f) \in SUBSET (Taps \X (1..MaxAttempts))
         /\ \A h : h \in Repeats(T, f) <=>
              \E t \in T : \E n \in 1..MaxAttempts : h = <<t, n>> /\ n <= f[t] /\ n > 1
<1>1. Repeats(T, f) \in SUBSET (Taps \X (1..MaxAttempts))
  BY TimesAre DEF Repeats
<1>2. \A h : h \in Repeats(T, f) <=> h \in Times(T, f) /\ h[2] > 1
  BY DEF Repeats
<1>3. ASSUME NEW h
      PROVE  h \in Repeats(T, f) <=>
              \E t \in T : \E n \in 1..MaxAttempts : h = <<t, n>> /\ n <= f[t] /\ n > 1
  <2>1. h \in Times(T, f) <=>
          \E t \in T : \E n \in 1..MaxAttempts : h = <<t, n>> /\ n <= f[t]
    BY TimesAre
  <2>2. \A t, n : h = <<t, n>> => h[2] = n
    OBVIOUS
  <2> QED BY <1>2, <2>1, <2>2
<1> QED BY <1>1, <1>3

\* The counts are numbers.
LEMMA CountTypes ==
  ASSUME Types, NEW k \in Keys
  PROVE  /\ Missed(k) \in SUBSET Taps /\ Waiting(k) \in SUBSET Taps
         /\ Late(k) \in SUBSET Taps /\ Again(k) \in SUBSET (Taps \X (1..MaxAttempts))
         /\ Cardinality(Missed(k)) \in Nat /\ Cardinality(Waiting(k)) \in Nat
         /\ Cardinality(Late(k)) \in Nat /\ Cardinality(Again(k)) \in Nat
         /\ open[k] \in Nat
<1>1. /\ Missed(k) \in SUBSET Taps /\ Waiting(k) \in SUBSET Taps
      /\ Late(k) \in SUBSET Taps
  BY DEF Missed, Waiting, Late, Types, TypeOK
<1>2. Again(k) \in SUBSET (Taps \X (1..MaxAttempts))
  BY RepeatsAre DEF Again
<1>3. open[k] \in Nat
  BY DEF Types, BoardTypes
<1> QED BY <1>1, <1>2, <1>3, Finite

\* Taps and pairs are added to the counted sets one at a time.
LEMMA AddOne ==
  ASSUME NEW S, NEW x, IsFiniteSet(S), x \notin S
  PROVE  /\ IsFiniteSet(S \union {x})
         /\ Cardinality(S \union {x}) = Cardinality(S) + 1
BY FS_AddElement

\* A tap on "Yes" waits for a chore if one was open for it.
LEMMA BackedTap ==
  ASSUME Types, Idle, Backed, NEW d \in Devices, NEW t \in On(d), TapYes(d, t)
  PROVE  Backed'
<1>1. t \in Taps /\ routes[d] = 2 /\ jobStatus[t] = "idle" /\ hits[t] = 0 /\ t \notin unbacked
  BY DEF On, TapYes, Jobs!Begin, Idle
<1>2. PICK b \in Keys : b = dialog[d].key
  BY <1>1, DialogType
<1>3. /\ \A u \in Taps \ {t} : request'[u] = request[u] /\ jobStatus'[u] = jobStatus[u]
      /\ request'[t].key = b /\ jobStatus'[t] = "pending"
      /\ hits' = hits /\ open' = open
  BY <1>1, <1>2 DEF TapYes, Jobs!Begin, Types, BoardTypes
<1>4. \/ unbacked' = unbacked /\ open[b] > Cardinality(Pending(b))
      \/ unbacked' = unbacked \union {t}
  BY <1>2 DEF TapYes
<1>5. unbacked \subseteq Taps
  BY DEF Types, TypeOK
<1> SUFFICES ASSUME NEW k \in Keys
             PROVE  /\ Cardinality(Missed(k)') + Cardinality(Waiting(k)') <=
                         open'[k] + Cardinality(Again(k)') + Cardinality(Late(k)')
                    /\ Cardinality(Missed(k)') <= Cardinality(Again(k)') + Cardinality(Late(k)')
    BY DEF Backed
<1>6. Missed(k)' = Missed(k) /\ Late(k)' = Late(k)
  BY <1>1, <1>3, <1>4, <1>5 DEF Missed, Late
<1>7. Again(k)' = Again(k)
  <2>1. PICK T \in SUBSET Taps : T = {u \in Taps : request[u].key = k}
    OBVIOUS
  <2>2. PICK U \in SUBSET Taps : U = {u \in Taps : request'[u].key = k}
    OBVIOUS
  <2>3. \A u \in Taps \ {t} : u \in U <=> u \in T
    BY <1>3, <2>1, <2>2
  <2>4. Times(U, hits) = Times(T, hits)
    BY <1>1, <2>3, TimesSame
  <2>5. Again(k)' = {h \in Times(U, hits)' : h[2] > 1}
    BY <2>2 DEF Again, Repeats
  <2>6. Times(U, hits)' = Times(U, hits)
    BY <1>3 DEF Times
  <2>7. Again(k) = {h \in Times(T, hits) : h[2] > 1}
    BY <2>1 DEF Again, Repeats
  <2> QED BY <2>4, <2>5, <2>6, <2>7
<1>8. CASE unbacked' = unbacked /\ open[b] > Cardinality(Pending(b)) /\ k = b
  <2>1. Waiting(k)' = Waiting(k) \union {t} /\ t \notin Waiting(k)
    BY <1>1, <1>3, <1>8 DEF Waiting
  <2>2. Waiting(k) \subseteq Pending(k) /\ Pending(k) \in SUBSET Taps
    BY DEF Waiting, Pending
  <2>3. Cardinality(Waiting(k)) <= Cardinality(Pending(k)) /\ Cardinality(Pending(k)) \in Nat
    BY <2>2, Finite, FS_Subset
  <2>4. Cardinality(Waiting(k)') = Cardinality(Waiting(k)) + 1
    BY <2>1, AddOne, CountTypes, Finite
  <2> QED BY <1>3, <1>6, <1>7, <1>8, <2>3, <2>4, CountTypes DEF Backed
<1>9. CASE unbacked' = unbacked \union {t} \/ k # b
  <2>1. Waiting(k)' = Waiting(k)
    BY <1>1, <1>3, <1>4, <1>9 DEF Waiting
  <2> QED BY <1>3, <1>6, <1>7, <2>1, CountTypes DEF Backed
<1> QED BY <1>4, <1>8, <1>9

\* One more change of the board by call t is one more pair.
LEMMA TimesStep ==
  ASSUME NEW T \in SUBSET Taps, NEW t \in Taps, NEW f \in [Taps -> 0..MaxAttempts],
         NEW g \in [Taps -> 0..MaxAttempts], g[t] = f[t] + 1,
         \A u \in Taps \ {t} : g[u] = f[u], NEW new, new = <<t, f[t] + 1>>
  PROVE  /\ t \in T => Times(T, g) = Times(T, f) \union {new} /\ new \notin Times(T, f)
         /\ t \notin T => Times(T, g) = Times(T, f)
<1> USE CountsAssumption
<1>1. \A h : h \in Times(T, f) <=>
               \E u \in T : \E n \in 1..MaxAttempts : h = <<u, n>> /\ n <= f[u]
  BY TimesAre
<1>2. \A h : h \in Times(T, g) <=>
               \E u \in T : \E n \in 1..MaxAttempts : h = <<u, n>> /\ n <= g[u]
  BY TimesAre
<1>3. /\ f[t] \in Nat /\ f[t] + 1 \in 1..MaxAttempts
      /\ \A n \in 1..MaxAttempts : n <= g[t] <=> n <= f[t] \/ n = f[t] + 1
      /\ ~(f[t] + 1 <= f[t])
  OBVIOUS
<1>4. ASSUME t \notin T PROVE Times(T, g) = Times(T, f)
  <2>1. \A h : h \in Times(T, g) <=> h \in Times(T, f)
    BY <1>1, <1>2, <1>3, <1>4
  <2> QED BY <2>1
<1>5. ASSUME t \in T PROVE new \notin Times(T, f)
  BY <1>1, <1>3
<1>6. ASSUME t \in T PROVE Times(T, g) = Times(T, f) \union {new}
  <2>1. ASSUME NEW h PROVE h \in Times(T, g) <=> h \in Times(T, f) \/ h = new
    <3>1. h \in Times(T, f) => h \in Times(T, g)
      <4>1. SUFFICES ASSUME h \in Times(T, f) PROVE h \in Times(T, g)
        OBVIOUS
      <4>2. PICK u \in T, n \in 1..MaxAttempts : h = <<u, n>> /\ n <= f[u]
        BY <1>1, <4>1
      <4> QED BY <1>2, <1>3, <4>2
    <3>2. new \in Times(T, g)
      BY <1>2, <1>3, <1>6
    <3>3. h \in Times(T, g) => h \in Times(T, f) \/ h = new
      <4>1. SUFFICES ASSUME h \in Times(T, g) PROVE h \in Times(T, f) \/ h = new
        OBVIOUS
      <4>2. PICK u \in T, n \in 1..MaxAttempts : h = <<u, n>> /\ n <= g[u]
        BY <1>2, <4>1
      <4> QED BY <1>1, <1>3, <4>2
    <3> QED BY <3>1, <3>2, <3>3
  <2> QED BY <2>1
<1> QED BY <1>4, <1>5, <1>6

\* A chore is taken from those that are open, by a tap that waited for it, by a
\* tap that was not backed, or by a call that runs again.
LEMMA BackedTook ==
  ASSUME Types, Idle, Backed, NEW t \in Taps, Took(t), unbacked' = unbacked
  PROVE  Backed'
<1>1. PICK b \in Keys : b = request[t].key
  BY RequestType DEF Took
<1>2. /\ request' = request /\ jobStatus[t] = "pending" /\ hits[t] < MaxAttempts
      /\ hits' = [hits EXCEPT ![t] = hits[t] + 1] /\ hits \in [Taps -> 0..MaxAttempts]
      /\ open[b] > 0 /\ open'[b] = open[b] - 1
      /\ \A k \in Keys \ {b} : open'[k] = open[k]
      /\ \A u \in Taps \ {t} : hits'[u] = hits[u] /\ jobStatus'[u] = jobStatus[u]
      /\ hits'[t] = hits[t] + 1 /\ hits[t] \in Nat
  BY <1>1, CountsAssumption DEF Took, Types, BoardTypes
<1>3. unbacked \subseteq Taps
  BY DEF Types, TypeOK
<1>4. PICK new : new = <<t, hits[t] + 1>>
  OBVIOUS
<1> SUFFICES ASSUME NEW k \in Keys
             PROVE  /\ Cardinality(Missed(k)') + Cardinality(Waiting(k)') <=
                         open'[k] + Cardinality(Again(k)') + Cardinality(Late(k)')
                    /\ Cardinality(Missed(k)') <= Cardinality(Again(k)') + Cardinality(Late(k)')
    BY DEF Backed
<1>5. Missed(k)' = Missed(k)
  BY <1>2 DEF Missed
<1>6. /\ Waiting(k)' = Waiting(k) \ {t}
      /\ t \in Waiting(k) <=> k = b /\ hits[t] = 0 /\ t \notin unbacked
  BY <1>1, <1>2 DEF Waiting
<1>7. /\ k # b \/ hits[t] > 0 \/ t \notin unbacked => Late(k)' = Late(k)
      /\ k = b /\ hits[t] = 0 /\ t \in unbacked =>
            Late(k)' = Late(k) \union {t} /\ t \notin Late(k)
  BY <1>1, <1>2, <1>3 DEF Late
<1>8. /\ k # b \/ hits[t] = 0 => Again(k)' = Again(k)
      /\ k = b /\ hits[t] > 0 => Again(k)' = Again(k) \union {new} /\ new \notin Again(k)
  <2>1. PICK T \in SUBSET Taps : T = {u \in Taps : request[u].key = k}
    OBVIOUS
  <2>2. PICK f \in [Taps -> 0..MaxAttempts] : f = hits
    BY <1>2
  <2>3. PICK g \in [Taps -> 0..MaxAttempts] : g = hits'
    BY <1>2, CountsAssumption
  <2>4. /\ t \in T => Times(T, g) = Times(T, f) \union {new} /\ new \notin Times(T, f)
        /\ t \notin T => Times(T, g) = Times(T, f)
    <3>1. g[t] = f[t] + 1 /\ \A u \in Taps \ {t} : g[u] = f[u]
      BY <1>2, <2>2, <2>3
    <3>2. new = <<t, f[t] + 1>>
      BY <1>4, <2>2
    <3> HIDE <2>2, <2>3
    <3> QED BY <3>1, <3>2, TimesStep
  <2>5. Again(k) = {h \in Times(T, f) : h[2] > 1}
    BY <2>1, <2>2 DEF Again, Repeats
  <2>6. Again(k)' = {h \in Times(T, g) : h[2] > 1}
    BY <1>2, <2>1, <2>3 DEF Again, Repeats, Times
  <2>7. t \in T <=> k = b
    BY <1>1, <2>1
  <2>8. new[2] = hits[t] + 1
    BY <1>4
  <2>9. new[2] > 1 <=> hits[t] > 0
    BY <1>2, <2>8
  <2> QED BY <1>2, <2>4, <2>5, <2>6, <2>7, <2>9
<1> HIDE DEF Missed, Waiting, Late, Again
<1>9. /\ IsFiniteSet(Waiting(k)) /\ IsFiniteSet(Late(k)) /\ IsFiniteSet(Again(k))
  BY CountTypes, Finite
<1>10. /\ Cardinality(Missed(k)) + Cardinality(Waiting(k)) <=
            open[k] + Cardinality(Again(k)) + Cardinality(Late(k))
       /\ Cardinality(Missed(k)) <= Cardinality(Again(k)) + Cardinality(Late(k))
  BY DEF Backed
<1>11. CASE k # b
  <2>1. t \notin Waiting(k)
    BY <1>6, <1>11
  <2>2. Waiting(k)' = Waiting(k)
    BY <1>6, <2>1
  <2> QED BY <1>2, <1>5, <1>7, <1>8, <1>10, <1>11, <2>2
<1>12. CASE k = b /\ hits[t] > 0
  <2>1. t \notin Waiting(k)
    BY <1>6, <1>12
  <2>2. Waiting(k)' = Waiting(k)
    BY <1>6, <2>1
  <2>3. Cardinality(Again(k)') = Cardinality(Again(k)) + 1
    BY <1>8, <1>9, <1>12, AddOne
  <2> QED BY <1>2, <1>5, <1>7, <1>10, <1>12, <2>2, <2>3, CountTypes
<1>13. CASE k = b /\ hits[t] = 0 /\ t \in unbacked
  <2>1. t \notin Waiting(k)
    BY <1>6, <1>13
  <2>2. Waiting(k)' = Waiting(k)
    BY <1>6, <2>1
  <2>3. Cardinality(Late(k)') = Cardinality(Late(k)) + 1
    BY <1>7, <1>9, <1>13, AddOne
  <2> QED BY <1>2, <1>5, <1>8, <1>10, <1>13, <2>2, <2>3, CountTypes
<1>14. CASE k = b /\ hits[t] = 0 /\ t \notin unbacked
  <2>1. Cardinality(Waiting(k)') = Cardinality(Waiting(k)) - 1
    BY <1>6, <1>9, <1>14, FS_RemoveElement
  <2> QED BY <1>2, <1>5, <1>7, <1>8, <1>10, <1>14, <2>1, CountTypes
<1> QED BY <1>2, <1>11, <1>12, <1>13, <1>14

\* A call that finds no open chore, or fails, stops waiting for one.
LEMMA BackedMiss ==
  ASSUME Types, Idle, Backed, NEW t \in Taps, Jobs!Miss(t) \/ Jobs!Fail(t),
         unbacked' = unbacked
  PROVE  Backed'
<1>1. /\ request' = request /\ jobStatus[t] = "pending" /\ hits' = hits /\ open' = open
      /\ \A u \in Taps \ {t} : jobStatus'[u] = jobStatus[u]
      /\ \/ jobStatus'[t] = "ok" /\ open[request[t].key] = 0
         \/ jobStatus'[t] = "failed"
  BY DEF Jobs!Miss, Jobs!Fail, Types, BoardTypes
<1> SUFFICES ASSUME NEW k \in Keys
             PROVE  /\ Cardinality(Missed(k)') + Cardinality(Waiting(k)') <=
                         open'[k] + Cardinality(Again(k)') + Cardinality(Late(k)')
                    /\ Cardinality(Missed(k)') <= Cardinality(Again(k)') + Cardinality(Late(k)')
    BY DEF Backed
<1>2. Late(k)' = Late(k) /\ Again(k)' = Again(k)
  BY <1>1 DEF Late, Again, Repeats, Times
<1>3. Waiting(k)' = Waiting(k) \ {t}
  BY <1>1 DEF Waiting
<1>4. \/ Missed(k)' = Missed(k)
      \/ /\ Missed(k)' = Missed(k) \union {t} /\ t \notin Missed(k)
         /\ t \in Waiting(k) /\ open[k] = 0
  BY <1>1 DEF Missed, Waiting
<1>5. IsFiniteSet(Waiting(k)) /\ IsFiniteSet(Missed(k))
  BY CountTypes, Finite
<1>6. /\ Cardinality(Missed(k)) + Cardinality(Waiting(k)) <=
           open[k] + Cardinality(Again(k)) + Cardinality(Late(k))
      /\ Cardinality(Missed(k)) <= Cardinality(Again(k)) + Cardinality(Late(k))
  BY DEF Backed
<1>7. PICK w \in Nat : w = Cardinality(Waiting(k)')
  BY <1>3, <1>5, FS_RemoveElement, FS_CardinalityType
<1>8. /\ w <= Cardinality(Waiting(k))
      /\ t \in Waiting(k) => w = Cardinality(Waiting(k)) - 1
  <2>1. w = IF t \in Waiting(k) THEN Cardinality(Waiting(k)) - 1
                                ELSE Cardinality(Waiting(k))
    BY <1>3, <1>5, <1>7, FS_RemoveElement
  <2>2. Cardinality(Waiting(k)) \in Nat
    BY CountTypes
  <2> QED BY <2>1, <2>2
<1>9. CASE Missed(k)' = Missed(k)
  BY <1>1, <1>2, <1>6, <1>7, <1>8, <1>9, CountTypes
<1>10. CASE /\ Missed(k)' = Missed(k) \union {t} /\ t \notin Missed(k)
            /\ t \in Waiting(k) /\ open[k] = 0
  <2>1. Cardinality(Missed(k)') = Cardinality(Missed(k)) + 1
    BY <1>5, <1>10, AddOne
  <2> QED BY <1>1, <1>2, <1>6, <1>7, <1>8, <1>10, <2>1, CountTypes
<1> QED BY <1>4, <1>9, <1>10

\* Every step leaves each backed tap a chore, or something to blame.
LEMMA BackedNext == ASSUME Types, Idle, Backed, [Next]_vars PROVE Backed'
<1>1. ASSUME UNCHANGED board, unbacked' = unbacked PROVE Backed'
  BY <1>1 DEF Backed, board, Missed, Waiting, Late, Again, Repeats, Times
<1>2. ASSUME NEW t \in Taps, AfterFinish(t) \/ PayStep(t)
      PROVE  UNCHANGED board /\ unbacked' = unbacked
  BY <1>2 DEF AfterFinish, PayStep, page
<1>3. ASSUME UNCHANGED vars PROVE UNCHANGED board /\ unbacked' = unbacked
  BY <1>3 DEF vars, page
<1>4. ASSUME PageStep, UNCHANGED <<board, account>> PROVE Backed'
  BY <1>1, <1>4, PageSteps
<1>5. ASSUME NEW t \in Taps, Took(t) \/ Jobs!Miss(t) \/ Jobs!Fail(t),
             UNCHANGED <<account, page>>
      PROVE  Backed'
  <2>1. unbacked' = unbacked
    BY <1>5 DEF page
  <2> QED BY <1>5, <2>1, BackedTook, BackedMiss
<1> QED BY <1>1, <1>2, <1>3, <1>4, <1>5, BackedTap, StepKinds

\* Every step counts a finished chore for the confirmation that finished it.
LEMMA CountedNext == ASSUME Types, Idle, Counted, [Next]_vars PROVE Counted'
<1>1. ASSUME UNCHANGED <<request, hits, finished>> PROVE Counted'
  BY <1>1 DEF Counted, Times, Confirmations
<1>2. ASSUME NEW d \in Devices, NEW t \in On(d), TapYes(d, t) PROVE Counted'
  <2>1. t \in Taps /\ hits[t] = 0
    BY <1>2 DEF On, TapYes, Jobs!Begin, Idle
  <2>2. /\ hits' = hits /\ finished' = finished
        /\ \A u \in Taps \ {t} : request'[u] = request[u]
    BY <1>2, <2>1 DEF TapYes, Jobs!Begin, Types, BoardTypes
  <2> SUFFICES ASSUME NEW k \in Keys
               PROVE  finished'[k] = Cardinality(Times(Confirmations(k), hits)')
      BY DEF Counted
  <2>3. PICK T \in SUBSET Taps : T = Confirmations(k)
    BY DEF Confirmations
  <2>4. PICK U \in SUBSET Taps : U = Confirmations(k)'
    BY DEF Confirmations
  <2>5. \A u \in Taps \ {t} : u \in U <=> u \in T
    BY <2>2, <2>3, <2>4 DEF Confirmations
  <2>6. Times(U, hits) = Times(T, hits)
    BY <2>1, <2>5, TimesSame
  <2>7. Times(Confirmations(k), hits)' = Times(U, hits)
    BY <2>2, <2>4 DEF Times
  <2> QED BY <2>2, <2>3, <2>6, <2>7 DEF Counted
<1>3. ASSUME NEW t \in Taps, Took(t) PROVE Counted'
  <2>1. PICK b \in Keys : b = request[t].key
    BY <1>3, RequestType DEF Took
  <2>2. PICK f \in [Taps -> 0..MaxAttempts] : f = hits
    BY DEF Types, BoardTypes
  <2>3. PICK g \in [Taps -> 0..MaxAttempts] : g = hits'
    BY <1>3, CountsAssumption DEF Took, Types, BoardTypes
  <2>4. g[t] = f[t] + 1 /\ \A u \in Taps \ {t} : g[u] = f[u]
    BY <1>3, <2>2, <2>3 DEF Took
  <2>5. PICK new : new = <<t, f[t] + 1>>
    OBVIOUS
  <2> SUFFICES ASSUME NEW k \in Keys
               PROVE  finished'[k] = Cardinality(Times(Confirmations(k), hits)')
      BY DEF Counted
  <2>6. PICK T \in SUBSET Taps : T = Confirmations(k)
    BY DEF Confirmations
  <2>7. Confirmations(k)' = T
    BY <1>3, <2>6 DEF Took, Confirmations
  <2>8. /\ finished[k] = Cardinality(Times(T, f))
        /\ Times(Confirmations(k), hits)' = Times(T, g)
    BY <2>2, <2>3, <2>6, <2>7 DEF Counted, Times
  <2>9. /\ t \in T => Times(T, g) = Times(T, f) \union {new} /\ new \notin Times(T, f)
        /\ t \notin T => Times(T, g) = Times(T, f)
    <3> HIDE <2>2, <2>3
    <3> QED BY <2>4, <2>5, TimesStep
  <2>10. IsFiniteSet(Times(T, f))
    BY TimesAre, Finite
  <2>11. CASE t \in T
    <3>1. finished'[k] = finished[k] + 1
      BY <1>3, <2>6, <2>11 DEF Took, Confirmations, Types, BoardTypes
    <3>2. Cardinality(Times(T, g)) = Cardinality(Times(T, f)) + 1
      BY <2>9, <2>10, <2>11, AddOne
    <3> QED BY <2>8, <3>1, <3>2
  <2>12. CASE t \notin T
    <3>1. finished'[k] = finished[k]
      BY <1>3, <2>6, <2>12 DEF Took, Confirmations, Types, BoardTypes
    <3> QED BY <2>8, <2>9, <2>12, <3>1
  <2> QED BY <2>11, <2>12
<1>4. ASSUME NEW t \in Taps, Jobs!Miss(t) \/ Jobs!Fail(t)
      PROVE  UNCHANGED <<request, hits, finished>>
  BY <1>4 DEF Jobs!Miss, Jobs!Fail
<1>5. ASSUME NEW t \in Taps, AfterFinish(t) \/ PayStep(t)
      PROVE  UNCHANGED <<request, hits, finished>>
  BY <1>5 DEF AfterFinish, PayStep, board
<1>6. ASSUME UNCHANGED board PROVE UNCHANGED <<request, hits, finished>>
  BY <1>6 DEF board
<1>7. ASSUME UNCHANGED vars PROVE UNCHANGED board
  BY <1>7 DEF vars
<1> QED BY <1>1, <1>2, <1>3, <1>4, <1>5, <1>6, <1>7, StepKinds

-----------------------------------------------------------------------------
(* The theorems *)

\* The inductive invariant.
IInv == Types /\ Idle /\ PaysAfterwards /\ Backed /\ Counted

\* Nothing has been counted at first.
LEMMA InitIInv == Init => IInv
<1> SUFFICES ASSUME Init PROVE IInv
    OBVIOUS
<1>1. Types /\ Idle /\ PaysAfterwards
  BY InitTypes
<1>2. \A t \in Taps : hits[t] = 0 /\ jobStatus[t] = "idle"
  BY DEF Init, Jobs!Init
<1>3. ASSUME NEW T \in SUBSET Taps PROVE Times(T, hits) = {}
  <2>1. \A h : h \in Times(T, hits) <=>
               \E t \in T : \E n \in 1..MaxAttempts : h = <<t, n>> /\ n <= hits[t]
    BY TimesAre
  <2>2. \A t \in T : \A n \in 1..MaxAttempts : ~(n <= hits[t])
    BY <1>2, CountsAssumption
  <2>3. \A h : h \notin Times(T, hits)
    BY <2>1, <2>2
  <2> QED BY <2>3
<1>4. Backed
  <2> SUFFICES ASSUME NEW k \in Keys
               PROVE  /\ Cardinality(Missed(k)) + Cardinality(Waiting(k)) <=
                           open[k] + Cardinality(Again(k)) + Cardinality(Late(k))
                      /\ Cardinality(Missed(k)) <= Cardinality(Again(k)) + Cardinality(Late(k))
      BY DEF Backed
  <2>1. Missed(k) = {} /\ Waiting(k) = {}
    BY <1>2 DEF Missed, Waiting
  <2> QED BY <1>1, <2>1, FS_EmptySet, CountTypes
<1>5. Counted
  <2>1. \A k \in Keys : Confirmations(k) \in SUBSET Taps
    BY DEF Confirmations
  <2>2. \A k \in Keys : Times(Confirmations(k), hits) = {} /\ finished[k] = 0
    BY <1>3, <2>1 DEF Init
  <2> QED BY <2>2, FS_EmptySet DEF Counted
<1> QED BY <1>1, <1>4, <1>5 DEF IInv

\* Every step preserves the invariant.
LEMMA NextIInv == IInv /\ [Next]_vars => IInv'
<1> SUFFICES ASSUME IInv, [Next]_vars PROVE IInv'
    OBVIOUS
<1>1. Types /\ Idle /\ PaysAfterwards /\ Backed /\ Counted
  BY DEF IInv
<1>2. Types'
  BY <1>1, PageTypesNext, BoardTypesNext, AccountTypesNext DEF Types
<1>3. Idle' /\ PaysAfterwards' /\ Backed' /\ Counted'
  BY <1>1, IdleNext, PaysAfterwardsNext, BackedNext, CountedNext
<1> QED BY <1>2, <1>3 DEF IInv

\* The invariant holds in every behaviour of the page and its providers.
THEOREM Invariance == Spec => []IInv
BY InitIInv, NextIInv, PTL DEF Spec

\* The page's own state is always well typed.
THEOREM TypeCorrect == Spec => []TypeOK
<1>1. IInv => TypeOK
  BY DEF IInv, Types
<1> QED BY <1>1, Invariance, PTL

\* However the handlers, the calls and the devices interleave, a finished chore
\* that is not paid has a confirmation that still runs or was cut short
\* (work_detail_page.dart:494-518).
THEOREM UnpaidExplained == Spec => []UnpaidHasReason
<1>1. IInv => UnpaidHasReason
  <2> SUFFICES ASSUME IInv, NEW k \in Keys
               PROVE  /\ finished[k] = Cardinality(Times(Confirmations(k), hits))
                      /\ \A t \in Confirmations(k) :
                           hits[t] > 0 => \/ applied[t] > 0
                                          \/ InHandler(t) \/ stage[t] \in {"threw", "killed"}
      BY DEF UnpaidHasReason
  <2>1. finished[k] = Cardinality(Times(Confirmations(k), hits))
    BY DEF IInv, Counted
  <2>2. ASSUME NEW t \in Confirmations(k), hits[t] > 0
        PROVE  \/ applied[t] > 0
               \/ InHandler(t) \/ stage[t] \in {"threw", "killed"}
    <3>1. t \in Taps /\ request[t].op = "finish"
      BY DEF Confirmations
    <3>2. stage[t] # "none"
      BY <2>2, <3>1 DEF IInv, Idle
    <3>3. stage[t] = "end" => applied[t] > 0
      BY <3>1 DEF IInv, PaysAfterwards
    <3>4. stage[t] \in {"none", "job", "pay", "end", "threw", "killed"}
      BY <3>1 DEF IInv, Types, TypeOK
    <3> QED BY <3>2, <3>3, <3>4 DEF InHandler
  <2> QED BY <2>1, <2>2
<1> QED BY <1>1, Invariance, PTL

\* What calls did is what each did first and what it did again.
LEMMA TimesSplit ==
  ASSUME NEW C \in SUBSET Taps, NEW f \in [Taps -> 0..MaxAttempts]
  PROVE  Cardinality(Times(C, f)) =
           Cardinality({t \in C : f[t] > 0}) + Cardinality(Repeats(C, f))
<1> USE CountsAssumption
<1>1. PICK H \in SUBSET Taps : H = {t \in C : f[t] > 0}
  OBVIOUS
<1>2. PICK F : F = {h \in Times(C, f) : ~(h[2] > 1)}
  OBVIOUS
<1>3. /\ Times(C, f) = F \union Repeats(C, f) /\ F \cap Repeats(C, f) = {}
      /\ F \in SUBSET (Taps \X (1..MaxAttempts))
      /\ Repeats(C, f) \in SUBSET (Taps \X (1..MaxAttempts))
  BY <1>2, TimesAre DEF Repeats
<1>4. \A t \in H : <<t, 1>> \in F
  <2> SUFFICES ASSUME NEW t \in H PROVE <<t, 1>> \in F
      OBVIOUS
  <2>1. t \in C /\ f[t] \in 0..MaxAttempts /\ f[t] > 0
    BY <1>1
  <2>2. 1 \in 1..MaxAttempts /\ 1 <= f[t]
    BY <2>1
  <2>3. PICK h : h = <<t, 1>>
    OBVIOUS
  <2>4. h \in Times(C, f)
    BY <2>1, <2>2, <2>3, TimesAre
  <2>5. h[2] = 1
    BY <2>3
  <2> QED BY <1>2, <2>3, <2>4, <2>5
<1>5. ASSUME NEW h \in F PROVE \E t \in H : h = <<t, 1>>
  <2>1. h \in Times(C, f) /\ ~(h[2] > 1)
    BY <1>2
  <2>2. PICK t \in C, n \in 1..MaxAttempts : h = <<t, n>> /\ n <= f[t]
    BY <2>1, TimesAre
  <2>3. h[2] = n
    BY <2>2
  <2>4. n = 1 /\ f[t] \in 0..MaxAttempts
    BY <2>1, <2>3
  <2>5. t \in H
    BY <1>1, <2>2, <2>4
  <2> QED BY <2>2, <2>4, <2>5
<1>6. Cardinality(F) = Cardinality(H)
  <2>1. PICK g : g = [t \in H |-> <<t, 1>>]
    OBVIOUS
  <2>2. \A t, u \in H : g[t] = g[u] => t = u
    BY <2>1
  <2>3. g \in [H -> F]
    BY <1>4, <2>1
  <2>4. \A h \in F : \E t \in H : g[t] = h
    BY <1>5, <2>1
  <2>5. g \in Bijection(H, F)
    BY <2>2, <2>3, <2>4 DEF Bijection, Injection, Surjection, IsInjective
  <2>6. ExistsBijection(H, F)
    BY <2>5 DEF ExistsBijection
  <2> QED BY <2>6, Finite, FS_Bijection
<1>7. Cardinality(Times(C, f)) = Cardinality(F) + Cardinality(Repeats(C, f))
  <2>1. IsFiniteSet(F) /\ IsFiniteSet(Repeats(C, f))
    BY <1>3, Finite
  <2>2. Cardinality(F \union Repeats(C, f)) =
          Cardinality(F) + Cardinality(Repeats(C, f)) - Cardinality(F \cap Repeats(C, f))
    BY <2>1, FS_Union
  <2>3. Cardinality(F \cap Repeats(C, f)) = 0
    BY <1>3, FS_EmptySet
  <2>4. Cardinality(F) \in Nat /\ Cardinality(Repeats(C, f)) \in Nat
    BY <1>3, Finite
  <2> QED BY <1>3, <2>2, <2>3, <2>4
<1> QED BY <1>1, <1>6, <1>7

\* The calls that took a chore, each counted once, and their repetitions are
\* the finished chores.
LEMMA HitsSplit ==
  ASSUME IInv, NEW k \in Keys
  PROVE  Cardinality({t \in Confirmations(k) : hits[t] > 0})
           + Cardinality(Repeats(Confirmations(k), hits)) = finished[k]
<1>1. Confirmations(k) \in SUBSET Taps /\ hits \in [Taps -> 0..MaxAttempts]
  BY DEF Confirmations, IInv, Types, BoardTypes
<1>2. finished[k] = Cardinality(Times(Confirmations(k), hits))
  BY DEF IInv, Counted
<1> QED BY <1>1, <1>2, TimesSplit

\* However the handlers, the calls and the devices interleave, and however often
\* a call runs again, each payment too many is due to a tap for which no chore
\* was open, or to a deletion or a payment that ran again (job.dart:71-81,
\* work_detail_page.dart:496-514).
THEOREM OverpaidExplained == Spec => []OverpaidHasReason
<1>1. IInv => OverpaidHasReason
  <2> SUFFICES ASSUME IInv, NEW k \in Keys
               PROVE  Cardinality(Times(Confirmations(k), applied)) <=
                        finished[k] + Cardinality({t \in unbacked : request[t].key = k})
                                    + Cardinality(Repeats(Deletions(k), hits))
                                    + Cardinality(Repeats(Confirmations(k), applied))
      BY DEF OverpaidHasReason
  <2>1. PICK H \in SUBSET Taps : H = {t \in Confirmations(k) : hits[t] > 0}
    BY DEF Confirmations
  <2>2. PICK P \in SUBSET Taps : P = {t \in Confirmations(k) : applied[t] > 0}
    BY DEF Confirmations
  <2>3. PICK U \in SUBSET Taps : U = {t \in unbacked : request[t].key = k}
    BY DEF IInv, Types, TypeOK
  <2>4. PICK L \in SUBSET Taps : L = Late(k)
    BY CountTypes DEF IInv
  <2>5. PICK M \in SUBSET Taps : M = Missed(k)
    BY CountTypes DEF IInv
  <2>6. PICK N \in SUBSET Taps : N = U \ L
    OBVIOUS
  <2>7. PICK A \in SUBSET (Taps \X (1..MaxAttempts)) : A = Again(k)
    BY CountTypes DEF IInv
  <2>8. PICK RC \in SUBSET (Taps \X (1..MaxAttempts)) : RC = Repeats(Confirmations(k), hits)
    BY RepeatsAre DEF Confirmations
  <2>9. PICK RD \in SUBSET (Taps \X (1..MaxAttempts)) : RD = Repeats(Deletions(k), hits)
    BY RepeatsAre DEF Deletions
  <2>10. P \subseteq H \union (M \union N)
    <3> SUFFICES ASSUME NEW t \in P PROVE t \in H \union (M \union N)
        OBVIOUS
    <3>1. /\ t \in Taps /\ t \in Confirmations(k) /\ applied[t] > 0 /\ request[t].key = k
          /\ hits[t] \in Nat
      BY <2>2, CountsAssumption DEF Confirmations, IInv, Types, BoardTypes
    <3>2. jobStatus[t] = "ok"
      BY <3>1 DEF IInv, PaysAfterwards
    <3>3. CASE hits[t] > 0
      BY <2>1, <3>1, <3>3
    <3>4. CASE hits[t] = 0 /\ t \in unbacked
      BY <2>3, <2>4, <2>6, <3>1, <3>4 DEF Late
    <3>5. CASE hits[t] = 0 /\ t \notin unbacked
      BY <2>5, <3>1, <3>2, <3>5 DEF Missed
    <3> QED BY <3>1, <3>3, <3>4, <3>5
  <2>11. L \subseteq U
    BY <2>3, <2>4 DEF Late
  <2>12. A \subseteq RC \union RD
    <3> SUFFICES ASSUME NEW h \in A PROVE h \in RC \union RD
        OBVIOUS
    <3>1. PICK t \in Taps, n \in 1..MaxAttempts :
            h = <<t, n>> /\ request[t].key = k /\ n <= hits[t] /\ n > 1
      <4>1. PICK T \in SUBSET Taps : T = {t \in Taps : request[t].key = k}
        OBVIOUS
      <4>2. h \in Repeats(T, hits)
        BY <2>7, <4>1 DEF Again
      <4>3. \E t \in T : \E n \in 1..MaxAttempts :
              h = <<t, n>> /\ n <= hits[t] /\ n > 1
        BY <4>2, RepeatsAre
      <4> QED BY <4>1, <4>3
    <3>2. jobStatus[t] # "idle"
      BY <3>1, CountsAssumption DEF IInv, Idle
    <3>3. request[t].op \in {"finish", "delete"}
      BY <3>2, RequestType DEF IInv
    <3>4. CASE request[t].op = "finish"
      <4>1. t \in Confirmations(k) /\ Confirmations(k) \in SUBSET Taps
        BY <3>1, <3>4 DEF Confirmations
      <4> QED BY <2>8, <3>1, <4>1, RepeatsAre
    <3>5. CASE request[t].op = "delete"
      <4>1. t \in Deletions(k) /\ Deletions(k) \in SUBSET Taps
        BY <3>1, <3>5 DEF Deletions
      <4> QED BY <2>9, <3>1, <4>1, RepeatsAre
    <3> QED BY <3>3, <3>4, <3>5
  <2>13. Cardinality(H) + Cardinality(RC) = finished[k]
    BY <2>1, <2>8, HitsSplit
  <2>14. Cardinality(M) <= Cardinality(A) + Cardinality(L)
    BY <2>4, <2>5, <2>7 DEF IInv, Backed
  <2>15. finished[k] \in Nat
    BY DEF IInv, Types, BoardTypes
  <2>16. Cardinality(P) <= finished[k] + Cardinality(U) + Cardinality(RD)
    <3> HIDE <2>1, <2>2, <2>3, <2>4, <2>5, <2>7, <2>8, <2>9
    <3>1. Cardinality(P) <= Cardinality(H) + Cardinality(M) + Cardinality(N)
      <4>1. /\ IsFiniteSet(H) /\ IsFiniteSet(M) /\ IsFiniteSet(N)
            /\ IsFiniteSet(M \union N) /\ IsFiniteSet(H \union (M \union N))
        BY Finite
      <4>2. Cardinality(P) <= Cardinality(H \union (M \union N))
        BY <2>10, <4>1, FS_Subset
      <4>3. Cardinality(H \union (M \union N)) =
              Cardinality(H) + Cardinality(M \union N) - Cardinality(H \cap (M \union N))
        BY <4>1, FS_Union
      <4>4. Cardinality(M \union N) =
              Cardinality(M) + Cardinality(N) - Cardinality(M \cap N)
        BY <4>1, FS_Union
      <4>5. /\ Cardinality(P) \in Nat /\ Cardinality(H) \in Nat /\ Cardinality(M) \in Nat
            /\ Cardinality(N) \in Nat /\ Cardinality(M \cap N) \in Nat
            /\ Cardinality(H \cap (M \union N)) \in Nat
        BY Finite
      <4> QED BY <4>2, <4>3, <4>4, <4>5
    <3>2. Cardinality(U) = Cardinality(L) + Cardinality(N)
      <4>1. U = L \union N /\ L \cap N = {}
        BY <2>6, <2>11
      <4>2. Cardinality(L \union N) =
              Cardinality(L) + Cardinality(N) - Cardinality(L \cap N)
        BY Finite, FS_Union
      <4>3. Cardinality(L \cap N) = 0
        BY <4>1, FS_EmptySet
      <4>4. Cardinality(L) \in Nat /\ Cardinality(N) \in Nat
        BY Finite
      <4> QED BY <4>1, <4>2, <4>3, <4>4
    <3>3. Cardinality(A) <= Cardinality(RC) + Cardinality(RD)
      <4>1. IsFiniteSet(RC) /\ IsFiniteSet(RD) /\ IsFiniteSet(RC \union RD)
        BY Finite
      <4>2. Cardinality(A) <= Cardinality(RC \union RD)
        BY <2>12, <4>1, FS_Subset
      <4>3. Cardinality(RC \union RD) =
              Cardinality(RC) + Cardinality(RD) - Cardinality(RC \cap RD)
        BY <4>1, FS_Union
      <4>4. /\ Cardinality(A) \in Nat /\ Cardinality(RC) \in Nat
            /\ Cardinality(RD) \in Nat /\ Cardinality(RC \cap RD) \in Nat
        BY Finite
      <4> QED BY <4>2, <4>3, <4>4
    <3>4. /\ Cardinality(P) \in Nat /\ Cardinality(H) \in Nat /\ Cardinality(M) \in Nat
          /\ Cardinality(N) \in Nat /\ Cardinality(L) \in Nat /\ Cardinality(A) \in Nat
          /\ Cardinality(RC) \in Nat /\ Cardinality(RD) \in Nat /\ Cardinality(U) \in Nat
      BY Finite
    <3> QED BY <2>13, <2>14, <2>15, <3>1, <3>2, <3>3, <3>4
  <2>17. /\ Cardinality(Times(Confirmations(k), applied)) =
              Cardinality(P) + Cardinality(Repeats(Confirmations(k), applied))
         /\ Cardinality(Repeats(Confirmations(k), applied)) \in Nat
    <3>1. Confirmations(k) \in SUBSET Taps /\ applied \in [Taps -> 0..MaxAttempts]
      BY DEF Confirmations, IInv, Types, AccountTypes
    <3> QED BY <2>2, <3>1, TimesSplit, RepeatsAre, Finite
  <2>18. /\ Cardinality(P) \in Nat /\ Cardinality(U) \in Nat /\ Cardinality(RD) \in Nat
    BY Finite
  <2> QED BY <2>3, <2>9, <2>15, <2>16, <2>17, <2>18
<1> QED BY <1>1, Invariance, PTL

\* A handler that threw has no call under way.
Settled ==
  \A t \in Taps : stage[t] = "threw" =>
    /\ jobStatus[t] \in {"ok", "failed"}
    /\ payStatus[t] # "pending"

\* Every step leaves the calls of a handler that threw alone.
LEMMA SettledNext ==
  ASSUME Types, PaysAfterwards, Settled, [Next]_vars
  PROVE  Settled'
<1>1. ASSUME UNCHANGED <<stage, jobStatus, payStatus>> PROVE Settled'
  BY <1>1 DEF Settled
<1>2. ASSUME NEW d \in Devices,
             \/ Snapshot(d) \/ TapNo(d)
             \/ \E kind \in {"confirm", "delete"}, k \in Keys : ShowDialog(d, kind, k)
      PROVE  UNCHANGED <<stage, jobStatus, payStatus>>
  BY <1>2 DEF Snapshot, TapNo, ShowDialog, board, account
<1>3. ASSUME NEW d \in Devices, Crash(d) PROVE Settled'
  BY <1>3 DEF Crash, Types, TypeOK, Settled, board, account
<1>4. ASSUME NEW d \in Devices, NEW t \in On(d), TapYes(d, t) PROVE Settled'
  BY <1>4 DEF TapYes, Jobs!Begin, Types, TypeOK, BoardTypes, Settled, On, account
<1>5. ASSUME NEW t \in Taps, AfterDelete(t) \/ AfterPay(t) PROVE Settled'
  BY <1>5 DEF AfterDelete, AfterPay, EndHandler, Types, TypeOK, Settled, board, account
<1>6. ASSUME NEW t \in Taps, HandlerThrows(t) PROVE Settled'
  <2>1. /\ stage' = [stage EXCEPT ![t] = "threw"]
        /\ UNCHANGED <<request, jobStatus, payStatus>>
    BY <1>6 DEF HandlerThrows, CallThrows, PopThrows, Throw, board, account
  <2>2. jobStatus[t] \in {"ok", "failed"} /\ payStatus[t] # "pending"
    BY <1>6 DEF HandlerThrows, CallThrows, PopThrows, InHandler, Completed, PaysAfterwards
  <2> QED BY <2>1, <2>2 DEF Types, TypeOK, Settled
<1>7. ASSUME NEW t \in Taps, AfterFinish(t) PROVE Settled'
  BY <1>7 DEF AfterFinish, Purse!Begin, Types, TypeOK, AccountTypes, Settled, board
<1>8. ASSUME NEW t \in Taps, JobStep(t) PROVE Settled'
  <2>1. /\ jobStatus[t] = "pending"
        /\ \A u \in Taps \ {t} : jobStatus'[u] = jobStatus[u]
    BY <1>8 DEF JobStep, Jobs!Succeed, Jobs!Miss, Jobs!ChangeUnseen, Jobs!Change,
                Jobs!Fail, Types, BoardTypes
  <2>2. UNCHANGED <<stage, payStatus>>
    BY <1>8 DEF JobStep, account, page
  <2> QED BY <2>1, <2>2 DEF Settled
<1>9. ASSUME NEW t \in Taps, PayStep(t) PROVE Settled'
  <2>1. /\ payStatus[t] = "pending" /\ UNCHANGED <<stage, jobStatus>>
        /\ \A u \in Taps \ {t} : payStatus'[u] = payStatus[u]
    BY <1>9, PaySteps DEF board, page, Types, AccountTypes
  <2> QED BY <2>1 DEF Settled
<1>10. ASSUME UNCHANGED vars PROVE UNCHANGED <<stage, jobStatus, payStatus>>
  BY <1>10 DEF vars, board, account, page
<1> QED BY <1>1, <1>2, <1>3, <1>4, <1>5, <1>6, <1>7, <1>8, <1>9, <1>10
    DEF Next, HandlerStep

\* Every step that ends a handler takes the overlay down, unless it throws
\* before its calls have returned.
LEMMA SpinnerNext ==
  ASSUME Types, Idle, PaysAfterwards, Settled, SpinnerHasReason, [Next]_vars
  PROVE  SpinnerHasReason'
<1> USE TapsAssumption DEF InHandler
<1> DEFINE Early(t) == stage[t] = "threw" /\ ~Completed(t)
<1>1. ASSUME UNCHANGED <<spinner, stage>>,
             \A t \in Taps : Early(t) => Early(t)'
      PROVE  SpinnerHasReason'
  BY <1>1 DEF SpinnerHasReason, On
<1>2. ASSUME UNCHANGED <<stage, request, jobStatus, payStatus>>
      PROVE  \A t \in Taps : Early(t) => Early(t)'
  BY <1>2 DEF Completed
<1>3. ASSUME NEW d \in Devices,
             \/ Snapshot(d) \/ TapNo(d)
             \/ \E kind \in {"confirm", "delete"}, k \in Keys : ShowDialog(d, kind, k)
      PROVE  UNCHANGED <<spinner, stage, request, jobStatus, payStatus>>
  BY <1>3 DEF Snapshot, TapNo, ShowDialog, board, account
<1>4. ASSUME NEW d \in Devices, Crash(d) PROVE SpinnerHasReason'
  <2>1. /\ UNCHANGED <<request, jobStatus, payStatus>>
        /\ spinner' = [spinner EXCEPT ![d] = FALSE]
        /\ \A t \in Taps \ On(d) : stage'[t] = stage[t]
    BY <1>4 DEF Crash, board, account
  <2>2. \A e \in Devices \ {d} : spinner'[e] = spinner[e] /\ On(e) \cap On(d) = {}
    BY <2>1 DEF Types, TypeOK, On
  <2>3. ~spinner'[d]
    BY <2>1 DEF Types, TypeOK
  <2> QED BY <2>1, <2>2, <2>3 DEF SpinnerHasReason, On, Completed
<1>5. ASSUME NEW d \in Devices, NEW t \in On(d), TapYes(d, t) PROVE SpinnerHasReason'
  <2>1. /\ t \in Taps /\ stage[t] = "none" /\ stage'[t] = "job"
        /\ \A u \in Taps \ {t} : /\ stage'[u] = stage[u] /\ request'[u] = request[u]
                                 /\ jobStatus'[u] = jobStatus[u]
        /\ payStatus' = payStatus
        /\ \A e \in Devices \ {d} : spinner'[e] = spinner[e]
    BY <1>5 DEF TapYes, Jobs!Begin, Types, TypeOK, BoardTypes, On, account
  <2> QED BY <2>1 DEF SpinnerHasReason, On, Completed
<1>6. ASSUME NEW t \in Taps, spinner' = [spinner EXCEPT ![t[1]] = FALSE],
             \A u \in Taps \ {t} : stage'[u] = stage[u],
             UNCHANGED <<request, jobStatus, payStatus>>
      PROVE  SpinnerHasReason'
  <2>1. ~spinner'[t[1]] /\ \A e \in Devices \ {t[1]} : spinner'[e] = spinner[e]
    BY <1>6 DEF Types, TypeOK
  <2> QED BY <1>6, <2>1 DEF SpinnerHasReason, On, Completed
<1>7. ASSUME NEW t \in Taps, AfterDelete(t) \/ AfterPay(t) \/ PopThrows(t)
      PROVE  SpinnerHasReason'
  <2>1. /\ spinner' = [spinner EXCEPT ![t[1]] = FALSE]
        /\ \A u \in Taps \ {t} : stage'[u] = stage[u]
        /\ UNCHANGED <<request, jobStatus, payStatus>>
    BY <1>7 DEF AfterDelete, AfterPay, PopThrows, EndHandler, Throw, Types, TypeOK,
                board, account
  <2> QED BY <1>6, <2>1
<1>8. ASSUME NEW t \in Taps, CallThrows(t) PROVE SpinnerHasReason'
  <2>1. /\ UNCHANGED <<spinner, request, jobStatus, payStatus>>
        /\ stage'[t] = "threw" /\ \A u \in Taps \ {t} : stage'[u] = stage[u]
    BY <1>8 DEF CallThrows, Throw, Types, TypeOK, board, account
  <2>2. ~Completed(t)
    BY <1>8 DEF CallThrows, Completed, PaysAfterwards
  <2> QED BY <2>1, <2>2 DEF SpinnerHasReason, On, Completed
<1>9. ASSUME NEW t \in Taps, AfterFinish(t) PROVE SpinnerHasReason'
  <2>1. /\ UNCHANGED <<spinner, request, jobStatus>>
        /\ stage[t] = "job" /\ stage'[t] = "pay"
        /\ \A u \in Taps \ {t} : stage'[u] = stage[u] /\ payStatus'[u] = payStatus[u]
    BY <1>9 DEF AfterFinish, Purse!Begin, Types, TypeOK, AccountTypes, board
  <2> QED BY <2>1 DEF SpinnerHasReason, On, Completed
<1>10. ASSUME NEW t \in Taps, JobStep(t) PROVE SpinnerHasReason'
  <2>1. /\ jobStatus[t] = "pending" /\ request' = request
        /\ \A u \in Taps \ {t} : jobStatus'[u] = jobStatus[u]
    BY <1>10 DEF JobStep, Jobs!Succeed, Jobs!Miss, Jobs!ChangeUnseen, Jobs!Change,
                 Jobs!Fail, Types, BoardTypes
  <2>2. UNCHANGED <<spinner, stage, payStatus>>
    BY <1>10 DEF JobStep, account, page
  <2> QED BY <1>1, <2>1, <2>2 DEF Settled, Completed
<1>11. ASSUME NEW t \in Taps, PayStep(t) PROVE SpinnerHasReason'
  <2>1. /\ payStatus[t] = "pending" /\ UNCHANGED <<spinner, stage, request, jobStatus>>
        /\ \A u \in Taps \ {t} : payStatus'[u] = payStatus[u]
    BY <1>11, PaySteps DEF board, page, Types, AccountTypes
  <2> QED BY <1>1, <2>1 DEF Settled, Completed
<1>12. ASSUME UNCHANGED vars
       PROVE  UNCHANGED <<spinner, stage, request, jobStatus, payStatus>>
  BY <1>12 DEF vars, board, account, page
<1> QED BY <1>1, <1>2, <1>3, <1>4, <1>5, <1>7, <1>8, <1>9, <1>10, <1>11, <1>12
    DEF Next, HandlerStep, HandlerThrows

\* Where the overlay is up and no handler runs, one of them threw before it came
\* to EasyLoading.dismiss (work_detail_page.dart:393-405, 495-515).
THEOREM SpinnerExplained == Spec => []SpinnerHasReason
<1>1. Init => Settled /\ SpinnerHasReason
  BY DEF Init, Settled, SpinnerHasReason
<1>2. IInv /\ Settled /\ SpinnerHasReason /\ [Next]_vars => (Settled /\ SpinnerHasReason)'
  BY SettledNext, SpinnerNext DEF IInv
<1> QED BY <1>1, <1>2, Invariance, PTL DEF Spec

=============================================================================
