---------------------------- MODULE WorkAddProofs ----------------------------
(* The safety properties of WorkAdd, for every number of taps and dates, whether
   calls fail and replies are lost or not. *)
EXTENDS WorkAdd, FiniteSetTheorems, TLAPS

Statuses == {"idle", "pending", "ok", "failed"}

\* The types of the calls and of the loops' own variables.
LoopTypes ==
  /\ jobStatus \in [Calls -> Statuses]
  /\ hits \in [Calls -> Nat]
  /\ batch \in [Taps -> Batches \union {<<>>}]
  /\ at \in [Taps -> 0..MaxDates]

\* The loop of a tap makes its calls one after the other, and goes on to the
\* next date only when the call has returned.
InOrder ==
  \A t \in Taps, n \in 1..MaxDates :
    /\ n > at[t] => hits[<<t, n>>] = 0 /\ jobStatus[<<t, n>>] = "idle"
    /\ n < at[t] => jobStatus[<<t, n>>] = "ok"
    /\ jobStatus[<<t, n>>] = "ok" => hits[<<t, n>>] >= 1

\* "done" is told after the last date, and by then the form is gone.
DoneLast ==
  \A t \in Taps :
    /\ "done" \in told[t] => stage[t] = "end" /\ routes < 2
    /\ "done" \in told[t] => at[t] = Len(batch[t]) /\ jobStatus[Call(t)] = "ok"
    /\ stage[t] = "end" /\ "done" \notin told[t] => told[t] = {"failed"}

\* A tap that is not early finds the earlier ones ended, and the form still
\* there.
Succession ==
  \A t, u \in Taps :
    t < u /\ stage[u] \in {"running", "end"} /\ u \notin early
      => stage[t] \in {"refused", "end"} /\ "done" \notin told[t]

\* A batch is a list of dates, of a length the bound allows.
LEMMA BatchType ==
  ASSUME NEW b \in Batches
  PROVE  b \in Seq(Keys) /\ Len(b) \in 1..MaxDates
<1>1. PICK n \in 1..MaxDates : b \in [1..n -> Keys]
  BY DEF Batches
<1> QED BY <1>1, MaxDatesAssumption

\* The call a running loop waits for is one of the calls.
LEMMA CallType ==
  ASSUME TypeOK, NEW t \in Taps, stage[t] \in {"running", "end"}
  PROVE  /\ batch[t] \in Batches /\ Len(batch[t]) \in 1..MaxDates
         /\ at[t] \in 1..Len(batch[t]) /\ at[t] \in 1..MaxDates /\ Call(t) \in Calls
<1>1. batch[t] \in Batches /\ at[t] \in 1..Len(batch[t])
  BY DEF TypeOK
<1>2. Len(batch[t]) \in 1..MaxDates
  BY <1>1, BatchType
<1>3. at[t] \in 1..MaxDates
  BY <1>1, <1>2, MaxDatesAssumption
<1> QED BY <1>1, <1>2, <1>3 DEF Call, Calls

\* What the transaction of createJob may do.
LEMMA JobSteps ==
  ASSUME LoopTypes, NEW t \in Taps, Call(t) \in Calls, JobStep(t)
  PROVE  /\ UNCHANGED <<form, run>> /\ Running(t)
         /\ jobStatus[Call(t)] = "pending"
         /\ jobStatus' \in {jobStatus, [jobStatus EXCEPT ![Call(t)] = "ok"],
                            [jobStatus EXCEPT ![Call(t)] = "failed"]}
         /\ \/ hits' = hits /\ jobStatus' = [jobStatus EXCEPT ![Call(t)] = "failed"]
            \/ hits' = [hits EXCEPT ![Call(t)] = @ + 1]
<1>1. CASE Jobs!Succeed(Call(t))
  BY <1>1 DEF JobStep, Jobs!Succeed, Jobs!Change
<1>2. CASE Jobs!ChangeUnseen(Call(t))
  BY <1>2 DEF JobStep, Jobs!ChangeUnseen, Jobs!Change
<1>3. CASE Jobs!Fail(Call(t))
  BY <1>3 DEF JobStep, Jobs!Fail
<1> QED BY <1>1, <1>2, <1>3 DEF JobStep

\* Init makes every state component well typed, and nothing has been told.
LEMMA InitForm == Init => TypeOK /\ LoopTypes /\ InOrder /\ DoneLast /\ Succession
<1> SUFFICES ASSUME Init PROVE TypeOK /\ LoopTypes /\ InOrder /\ DoneLast /\ Succession
    OBVIOUS
<1> USE MaxDatesAssumption
<1>1. TypeOK
  <2>1. text \in Texts /\ dates \in Batches /\ routes \in 0..2
    BY DEF Init, Texts
  <2>2. \A t \in Taps : stage[t] = "none" /\ batch[t] = <<>> /\ at[t] = 0
    BY DEF Init
  <2> QED BY <2>1, <2>2 DEF Init, TypeOK
<1>2. LoopTypes
  BY DEF Init, LoopTypes, Jobs!Init, Statuses
<1>3. InOrder
  BY DEF Init, InOrder, Jobs!Init, Calls
<1>4. DoneLast
  BY DEF Init, DoneLast
<1>5. Succession
  BY DEF Init, Succession
<1> QED BY <1>1, <1>2, <1>3, <1>4, <1>5

\* Every step keeps the types.
LEMMA FormTypesNext ==
  ASSUME TypeOK, LoopTypes, [Next]_vars
  PROVE  TypeOK' /\ LoopTypes'
<1> USE MaxDatesAssumption
<1>1. ASSUME ChildrenArrive PROVE TypeOK' /\ LoopTypes'
  BY <1>1 DEF ChildrenArrive, board, run, TypeOK, LoopTypes
<1>2. ASSUME Leave PROVE TypeOK' /\ LoopTypes'
  BY <1>2 DEF Leave, board, form, TypeOK, LoopTypes
<1>3. ASSUME NEW x \in Texts, EnterAmount(x) PROVE TypeOK' /\ LoopTypes'
  BY <1>3 DEF EnterAmount, board, run, TypeOK, LoopTypes
<1>4. ASSUME NEW b \in Batches, PickDates(b) PROVE TypeOK' /\ LoopTypes'
  BY <1>4 DEF PickDates, board, run, TypeOK, LoopTypes
<1>5. ASSUME NEW t \in Taps, TapRefused(t) PROVE TypeOK' /\ LoopTypes'
  BY <1>5 DEF TapRefused, MayTap, board, form, TypeOK, LoopTypes
<1>6. ASSUME NEW t \in Taps, TapAdd(t) PROVE TypeOK' /\ LoopTypes'
  <2>1. dates \in Batches /\ Len(dates) \in 1..MaxDates
    BY BatchType DEF TypeOK
  <2>2. <<t, 1>> \in Calls
    BY DEF Calls
  <2>3. LoopTypes'
    BY <1>6, <2>1, <2>2 DEF TapAdd, Jobs!Begin, LoopTypes, Statuses
  <2>4. \A u \in Taps : IF stage'[u] \in {"running", "end"}
                        THEN batch'[u] \in Batches /\ at'[u] \in 1..Len(batch'[u])
                        ELSE batch'[u] = <<>> /\ at'[u] = 0
    BY <1>6, <2>1 DEF TapAdd, TypeOK, LoopTypes
  <2>5. /\ stage' \in [Taps -> {"none", "refused", "running", "end"}]
        /\ early' \subseteq Taps /\ spinner' \in BOOLEAN
        /\ UNCHANGED <<form, routes, told>>
    BY <1>6 DEF TapAdd, TypeOK
  <2> QED BY <2>3, <2>4, <2>5 DEF form, TypeOK
<1>7. ASSUME NEW t \in Taps, JobStep(t) PROVE TypeOK' /\ LoopTypes'
  <2>1. Running(t)
    BY <1>7 DEF JobStep
  <2>2. Call(t) \in Calls
    BY <2>1, CallType DEF Running
  <2>3. UNCHANGED <<form, run>>
    BY <1>7, <2>2, JobSteps
  <2>4. jobStatus' \in [Calls -> Statuses] /\ hits' \in [Calls -> Nat]
    BY <1>7, <2>2, JobSteps DEF LoopTypes, Statuses
  <2> QED BY <2>3, <2>4 DEF form, run, TypeOK, LoopTypes
<1>8. ASSUME NEW t \in Taps, Continue(t) PROVE TypeOK' /\ LoopTypes'
  <2>1. /\ batch[t] \in Batches /\ Len(batch[t]) \in 1..MaxDates /\ at[t] \in 1..Len(batch[t])
        /\ stage[t] = "running" /\ at[t] < Len(batch[t])
    BY <1>8, CallType DEF Continue, Running
  <2>2. at[t] + 1 \in 1..Len(batch[t]) /\ at[t] + 1 \in 0..MaxDates
    BY <2>1
  <2>3. LoopTypes'
    BY <1>8, <2>2 DEF Continue, Jobs!Begin, LoopTypes, Statuses
  <2>4. \A u \in Taps : IF stage'[u] \in {"running", "end"}
                        THEN batch'[u] \in Batches /\ at'[u] \in 1..Len(batch'[u])
                        ELSE batch'[u] = <<>> /\ at'[u] = 0
    BY <1>8, <2>1, <2>2 DEF Continue, TypeOK, LoopTypes
  <2>5. UNCHANGED <<form, routes, stage, told, spinner, early>>
    BY <1>8 DEF Continue
  <2> QED BY <2>3, <2>4, <2>5 DEF form, TypeOK
<1>9. ASSUME NEW t \in Taps, Finish(t) \/ CatchError(t) PROVE TypeOK' /\ LoopTypes'
  <2>1. /\ UNCHANGED <<board, form, batch, at, early>> /\ stage[t] = "running"
        /\ stage' = [stage EXCEPT ![t] = "end"] /\ spinner' \in BOOLEAN
    BY <1>9 DEF Finish, CatchError, Running
  <2>2. LoopTypes'
    BY <2>1 DEF board, LoopTypes
  <2>3. routes' \in 0..2
    BY <1>9 DEF Finish, CatchError, TypeOK
  <2>4. told' \in [Taps -> SUBSET {"refused", "done", "failed"}]
    BY <1>9 DEF Finish, CatchError, TypeOK
  <2>5. /\ stage' \in [Taps -> {"none", "refused", "running", "end"}]
        /\ \A u \in Taps : stage'[u] \in {"running", "end"} <=> stage[u] \in {"running", "end"}
    BY <2>1 DEF TypeOK
  <2> QED BY <2>1, <2>2, <2>3, <2>4, <2>5 DEF form, TypeOK
<1>10. ASSUME UNCHANGED vars PROVE TypeOK' /\ LoopTypes'
  BY <1>10 DEF vars, board, form, run, TypeOK, LoopTypes
<1> QED BY <1>1, <1>2, <1>3, <1>4, <1>5, <1>6, <1>7, <1>8, <1>9, <1>10
        DEF Next, LoopStep

\* Every step keeps the calls of a loop in order.
LEMMA InOrderNext ==
  ASSUME TypeOK, LoopTypes, InOrder, [Next]_vars
  PROVE  InOrder'
<1> USE MaxDatesAssumption
<1>1. ASSUME UNCHANGED <<board, at>> PROVE InOrder'
  BY <1>1 DEF board, InOrder
<1>2. ASSUME NEW t \in Taps, NEW m \in 1..MaxDates, at[t] + 1 = m,
             m > 1 => jobStatus[<<t, at[t]>>] = "ok",
             at' = [at EXCEPT ![t] = m], hits' = hits,
             jobStatus' = [jobStatus EXCEPT ![<<t, m>>] = "pending"]
      PROVE  InOrder'
  <2>1. /\ \A u \in Taps \ {t} : at'[u] = at[u]
        /\ at'[t] = m /\ at[t] \in Nat
    BY <1>2 DEF LoopTypes
  <2>2. \A u \in Taps, n \in 1..MaxDates : <<u, n>> \in Calls
    BY DEF Calls
  <2>3. /\ \A u \in Taps, n \in 1..MaxDates :
             u # t \/ n # m => jobStatus'[<<u, n>>] = jobStatus[<<u, n>>]
        /\ jobStatus'[<<t, m>>] = "pending"
    BY <1>2, <2>2 DEF LoopTypes
  <2> SUFFICES ASSUME NEW u \in Taps, NEW n \in 1..MaxDates
               PROVE  /\ n > at'[u] => hits'[<<u, n>>] = 0 /\ jobStatus'[<<u, n>>] = "idle"
                      /\ n < at'[u] => jobStatus'[<<u, n>>] = "ok"
                      /\ jobStatus'[<<u, n>>] = "ok" => hits'[<<u, n>>] >= 1
      BY DEF InOrder
  <2>4. CASE u # t
    BY <1>2, <2>1, <2>3, <2>4 DEF InOrder
  <2>5. CASE u = t /\ n # m
    <3>1. n < m => n < at[t] \/ (n = at[t] /\ m > 1)
      BY <1>2, <2>1
    <3>2. n > m => n > at[t]
      BY <1>2, <2>1
    <3> QED BY <1>2, <2>1, <2>3, <2>5, <3>1, <3>2 DEF InOrder
  <2>6. CASE u = t /\ n = m
    BY <2>1, <2>3, <2>6
  <2> QED BY <2>4, <2>5, <2>6
<1>3. ASSUME NEW t \in Taps, TapAdd(t) PROVE InOrder'
  <2>1. at[t] = 0
    BY <1>3 DEF TapAdd, MayTap, TypeOK
  <2>2. PICK m \in 1..MaxDates : m = 1
    OBVIOUS
  <2>3. /\ at' = [at EXCEPT ![t] = m] /\ hits' = hits
        /\ jobStatus' = [jobStatus EXCEPT ![<<t, m>>] = "pending"]
    BY <1>3, <2>2 DEF TapAdd, Jobs!Begin
  <2>4. at[t] + 1 = m /\ ~(m > 1)
    BY <2>1, <2>2
  <2> QED BY <1>2, <2>3, <2>4
<1>4. ASSUME NEW t \in Taps, Continue(t) PROVE InOrder'
  <2>1. /\ at[t] \in 1..Len(batch[t]) /\ Len(batch[t]) \in 1..MaxDates
        /\ at[t] < Len(batch[t]) /\ jobStatus[<<t, at[t]>>] = "ok"
    BY <1>4, CallType DEF Continue, Running, Call
  <2>2. at[t] + 1 \in 1..MaxDates
    BY <2>1
  <2>3. PICK m \in 1..MaxDates : m = at[t] + 1
    BY <2>2
  <2>4. /\ at' = [at EXCEPT ![t] = m] /\ hits' = hits
        /\ jobStatus' = [jobStatus EXCEPT ![<<t, m>>] = "pending"]
    BY <1>4, <2>3 DEF Continue, Jobs!Begin
  <2> QED BY <1>2, <2>1, <2>3, <2>4
<1>5. ASSUME NEW t \in Taps, JobStep(t) PROVE InOrder'
  <2>1. stage[t] = "running"
    BY <1>5 DEF JobStep, Running
  <2>2. Call(t) \in Calls /\ at[t] \in 1..MaxDates
    BY <2>1, CallType
  <2>3. PICK c \in Calls : c = Call(t)
    BY <2>2
  <2>4. /\ jobStatus[c] = "pending" /\ at' = at
        /\ \A b \in Calls \ {c} : jobStatus'[b] = jobStatus[b] /\ hits'[b] = hits[b]
        /\ jobStatus'[c] = "ok" => hits'[c] >= 1
    BY <1>5, <2>2, <2>3, JobSteps DEF run, LoopTypes
  <2>5. ASSUME NEW u \in Taps, NEW n \in 1..MaxDates
        PROVE  /\ n > at'[u] => hits'[<<u, n>>] = 0 /\ jobStatus'[<<u, n>>] = "idle"
               /\ n < at'[u] => jobStatus'[<<u, n>>] = "ok"
               /\ jobStatus'[<<u, n>>] = "ok" => hits'[<<u, n>>] >= 1
    <3>1. PICK b \in Calls : b = <<u, n>>
      BY DEF Calls
    <3>2. CASE b # c
      BY <2>4, <3>1, <3>2 DEF InOrder
    <3>3. CASE b = c
      <4>1. u = t /\ n = at[t]
        BY <2>3, <3>1, <3>3 DEF Call
      <4> QED BY <2>2, <2>4, <3>1, <3>3, <4>1
    <3> QED BY <3>2, <3>3
  <2> QED BY <2>5 DEF InOrder
<1>6. ASSUME NEW t \in Taps, TapRefused(t) \/ Finish(t) \/ CatchError(t)
      PROVE  UNCHANGED <<board, at>>
  BY <1>6 DEF TapRefused, Finish, CatchError
<1>7. ASSUME \/ ChildrenArrive \/ Leave
             \/ \E x \in Texts : EnterAmount(x)
             \/ \E b \in Batches : PickDates(b)
      PROVE  UNCHANGED <<board, at>>
  BY <1>7 DEF ChildrenArrive, Leave, EnterAmount, PickDates, run
<1>8. ASSUME UNCHANGED vars PROVE UNCHANGED <<board, at>>
  BY <1>8 DEF vars, run
<1> QED BY <1>1, <1>3, <1>4, <1>5, <1>6, <1>7, <1>8 DEF Next, LoopStep

\* Every step keeps what "done" says, and which taps follow which.
LEMMA DoneLastNext ==
  ASSUME TypeOK, LoopTypes, DoneLast, Succession, [Next]_vars
  PROVE  DoneLast' /\ Succession'
<1> USE MaxDatesAssumption
<1>1. ASSUME UNCHANGED <<stage, told, batch, at, jobStatus, early>>,
             routes' \in 0..2, routes' <= routes
      PROVE  DoneLast' /\ Succession'
  <2>1. DoneLast'
    BY <1>1 DEF TypeOK, DoneLast, Call
  <2>2. Succession'
    BY <1>1 DEF Succession
  <2> QED BY <2>1, <2>2
<1>2. ASSUME \/ ChildrenArrive \/ Leave
             \/ \E x \in Texts : EnterAmount(x)
             \/ \E b \in Batches : PickDates(b)
      PROVE  DoneLast' /\ Succession'
  <2>1. /\ UNCHANGED <<stage, told, batch, at, jobStatus, early>>
        /\ routes' \in 0..2 /\ routes' <= routes
    BY <1>2 DEF ChildrenArrive, Leave, EnterAmount, PickDates, run, board, TypeOK
  <2> QED BY <1>1, <2>1
<1>3. ASSUME NEW t \in Taps, TapRefused(t) PROVE DoneLast' /\ Succession'
  <2>1. /\ UNCHANGED <<routes, batch, at, jobStatus, early>> /\ stage[t] = "none"
        /\ stage' = [stage EXCEPT ![t] = "refused"] /\ told' = [told EXCEPT ![t] = {"refused"}]
    BY <1>3 DEF TapRefused, MayTap, board
  <2>2. /\ \A u \in Taps \ {t} : stage'[u] = stage[u] /\ told'[u] = told[u]
        /\ stage'[t] = "refused" /\ "done" \notin told'[t]
    BY <2>1 DEF TypeOK
  <2>3. DoneLast'
    BY <2>1, <2>2 DEF DoneLast, Call
  <2>4. Succession'
    BY <2>1, <2>2 DEF Succession
  <2> QED BY <2>3, <2>4
<1>4. ASSUME NEW t \in Taps, TapAdd(t) PROVE DoneLast' /\ Succession'
  <2>1. /\ told' = told /\ routes' = routes /\ routes = 2 /\ stage[t] = "none"
        /\ \A u \in Taps \ {t} : stage'[u] = stage[u] /\ batch'[u] = batch[u] /\ at'[u] = at[u]
        /\ stage'[t] = "running"
        /\ \A u \in Taps : u < t => stage[u] # "none"
        /\ early \subseteq early'
    BY <1>4 DEF TapAdd, MayTap, TypeOK, LoopTypes
  <2>2. \A u \in Taps : "done" \notin told[u]
    BY <2>1 DEF DoneLast
  <2>3. DoneLast'
    BY <2>1, <2>2 DEF DoneLast
  <2>4. t \notin early' => \A u \in Taps : stage[u] # "running"
    BY <1>4 DEF TapAdd, Running
  <2>5. ~(t < t)
    BY TapsAssumption
  <2>6. ASSUME NEW u \in Taps, u < t, t \notin early'
        PROVE  stage'[u] \in {"refused", "end"} /\ "done" \notin told'[u]
    <3>1. stage[u] # "none" /\ stage[u] # "running" /\ u # t
      BY <2>1, <2>4, <2>5, <2>6
    <3> QED BY <2>1, <2>2, <3>1 DEF TypeOK
  <2>7. ASSUME NEW u \in Taps, NEW v \in Taps \ {t}, u < v,
               stage'[v] \in {"running", "end"}, v \notin early'
        PROVE  stage'[u] \in {"refused", "end"} /\ "done" \notin told'[u]
    <3>1. stage[u] \in {"refused", "end"} /\ "done" \notin told[u]
      BY <2>1, <2>7 DEF Succession
    <3> QED BY <2>1, <3>1
  <2> QED BY <2>3, <2>6, <2>7 DEF Succession
<1>5. ASSUME NEW t \in Taps, JobStep(t) PROVE DoneLast' /\ Succession'
  <2>1. stage[t] = "running"
    BY <1>5 DEF JobStep, Running
  <2>2. Call(t) \in Calls
    BY <2>1, CallType
  <2>3. UNCHANGED <<stage, told, batch, at, early, routes>>
    BY <1>5, <2>2, JobSteps DEF run
  <2>4. \A u \in Taps \ {t} :
          "done" \in told[u] => jobStatus'[Call(u)] = jobStatus[Call(u)]
    <3>1. PICK c \in Calls : c = Call(t)
      BY <2>2
    <3>2. jobStatus' \in {jobStatus, [jobStatus EXCEPT ![c] = "ok"],
                          [jobStatus EXCEPT ![c] = "failed"]}
      BY <1>5, <2>2, <3>1, JobSteps
    <3>3. \A u \in Taps \ {t} : Call(u) # c
      BY <3>1 DEF Call
    <3>4. \A b : b # c /\ b \in Calls => jobStatus'[b] = jobStatus[b]
      BY <3>2 DEF LoopTypes
    <3>5. \A u \in Taps : "done" \in told[u] => Call(u) \in Calls
      BY CallType DEF DoneLast
    <3> QED BY <3>3, <3>4, <3>5
  <2>5. \A u \in Taps : Call(u)' = Call(u)
    BY <2>3 DEF Call
  <2>6. DoneLast'
    BY <2>1, <2>3, <2>4, <2>5 DEF DoneLast
  <2>7. Succession'
    BY <2>3 DEF Succession
  <2> QED BY <2>6, <2>7
<1>6. ASSUME NEW t \in Taps, Continue(t) PROVE DoneLast' /\ Succession'
  <2>1. /\ UNCHANGED <<stage, told, batch, early, routes>> /\ stage[t] = "running"
        /\ at' = [at EXCEPT ![t] = at[t] + 1]
        /\ jobStatus' = [jobStatus EXCEPT ![<<t, at[t] + 1>>] = "pending"]
    BY <1>6 DEF Continue, Running, Jobs!Begin
  <2>2. \A u \in Taps \ {t} : at'[u] = at[u] /\ Call(u)' = Call(u)
    BY <2>1 DEF LoopTypes, Call
  <2>3. \A u \in Taps \ {t} : jobStatus'[Call(u)] = jobStatus[Call(u)]
    <3>1. \A u \in Taps \ {t} : Call(u) # <<t, at[t] + 1>>
      BY DEF Call
    <3> QED BY <2>1, <3>1 DEF LoopTypes
  <2>4. DoneLast'
    BY <2>1, <2>2, <2>3 DEF DoneLast
  <2>5. Succession'
    BY <2>1 DEF Succession
  <2> QED BY <2>4, <2>5
<1>7. ASSUME NEW t \in Taps, Finish(t) \/ CatchError(t) PROVE DoneLast' /\ Succession'
  <2>1. /\ UNCHANGED <<jobStatus, batch, at, early>> /\ stage[t] = "running"
        /\ \A u \in Taps \ {t} : stage'[u] = stage[u] /\ told'[u] = told[u]
        /\ stage'[t] = "end" /\ routes' \in 0..2 /\ routes' <= routes
    BY <1>7 DEF Finish, CatchError, Running, board, TypeOK
  <2>2. /\ "done" \in told'[t] =>
             at[t] = Len(batch[t]) /\ jobStatus[Call(t)] = "ok" /\ routes' < 2
        /\ "done" \notin told'[t] => told'[t] = {"failed"}
    <3>1. CASE Finish(t)
      BY <3>1 DEF Finish, TypeOK
    <3>2. CASE CatchError(t)
      BY <3>2 DEF CatchError, TypeOK
    <3> QED BY <1>7, <3>1, <3>2
  <2>3. \A u \in Taps : Call(u)' = Call(u)
    BY <2>1 DEF Call
  <2>4. DoneLast'
    <3>1. routes \in 0..2
      BY DEF TypeOK
    <3> QED BY <2>1, <2>2, <2>3, <3>1 DEF DoneLast
  <2>5. Succession'
    BY <2>1 DEF Succession
  <2> QED BY <2>4, <2>5
<1>8. ASSUME UNCHANGED vars PROVE DoneLast' /\ Succession'
  <2>1. routes' \in 0..2 /\ routes' <= routes
    BY <1>8 DEF vars, run, TypeOK
  <2> QED BY <1>1, <1>8, <2>1 DEF vars, run, board
<1> QED BY <1>2, <1>3, <1>4, <1>5, <1>6, <1>7, <1>8 DEF Next, LoopStep

\* The inductive invariant of the form for new chores.
AddInv == TypeOK /\ LoopTypes /\ InOrder /\ DoneLast /\ Succession

\* The invariant holds in every behaviour of the form.
THEOREM AddInvariance == Spec => []AddInv
<1>1. Init => AddInv
  BY InitForm DEF AddInv
<1>2. AddInv /\ [Next]_vars => AddInv'
  BY FormTypesNext, InOrderNext, DoneLastNext DEF AddInv
<1> QED BY <1>1, <1>2, PTL DEF Spec

\* The form's own state is always well typed, and a loop never leaves its dates.
THEOREM TypeCorrect == Spec => []TypeOK
<1>1. AddInv => TypeOK
  BY DEF AddInv
<1> QED BY <1>1, AddInvariance, PTL

\* For every number of dates and taps, the chores of a tap are those of its
\* first dates, and "done" is told only when all are stored
\* (work_add_page.dart:183-196).
THEOREM DoneIsAll == Spec => []DoneMeansAll
<1>1. AddInv => DoneMeansAll
  <2> SUFFICES ASSUME AddInv, NEW t \in Taps, NEW n \in 1..MaxDates
               PROVE  /\ n > at[t] => Created(t, n) = 0
                      /\ n < at[t] => Created(t, n) >= 1
                      /\ "done" \in told[t] /\ n <= Len(batch[t]) => Created(t, n) >= 1
      BY DEF DoneMeansAll
  <2>1. /\ n > at[t] => hits[<<t, n>>] = 0
        /\ n < at[t] => hits[<<t, n>>] >= 1
        /\ jobStatus[<<t, n>>] = "ok" => hits[<<t, n>>] >= 1
    BY DEF AddInv, InOrder
  <2>2. "done" \in told[t] => at[t] = Len(batch[t]) /\ jobStatus[<<t, at[t]>>] = "ok"
    BY DEF AddInv, DoneLast, Call
  <2>3. at[t] \in 0..MaxDates
    BY DEF AddInv, LoopTypes
  <2> QED BY <2>1, <2>2, <2>3, MaxDatesAssumption DEF Created
<1> QED BY <1>1, AddInvariance, PTL

\* However many taps there are, two of them store the same chore only when the
\* later one was made while the other ran, or after it had failed
\* (work_add_page.dart:176-203).
THEOREM DuplicatesExplained == Spec => []DuplicatesHaveReason
<1>1. AddInv => DuplicatesHaveReason
  <2> SUFFICES ASSUME AddInv, NEW t \in Taps, NEW u \in Taps,
                      NEW m \in 1..MaxDates, NEW n \in 1..MaxDates,
                      t < u, Created(t, m) > 0, Created(u, n) > 0
               PROVE  u \in early \/ told[t] = {"failed"}
      BY DEF DuplicatesHaveReason
  <2>1. ASSUME NEW v \in Taps, NEW k \in 1..MaxDates, Created(v, k) > 0
        PROVE  stage[v] \in {"running", "end"}
    <3>1. ~(k > at[v])
      BY <2>1 DEF AddInv, InOrder, Created
    <3>2. at[v] # 0
      BY <3>1, MaxDatesAssumption
    <3> QED BY <3>2 DEF AddInv, TypeOK
  <2>2. stage[t] \in {"running", "end"} /\ stage[u] \in {"running", "end"}
    BY <2>1
  <2>3. u \notin early => stage[t] = "end" /\ "done" \notin told[t]
    BY <2>2 DEF AddInv, Succession
  <2> QED BY <2>3 DEF AddInv, DoneLast
<1> QED BY <1>1, AddInvariance, PTL

=============================================================================
