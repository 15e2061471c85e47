---------------------------- MODULE TellerProofs -----------------------------
(* The safety properties of Teller, for every number of taps, confirmations and
   points, whether calls fail and replies are lost or not. *)
EXTENDS Teller, FiniteSetTheorems, TLAPS

Statuses == {"idle", "pending", "ok", "failed"}

\* The types Teller's properties rest on.
PayTypes ==
  /\ payStatus \in [Taps -> Statuses]
  /\ applied \in [Taps -> 0..MaxAttempts]
  /\ stage \in [Taps -> {"none", "pay", "end", "threw"}]
  /\ DOMAIN amount = Taps /\ amount = [t \in Taps |-> amount[t]]
  /\ DOMAIN from = Taps /\ from = [t \in Taps |-> from[t]]
  /\ routes \in 0..3 /\ shows \in Nat
  /\ early \subseteq Taps /\ left \subseteq Taps /\ orphans \subseteq Taps

\* A handler and its call agree, and the call has the points that were read.
Agree ==
  \A t \in Taps :
    /\ stage[t] = "none" => payStatus[t] = "idle" /\ t \notin early
    /\ stage[t] # "pay" => t \notin orphans
    /\ stage[t] = "end" => payStatus[t] = "ok"
    /\ payStatus[t] = "ok" => applied[t] >= 1
    /\ payStatus[t] = "idle" => applied[t] = 0
    /\ stage[t] \in {"pay", "end"} =>
         amount[t] = IF form = "award" THEN -Parsed(from[t]) ELSE Parsed(from[t])

\* The taps that were not early and have paid, or may still.
Payers == {t \in Taps \ early : payStatus[t] \in {"pending", "ok"}}

\* A handler that is neither early nor without its confirmation.
Owner(t) ==
  /\ stage[t] = "pay" /\ t \notin orphans /\ t \notin early
  /\ payStatus[t] # "failed"

\* There is one payer at most for each confirmation, and none yet for one that
\* is shown while nobody pays for it.
PayersBound ==
  /\ Cardinality(Payers) <= shows
  /\ routes = 3 /\ (\A t \in Taps : ~Owner(t)) => Cardinality(Payers) < shows

PayInv == PayTypes /\ Agree /\ PayersBound

\* The payers are finitely many.
LEMMA PayersFinite ==
  /\ IsFiniteSet(Payers) /\ Cardinality(Payers) \in Nat /\ Payers \subseteq Taps
<1>1. Payers \in SUBSET Taps
  BY DEF Payers
<1> QED BY <1>1, TapsAssumption, FS_Subset, FS_CardinalityType

\* What the transaction of changePoint may do.
LEMMA PaySteps ==
  ASSUME NEW t \in Taps, PayStep(t)
  PROVE  /\ UNCHANGED <<form, child, text, passed, shows>>
         /\ UNCHANGED <<routes, stage, from, orphans, spinner, early, left, amount>>
         /\ stage[t] = "pay" /\ payStatus[t] = "pending"
         /\ payStatus' \in {payStatus, [payStatus EXCEPT ![t] = "ok"],
                            [payStatus EXCEPT ![t] = "failed"]}
         /\ \/ applied' = applied /\ payStatus' = [payStatus EXCEPT ![t] = "failed"]
            \/ applied[t] < MaxAttempts /\ applied' = [applied EXCEPT ![t] = @ + 1]
<1>1. /\ UNCHANGED <<form, child, text, passed, shows>>
      /\ UNCHANGED <<routes, stage, from, orphans, spinner, early, left>>
      /\ stage[t] = "pay"
  BY DEF PayStep, input, run, Running
<1>2. CASE Purse!Succeed(t)
  BY <1>1, <1>2 DEF Purse!Succeed, Purse!Credit
<1>3. CASE Purse!CreditUnseen(t)
  BY <1>1, <1>3 DEF Purse!CreditUnseen, Purse!Credit
<1>4. CASE Purse!Fail(t)
  BY <1>1, <1>4 DEF Purse!Fail
<1> QED BY <1>2, <1>3, <1>4 DEF PayStep

\* A form that has just been opened has no payers.
LEMMA InitPay == Init => PayInv
<1> SUFFICES ASSUME Init PROVE PayInv
    OBVIOUS
<1>1. PayTypes
  BY AttemptsAssumption DEF Init, Purse!Init, PayTypes, Statuses
<1>2. Agree
  BY DEF Init, Purse!Init, Agree
<1>3. PayersBound
  <2>1. Payers = {}
    BY DEF Init, Purse!Init, Payers
  <2> QED BY <2>1, FS_EmptySet DEF PayersBound, Init
<1> QED BY <1>1, <1>2, <1>3 DEF PayInv

\* Every step keeps the types and the agreement of handlers and calls.
LEMMA AgreeNext ==
  ASSUME PayTypes, Agree, [Next]_vars
  PROVE  PayTypes' /\ Agree'
<1>1. ASSUME UNCHANGED <<payStatus, applied, amount, stage, from, early, form>>,
             orphans' \subseteq orphans \union {t \in Taps : stage[t] = "pay"},
             routes' \in 0..3, shows' \in Nat, left' \subseteq Taps
      PROVE  PayTypes' /\ Agree'
  <2>1. PayTypes'
    BY <1>1 DEF PayTypes
  <2>2. Agree'
    BY <1>1 DEF Agree
  <2> QED BY <2>1, <2>2
<1>2. ASSUME \/ ChildrenArrive \/ ShowDialog \/ ShowConfirmPage \/ TapNo
             \/ \E x \in Texts : EnterAmount(x)
      PROVE  PayTypes' /\ Agree'
  <2>1. UNCHANGED <<payStatus, applied, amount, stage, from, early, form>>
    BY <1>2 DEF ChildrenArrive, ShowDialog, ShowConfirmPage, TapNo,
                EnterAmount, account, input, run
  <2>2. /\ orphans' \subseteq orphans \union {t \in Taps : stage[t] = "pay"}
        /\ routes' \in 0..3 /\ shows' \in Nat /\ left' \subseteq Taps
    BY <1>2 DEF ChildrenArrive, ShowDialog, ShowConfirmPage, TapNo,
                EnterAmount, Pop, Running, input, run, PayTypes
  <2> QED BY <1>1, <2>1, <2>2
<1>3. ASSUME NEW t \in Taps, TapYes(t) PROVE PayTypes' /\ Agree'
  <2>1. PICK x, p :
          /\ p = IF form = "award" THEN -Parsed(x) ELSE Parsed(x)
          /\ Purse!Begin(t, p)
          /\ from' = [from EXCEPT ![t] = x]
    BY <1>3 DEF TapYes
  <2>2. /\ stage[t] = "none" /\ payStatus[t] = "idle"
        /\ stage' = [stage EXCEPT ![t] = "pay"]
        /\ payStatus' = [payStatus EXCEPT ![t] = "pending"]
        /\ amount' = [amount EXCEPT ![t] = p] /\ applied' = applied
        /\ early' \subseteq early \union {t}
        /\ UNCHANGED <<form, shows, routes, orphans, left>>
    BY <1>3, <2>1 DEF TapYes, MayTap, Purse!Begin, input
  <2>3. PayTypes'
    <3>1. /\ payStatus' \in [Taps -> Statuses] /\ applied' \in [Taps -> 0..MaxAttempts]
          /\ stage' \in [Taps -> {"none", "pay", "end", "threw"}]
          /\ routes' \in 0..3 /\ shows' \in Nat
          /\ early' \subseteq Taps /\ left' \subseteq Taps /\ orphans' \subseteq Taps
      BY <2>2 DEF PayTypes, Statuses
    <3>2. DOMAIN amount' = Taps /\ amount' = [u \in Taps |-> amount'[u]]
      BY <2>2 DEF PayTypes
    <3>3. DOMAIN from' = Taps /\ from' = [u \in Taps |-> from'[u]]
      BY <2>1 DEF PayTypes
    <3> QED BY <3>1, <3>2, <3>3 DEF PayTypes
  <2>4. /\ \A u \in Taps \ {t} : /\ stage'[u] = stage[u] /\ payStatus'[u] = payStatus[u]
                                 /\ amount'[u] = amount[u] /\ from'[u] = from[u]
        /\ stage'[t] = "pay" /\ payStatus'[t] = "pending"
        /\ amount'[t] = p /\ from'[t] = x
    BY <2>1, <2>2 DEF PayTypes
  <2>5. Agree'
    BY <2>1, <2>2, <2>4 DEF Agree
  <2> QED BY <2>3, <2>5
<1>4. ASSUME NEW t \in Taps, TapYesNoChild(t) PROVE PayTypes' /\ Agree'
  <2>1. /\ UNCHANGED <<payStatus, applied, amount, from, early, form, orphans, routes, shows,
                        left>>
        /\ stage[t] = "none" /\ stage' = [stage EXCEPT ![t] = "threw"]
    BY <1>4 DEF TapYesNoChild, MayTap, account, input
  <2>2. PayTypes'
    BY <2>1 DEF PayTypes
  <2>3. Agree'
    BY <2>1 DEF Agree, PayTypes
  <2> QED BY <2>2, <2>3
<1>5. ASSUME NEW t \in Taps, PayStep(t) PROVE PayTypes' /\ Agree'
  <2>1. /\ UNCHANGED <<form, shows, routes, stage, from, orphans, early, left, amount>>
        /\ stage[t] = "pay" /\ payStatus[t] = "pending"
    BY <1>5, PaySteps
  <2>2. /\ \A u \in Taps \ {t} : payStatus'[u] = payStatus[u] /\ applied'[u] = applied[u]
        /\ payStatus'[t] # "idle"
        /\ payStatus'[t] = "ok" => applied'[t] >= 1
    BY <1>5, PaySteps, AttemptsAssumption DEF PayTypes
  <2>3. payStatus' \in [Taps -> Statuses] /\ applied' \in [Taps -> 0..MaxAttempts]
    BY <1>5, PaySteps, AttemptsAssumption DEF PayTypes, Statuses
  <2>4. PayTypes'
    BY <2>1, <2>3 DEF PayTypes
  <2>5. Agree'
    BY <2>1, <2>2 DEF Agree
  <2> QED BY <2>4, <2>5
<1>6. ASSUME NEW t \in Taps, AfterPay(t) PROVE PayTypes' /\ Agree'
  <2>1. /\ UNCHANGED <<payStatus, applied, amount, from, early, left, form, shows>>
        /\ stage[t] = "pay" /\ payStatus[t] = "ok"
        /\ stage' = [stage EXCEPT ![t] = "end"]
        /\ orphans' \subseteq (orphans \union {u \in Taps : stage[u] = "pay"}) \ {t}
        /\ routes' \in 0..3
    BY <1>6 DEF AfterPay, Running, Pop, account, input, PayTypes
  <2>2. PayTypes'
    BY <2>1 DEF PayTypes
  <2>3. Agree'
    BY <2>1 DEF Agree, PayTypes
  <2> QED BY <2>2, <2>3
<1>7. ASSUME NEW t \in Taps, HandlerThrows(t) PROVE PayTypes' /\ Agree'
  <2>1. /\ UNCHANGED <<payStatus, applied, amount, from, early, left, form, shows, routes>>
        /\ stage[t] = "pay" /\ stage' = [stage EXCEPT ![t] = "threw"]
        /\ orphans' = orphans \ {t}
    BY <1>7 DEF HandlerThrows, Running, account, input
  <2>2. PayTypes'
    BY <2>1 DEF PayTypes
  <2>3. Agree'
    BY <2>1 DEF Agree, PayTypes
  <2> QED BY <2>2, <2>3
<1>8. ASSUME UNCHANGED vars PROVE PayTypes' /\ Agree'
  BY <1>8 DEF vars, account, input, run, PayTypes, Agree
<1> QED BY <1>2, <1>3, <1>4, <1>5, <1>6, <1>7, <1>8 DEF Next, HandlerStep

\* Every step leaves at most one payer for each confirmation.
LEMMA PayersBoundNext ==
  ASSUME PayInv, [Next]_vars
  PROVE  PayersBound'
<1>1. /\ Cardinality(Payers) <= shows
      /\ routes = 3 /\ (\A t \in Taps : ~Owner(t)) => Cardinality(Payers) < shows
      /\ Cardinality(Payers) \in Nat /\ IsFiniteSet(Payers) /\ shows \in Nat
      /\ routes \in 0..3 /\ PayTypes /\ Agree
  BY PayersFinite DEF PayInv, PayersBound, PayTypes
<1>2. ASSUME UNCHANGED <<payStatus, early, shows>>,
             routes' = 3 => routes = 3 /\ \A t \in Taps : Owner(t) => Owner(t)'
      PROVE  PayersBound'
  <2>1. Payers' = Payers
    BY <1>2 DEF Payers
  <2> QED BY <1>1, <1>2, <2>1 DEF PayersBound
<1>3. ASSUME ShowDialog \/ ShowConfirmPage PROVE PayersBound'
  <2>1. UNCHANGED <<payStatus, early>> /\ shows' = shows + 1
    BY <1>3 DEF ShowDialog, ShowConfirmPage, account
  <2>2. Payers' = Payers
    BY <2>1 DEF Payers
  <2> QED BY <1>1, <2>1, <2>2 DEF PayersBound
<1>4. ASSUME \/ ChildrenArrive
             \/ \E x \in Texts : EnterAmount(x)
      PROVE  PayersBound'
  <2>1. UNCHANGED <<payStatus, early, shows, routes, stage, orphans>>
    BY <1>4 DEF ChildrenArrive, EnterAmount, account, run
  <2> QED BY <1>2, <2>1 DEF Owner
<1>5. ASSUME TapNo PROVE PayersBound'
  <2>1. UNCHANGED <<payStatus, early, shows>> /\ routes' # 3
    BY <1>1, <1>5 DEF TapNo, Pop, account, input
  <2> QED BY <1>2, <2>1
<1>6. ASSUME NEW t \in Taps, TapYes(t) PROVE PayersBound'
  <2>1. /\ UNCHANGED <<shows, routes, orphans>> /\ routes = 3
        /\ stage[t] = "none" /\ stage' = [stage EXCEPT ![t] = "pay"]
        /\ payStatus[t] = "idle" /\ payStatus' = [payStatus EXCEPT ![t] = "pending"]
        /\ \/ early' = early /\ \A u \in Taps : stage[u] # "pay"
           \/ early' = early \union {t}
    BY <1>6 DEF TapYes, MayTap, Running, Purse!Begin, input
  <2>2. t \notin early /\ t \notin orphans
    BY <1>1, <2>1 DEF Agree
  <2>3. CASE early' = early /\ \A u \in Taps : stage[u] # "pay"
    <3>1. Payers' = Payers \union {t} /\ t \notin Payers
      BY <1>1, <2>1, <2>2, <2>3 DEF Payers, PayTypes
    <3>2. Cardinality(Payers') = Cardinality(Payers) + 1
      BY <1>1, <3>1, FS_AddElement
    <3>3. Cardinality(Payers) < shows
      BY <1>1, <2>1, <2>3 DEF Owner
    <3>4. Owner(t)'
      BY <1>1, <2>1, <2>2, <2>3 DEF Owner, PayTypes
    <3> QED BY <1>1, <2>1, <3>2, <3>3, <3>4 DEF PayersBound
  <2>4. CASE early' = early \union {t}
    <3>1. Payers' = Payers
      BY <1>1, <2>1, <2>4 DEF Payers, PayTypes
    <3>2. \A u \in Taps : Owner(u) => Owner(u)'
      BY <1>1, <2>1, <2>4 DEF Owner, PayTypes
    <3> QED BY <1>1, <2>1, <3>1, <3>2 DEF PayersBound
  <2> QED BY <2>1, <2>3, <2>4
<1>7. ASSUME NEW t \in Taps, TapYesNoChild(t) PROVE PayersBound'
  <2>1. /\ UNCHANGED <<payStatus, early, shows, routes, orphans>>
        /\ stage[t] = "none" /\ stage' = [stage EXCEPT ![t] = "threw"]
    BY <1>7 DEF TapYesNoChild, MayTap, account, input
  <2>2. \A u \in Taps : Owner(u) => Owner(u)'
    BY <1>1, <2>1 DEF Owner, PayTypes
  <2> QED BY <1>2, <2>1, <2>2
<1>8. ASSUME NEW t \in Taps, PayStep(t) PROVE PayersBound'
  <2>1. /\ UNCHANGED <<shows, routes, stage, orphans, early>>
        /\ stage[t] = "pay" /\ payStatus[t] = "pending"
        /\ payStatus' \in {payStatus, [payStatus EXCEPT ![t] = "ok"],
                           [payStatus EXCEPT ![t] = "failed"]}
    BY <1>8, PaySteps
  <2>2. CASE payStatus'[t] # "failed"
    <3>1. Payers' = Payers
      BY <1>1, <2>1, <2>2 DEF Payers, PayTypes
    <3>2. \A u \in Taps : Owner(u) => Owner(u)'
      BY <1>1, <2>1, <2>2 DEF Owner, PayTypes
    <3> QED BY <1>1, <2>1, <3>1, <3>2 DEF PayersBound
  <2>3. CASE payStatus'[t] = "failed" /\ t \in early
    <3>1. Payers' = Payers
      BY <1>1, <2>1, <2>3 DEF Payers, PayTypes
    <3>2. \A u \in Taps : Owner(u) => Owner(u)'
      BY <1>1, <2>1, <2>3 DEF Owner, PayTypes
    <3> QED BY <1>1, <2>1, <3>1, <3>2 DEF PayersBound
  <2>4. CASE payStatus'[t] = "failed" /\ t \notin early
    <3>1. Payers' = Payers \ {t} /\ t \in Payers
      BY <1>1, <2>1, <2>4 DEF Payers, PayTypes
    <3>2. Cardinality(Payers') = Cardinality(Payers) - 1
      BY <1>1, <3>1, FS_RemoveElement
    <3> QED BY <1>1, <2>1, <3>2 DEF PayersBound
  <2> QED BY <2>2, <2>3, <2>4
<1>9. ASSUME NEW t \in Taps, AfterPay(t) PROVE PayersBound'
  <2>1. UNCHANGED <<payStatus, early, shows>> /\ routes' # 3
    BY <1>1, <1>9 DEF AfterPay, Pop, account, input
  <2> QED BY <1>2, <2>1
<1>10. ASSUME NEW t \in Taps, HandlerThrows(t) PROVE PayersBound'
  <2>1. /\ UNCHANGED <<payStatus, early, shows, routes>>
        /\ payStatus[t] = "failed" \/ t \in orphans
        /\ stage' = [stage EXCEPT ![t] = "threw"] /\ orphans' = orphans \ {t}
    BY <1>10 DEF HandlerThrows, account, input
  <2>2. \A u \in Taps : Owner(u) => Owner(u)'
    BY <1>1, <2>1 DEF Owner, PayTypes
  <2> QED BY <1>2, <2>1, <2>2
<1>11. ASSUME UNCHANGED vars PROVE PayersBound'
  <2>1. UNCHANGED <<payStatus, early, shows, routes, stage, orphans>>
    BY <1>11 DEF vars, account, input, run
  <2> QED BY <1>2, <2>1 DEF Owner
<1> QED BY <1>3, <1>4, <1>5, <1>6, <1>7, <1>8, <1>9, <1>10, <1>11
        DEF Next, HandlerStep

\* The invariant holds in every behaviour of the two forms.
THEOREM PayInvariance == Spec => []PayInv
<1>1. Init => PayInv
  BY InitPay
<1>2. PayInv /\ [Next]_vars => PayInv'
  <2> SUFFICES ASSUME PayInv, [Next]_vars PROVE PayInv'
      OBVIOUS
  <2>1. PayTypes' /\ Agree'
    BY AgreeNext DEF PayInv
  <2> QED BY <2>1, PayersBoundNext DEF PayInv
<1> QED BY <1>1, <1>2, PTL DEF Spec

-----------------------------------------------------------------------------
(* Counting *)

\* The sets that are counted are finite.
LEMMA Finite ==
  /\ \A T \in SUBSET Taps : IsFiniteSet(T) /\ Cardinality(T) \in Nat
  /\ \A T \in SUBSET (Taps \X (1..MaxAttempts)) : IsFiniteSet(T) /\ Cardinality(T) \in Nat
<1>1. IsFiniteSet(Taps) /\ IsFiniteSet(1..MaxAttempts)
  BY TapsAssumption, AttemptsAssumption, FS_Interval
<1>2. IsFiniteSet(Taps \X (1..MaxAttempts))
  BY <1>1, FS_Product
<1> QED BY <1>1, <1>2, FS_Subset, FS_CardinalityType

\* The payments are what each call paid first and what it paid again.
LEMMA TimesSplit ==
  ASSUME NEW f \in [Taps -> 0..MaxAttempts]
  PROVE  /\ Cardinality(Times(Taps, f)) =
              Cardinality({t \in Taps : f[t] > 0}) + Cardinality(Repeats(Taps, f))
         /\ Cardinality(Repeats(Taps, f)) \in Nat
<1> USE AttemptsAssumption
<1>1. PICK H \in SUBSET Taps : H = {t \in Taps : f[t] > 0}
  OBVIOUS
<1>2. PICK F : F = {h \in Times(Taps, f) : ~(h[2] > 1)}
  OBVIOUS
<1>3. /\ Times(Taps, f) = F \union Repeats(Taps, f) /\ F \cap Repeats(Taps, f) = {}
      /\ F \in SUBSET (Taps \X (1..MaxAttempts))
      /\ Repeats(Taps, f) \in SUBSET (Taps \X (1..MaxAttempts))
  BY <1>2 DEF Repeats, Times
<1>4. \A h : h \in Times(Taps, f) <=>
               \E t \in Taps : \E n \in 1..MaxAttempts : h = <<t, n>> /\ n <= f[t]
  BY DEF Times
<1>5. \A t \in H : <<t, 1>> \in F
  <2> SUFFICES ASSUME NEW t \in H PROVE <<t, 1>> \in F
      OBVIOUS
  <2>1. f[t] \in 0..MaxAttempts /\ f[t] > 0
    BY <1>1
  <2>2. 1 \in 1..MaxAttempts /\ 1 <= f[t]
    BY <2>1
  <2>3. PICK h : h = <<t, 1>>
    OBVIOUS
  <2>4. h \in Times(Taps, f)
    BY <1>4, <2>2, <2>3
  <2>5. h[2] = 1
    BY <2>3
  <2> QED BY <1>2, <2>3, <2>4, <2>5
<1>6. ASSUME NEW h \in F PROVE \E t \in H : h = <<t, 1>>
  <2>1. h \in Times(Taps, f) /\ ~(h[2] > 1)
    BY <1>2
  <2>2. PICK t \in Taps, n \in 1..MaxAttempts : h = <<t, n>> /\ n <= f[t]
    BY <1>4, <2>1
  <2>3. h[2] = n
    BY <2>2
  <2>4. n = 1 /\ f[t] \in 0..MaxAttempts
    BY <2>1, <2>3
  <2>5. t \in H
    BY <1>1, <2>2, <2>4
  <2> QED BY <2>2, <2>4, <2>5
<1>7. Cardinality(F) = Cardinality(H)
  <2>1. PICK g : g = [t \in H |-> <<t, 1>>]
    OBVIOUS
  <2>2. \A t, u \in H : g[t] = g[u] => t = u
    BY <2>1
  <2>3. g \in [H -> F]
    BY <1>5, <2>1
  <2>4. \A h \in F : \E t \in H : g[t] = h
    BY <1>6, <2>1
  <2>5. g \in Bijection(H, F)
    BY <2>2, <2>3, <2>4 DEF Bijection, Injection, Surjection, IsInjective
  <2>6. ExistsBijection(H, F)
    BY <2>5 DEF ExistsBijection
  <2> QED BY <2>6, Finite, FS_Bijection
<1>8. Cardinality(Times(Taps, f)) = Cardinality(F) + Cardinality(Repeats(Taps, f))
  <2>1. IsFiniteSet(F) /\ IsFiniteSet(Repeats(Taps, f))
    BY <1>3, Finite
  <2>2. Cardinality(F \union Repeats(Taps, f)) =
          Cardinality(F) + Cardinality(Repeats(Taps, f))
            - Cardinality(F \cap Repeats(Taps, f))
    BY <2>1, FS_Union
  <2>3. Cardinality(F \cap Repeats(Taps, f)) = 0
    BY <1>3, FS_EmptySet
  <2>4. Cardinality(F) \in Nat /\ Cardinality(Repeats(Taps, f)) \in Nat
    BY <1>3, Finite
  <2> QED BY <1>3, <2>2, <2>3, <2>4
<1>9. Cardinality(Repeats(Taps, f)) \in Nat
  BY <1>3, Finite
<1> QED BY <1>1, <1>7, <1>8, <1>9

-----------------------------------------------------------------------------
(* The theorems *)

\* However many taps and confirmations there are, points change hands once for
\* each confirmation, plus once for each early tap, each call that failed after
\* its points had arrived, and each time a call ran again after a lost reply
\* (award_add_page.dart:220-235, transfer_confirm.dart:58-67).
THEOREM PaidOncePerConfirmation == Spec => []OncePerConfirmation
<1>1. PayInv => OncePerConfirmation
  <2> SUFFICES ASSUME PayInv
               PROVE  Cardinality(Times(Taps, applied)) <=
                        shows + Cardinality(early)
                          + Cardinality({t \in Taps : applied[t] > 0 /\ payStatus[t] = "failed"})
                          + Cardinality(Repeats(Taps, applied))
      BY DEF OncePerConfirmation
  <2>1. PICK A \in SUBSET Taps : A = {t \in Taps : applied[t] > 0}
    OBVIOUS
  <2>2. PICK F \in SUBSET Taps : F = {t \in Taps : applied[t] > 0 /\ payStatus[t] = "failed"}
    OBVIOUS
  <2>3. PICK P \in SUBSET Taps : P = Payers
    BY PayersFinite
  <2>4. PICK E \in SUBSET Taps : E = early
    BY DEF PayInv, PayTypes
  <2>5. A \subseteq P \union (E \union F)
    <3> SUFFICES ASSUME NEW t \in A PROVE t \in P \union (E \union F)
        OBVIOUS
    <3>1. t \in Taps /\ applied[t] > 0
      BY <2>1
    <3>2. payStatus[t] \in {"pending", "ok", "failed"}
      <4>1. payStatus[t] \in Statuses
        BY <3>1 DEF PayInv, PayTypes
      <4>2. payStatus[t] # "idle"
        BY <3>1 DEF PayInv, Agree
      <4> QED BY <4>1, <4>2 DEF Statuses
    <3> QED BY <2>2, <2>3, <2>4, <3>1, <3>2 DEF Payers
  <2>6. Cardinality(P) <= shows /\ shows \in Nat
    BY <2>3 DEF PayInv, PayersBound, PayTypes
  <2>7. \A S \in SUBSET Taps : IsFiniteSet(S) /\ Cardinality(S) \in Nat
    BY Finite
  <2>8. Cardinality(A) <= shows + Cardinality(E) + Cardinality(F)
    <3> HIDE <2>1, <2>2, <2>3, <2>4
    <3>1. IsFiniteSet(P \union (E \union F)) /\ IsFiniteSet(E \union F)
      BY <2>7
    <3>2. Cardinality(A) <= Cardinality(P \union (E \union F))
      BY <2>5, <3>1, FS_Subset
    <3>3. Cardinality(P \union (E \union F)) =
            Cardinality(P) + Cardinality(E \union F) - Cardinality(P \cap (E \union F))
      BY <2>7, <3>1, FS_Union
    <3>4. Cardinality(E \union F) = Cardinality(E) + Cardinality(F) - Cardinality(E \cap F)
      BY <2>7, FS_Union
    <3>5. /\ Cardinality(A) \in Nat /\ Cardinality(P) \in Nat /\ Cardinality(E) \in Nat
          /\ Cardinality(F) \in Nat /\ Cardinality(E \cap F) \in Nat
          /\ Cardinality(P \cap (E \union F)) \in Nat
      BY <2>7
    <3> QED BY <2>6, <3>2, <3>3, <3>4, <3>5
  <2>9. /\ Cardinality(Times(Taps, applied)) =
             Cardinality(A) + Cardinality(Repeats(Taps, applied))
        /\ Cardinality(Repeats(Taps, applied)) \in Nat
    BY <2>1, TimesSplit DEF PayInv, PayTypes
  <2>10. Cardinality(A) \in Nat /\ Cardinality(E) \in Nat /\ Cardinality(F) \in Nat
    BY <2>7
  <2> QED BY <2>2, <2>4, <2>6, <2>8, <2>9, <2>10
<1> QED BY <1>1, PayInvariance, PTL

\* A message of success is true of the account: the points that reached it are
\* those of the text that was confirmed (award_add_page.dart:220-235,
\* transfer_confirm.dart:58-67).
THEOREM MessagesAreTrue == Spec => []ToldIsTrue
<1>1. PayInv => ToldIsTrue
  BY DEF PayInv, Agree, ToldIsTrue
<1> QED BY <1>1, PayInvariance, PTL

-----------------------------------------------------------------------------
(* Pages further down *)

\* Of two handlers that run at once one was started early; a handler whose
\* confirmation is not on top has lost it, because it was closed, or because
\* another handler that ended took it away.
Lost ==
  /\ \A t, u \in Taps :
       t # u /\ stage[t] = "pay" /\ stage[u] = "pay" => t \in early \/ u \in early
  /\ \A t \in Taps : stage[t] = "pay" /\ routes # 3 => t \in orphans
  /\ \A t \in orphans :
       t \in early \union left \/ \E u \in early : stage[u] = "end"

\* Every step keeps a reason for each handler that lost its confirmation, and
\* for each page further down that is gone.
LEMMA LostNext ==
  ASSUME PayTypes, Agree, Lost, DeepPopHasReason, [Next]_vars
  PROVE  Lost' /\ DeepPopHasReason'
<1>1. ASSUME UNCHANGED <<stage, early>>, left \subseteq left',
             \A t \in Taps : stage[t] = "pay" /\ routes' # 3 => t \in orphans',
             \A t \in orphans' : t \in orphans \/ t \in left',
             routes' = 0 => routes = 0
      PROVE  Lost' /\ DeepPopHasReason'
  BY <1>1 DEF Lost, DeepPopHasReason
<1>2. ASSUME ChildrenArrive \/ \E x \in Texts : EnterAmount(x)
      PROVE  UNCHANGED <<stage, early, left, orphans, routes>>
  BY <1>2 DEF ChildrenArrive, EnterAmount, run
<1>3. ASSUME ShowDialog \/ ShowConfirmPage PROVE Lost' /\ DeepPopHasReason'
  <2>1. UNCHANGED <<stage, early, left, orphans>> /\ routes' = 3
    BY <1>3 DEF ShowDialog, ShowConfirmPage
  <2> QED BY <1>1, <2>1
<1>4. ASSUME TapNo PROVE Lost' /\ DeepPopHasReason'
  <2>1. /\ UNCHANGED <<stage, early>> /\ routes \in {2, 3}
        /\ routes' = routes - 1
        /\ orphans' = orphans \union {t \in Taps : routes = 3 /\ stage[t] = "pay"}
        /\ left' = left \union (orphans' \ orphans)
    BY <1>4 DEF TapNo, Pop, Running
  <2>2. routes' # 0
    BY <2>1
  <2>3. \A t \in Taps : stage[t] = "pay" /\ routes' # 3 => t \in orphans'
    BY <2>1 DEF Lost
  <2> QED BY <1>1, <2>1, <2>2, <2>3
<1>5. ASSUME NEW t \in Taps, TapYes(t) PROVE Lost' /\ DeepPopHasReason'
  <2>1. /\ UNCHANGED <<routes, orphans, left>> /\ routes = 3
        /\ stage[t] = "none" /\ stage'[t] = "pay"
        /\ \A u \in Taps \ {t} : stage'[u] = stage[u]
        /\ early \subseteq early'
        /\ (\E u \in Taps : stage[u] = "pay") => t \in early'
    BY <1>5 DEF TapYes, MayTap, Running, PayTypes
  <2>2. \A u \in early : stage[u] = "end" => stage'[u] = "end"
    BY <2>1 DEF PayTypes
  <2>3. Lost'
    BY <2>1, <2>2 DEF Lost
  <2>4. DeepPopHasReason'
    BY <2>1 DEF DeepPopHasReason
  <2> QED BY <2>3, <2>4
<1>6. ASSUME NEW t \in Taps, TapYesNoChild(t) PROVE Lost' /\ DeepPopHasReason'
  <2>1. /\ UNCHANGED <<routes, orphans, early, left>> /\ routes = 3
        /\ stage[t] = "none" /\ stage'[t] = "threw"
        /\ \A u \in Taps \ {t} : stage'[u] = stage[u]
    BY <1>6 DEF TapYesNoChild, MayTap, PayTypes
  <2>2. \A u \in early : stage[u] = "end" => stage'[u] = "end"
    BY <2>1 DEF PayTypes
  <2>3. Lost'
    BY <2>1, <2>2 DEF Lost
  <2>4. DeepPopHasReason'
    BY <2>1 DEF DeepPopHasReason
  <2> QED BY <2>3, <2>4
<1>7. ASSUME NEW t \in Taps, PayStep(t)
      PROVE  UNCHANGED <<stage, early, left, orphans, routes>>
  BY <1>7, PaySteps
<1>8. ASSUME NEW t \in Taps, AfterPay(t) PROVE Lost' /\ DeepPopHasReason'
  <2>1. /\ UNCHANGED <<early, left>>
        /\ stage[t] = "pay" /\ stage'[t] = "end"
        /\ \A u \in Taps \ {t} : stage'[u] = stage[u]
        /\ orphans' = (orphans \union {u \in Taps : routes = 3 /\ stage[u] = "pay"}) \ {t}
    BY <1>8 DEF AfterPay, Running, Pop, PayTypes
  <2>2. routes' # 3 /\ (routes = 3 => routes' # 0)
    BY <1>8 DEF AfterPay, Pop, PayTypes
  <2>3. \A u \in early \union left : stage[u] = "end" => stage'[u] = "end"
    BY <2>1 DEF PayTypes
  <2>4. Lost'
    <3>1. \A u, v \in Taps :
            u # v /\ stage'[u] = "pay" /\ stage'[v] = "pay" => u \in early \/ v \in early
      BY <2>1 DEF Lost
    <3>2. \A u \in Taps : stage'[u] = "pay" => u \in orphans'
      BY <2>1 DEF Lost
    <3>3. ASSUME NEW u \in orphans'
          PROVE  u \in early \union left \/ \E v \in early : stage'[v] = "end"
      <4>1. CASE u \in orphans
        BY <2>3, <4>1 DEF Lost
      <4>2. CASE u \notin orphans
        <5>1. u \in Taps /\ u # t /\ stage[u] = "pay"
          BY <2>1, <4>2
        <5>2. u \in early \/ t \in early
          BY <2>1, <5>1 DEF Lost
        <5> QED BY <2>1, <5>2
      <4> QED BY <4>1, <4>2
    <3> QED BY <2>1, <3>1, <3>2, <3>3 DEF Lost
  <2>5. DeepPopHasReason'
    <3> SUFFICES ASSUME routes' = 0
                 PROVE  \E u \in early \union left : stage'[u] = "end"
        BY <2>1 DEF DeepPopHasReason
    <3>1. t \in orphans
      BY <2>1, <2>2 DEF Lost
    <3>2. CASE t \in early \union left
      BY <2>1, <3>2
    <3>3. CASE \E u \in early : stage[u] = "end"
      BY <2>3, <3>3
    <3> QED BY <3>1, <3>2, <3>3 DEF Lost
  <2> QED BY <2>4, <2>5
<1>9. ASSUME NEW t \in Taps, HandlerThrows(t) PROVE Lost' /\ DeepPopHasReason'
  <2>1. /\ UNCHANGED <<early, left, routes>>
        /\ stage[t] = "pay" /\ stage'[t] = "threw"
        /\ \A u \in Taps \ {t} : stage'[u] = stage[u]
        /\ orphans' = orphans \ {t}
    BY <1>9 DEF HandlerThrows, Running, PayTypes
  <2>2. \A u \in early \union left : stage[u] = "end" => stage'[u] = "end"
    BY <2>1 DEF PayTypes
  <2>3. Lost'
    BY <2>1, <2>2 DEF Lost
  <2>4. DeepPopHasReason'
    BY <2>1, <2>2 DEF DeepPopHasReason
  <2> QED BY <2>3, <2>4
<1>10. ASSUME UNCHANGED <<stage, early, left, orphans, routes>>
       PROVE  Lost' /\ DeepPopHasReason'
  BY <1>10 DEF Lost, DeepPopHasReason
<1>11. ASSUME UNCHANGED vars PROVE UNCHANGED <<stage, early, left, orphans, routes>>
  BY <1>11 DEF vars, run
<1> QED BY <1>2, <1>3, <1>4, <1>5, <1>6, <1>7, <1>8, <1>9, <1>10, <1>11
    DEF Next, HandlerStep

\* However many taps and confirmations there are, the page below the form goes
\* only where taps overlapped or the confirmation was closed over a running
\* handler (award_add_page.dart:233-235, transfer_confirm.dart:66).
THEOREM DeepPopsExplained == Spec => []DeepPopHasReason
<1>1. Init => Lost /\ DeepPopHasReason
  BY DEF Init, Lost, DeepPopHasReason
<1>2. PayInv /\ Lost /\ DeepPopHasReason /\ [Next]_vars => (Lost /\ DeepPopHasReason)'
  BY LostNext DEF PayInv
<1> QED BY <1>1, <1>2, PayInvariance, PTL DEF Spec

=============================================================================
