------------------------------- MODULE Teller --------------------------------
(***************************************************************************)
(* The two forms with which a parent changes a child's points directly:    *)
(* AwardAddPage (src/lib/pages/parent/award_add_page.dart), which redeems  *)
(* a reward after a dialog, and TransferPage with TransferConfirmPage      *)
(* (src/lib/pages/parent/transfer_page.dart, transfer_confirm.dart), which *)
(* transfers points after a second page.  "Yes" calls changePoint in an    *)
(* asynchronous handler without try/finally; the child's account is        *)
(* Account, the specification PointLedger implements.                      *)
(*                                                                         *)
(* The progress overlay lets taps through: "Yes" can be tapped again while *)
(* a handler runs.                                                         *)
(***************************************************************************)
EXTENDS Integers, FiniteSets

CONSTANTS Taps,        \* taps on "Yes": 1..n, in this order
          Typed,       \* numbers typed into the field for the points
          InitialPoints, MaxAttempts, Unreliable,  \* see Account
          MaxShows,    \* bound: how often the confirmation is opened
          MayFail      \* TRUE: changePoint may throw

ASSUME TapsAssumption == Taps \subseteq Nat \ {0} /\ IsFiniteSet(Taps)
ASSUME TypedAssumption == Typed \subseteq Int
ASSUME AttemptsAssumption == MaxAttempts \in Nat

\* The text of the field: empty, a number, or something else.
Empty == [kind |-> "empty", value |-> 0]
Texts == {Empty, [kind |-> "other", value |-> 0]}
           \union {[kind |-> "number", value |-> n] : n \in Typed}

\* int.tryParse(text) ?? 0
Parsed(x) == IF x.kind = "number" THEN x.value ELSE 0

VARIABLES balance, amount, payStatus, applied, \* see Account
          form,    \* "award" or "transfer"
          child,   \* TRUE: selectedChild or targetAccount is not null
          text,    \* the text in the field for the points
          passed,  \* what TransferConfirmPage was given: the text it was parsed from
          routes,  \* 3: confirmation on top, 2: form (AwardAddPage, or the tab of
                   \* HomePage for transfers), 1: the page below, 0: further down
          shows,   \* how often the confirmation was opened
          stage,   \* stage[t]: what became of tap t
          from,    \* history: from[t]: the text tap t's points come from
          orphans, \* handlers whose confirmation is gone
          spinner, \* EasyLoading is shown
          early,   \* history: taps made while the handler of another one ran
          left     \* history: taps whose confirmation was closed while they ran

account == <<balance, amount, payStatus, applied>>
input == <<form, child, text, passed, shows>>
run == <<routes, stage, from, orphans, spinner, early, left>>
vars == <<account, input, run>>

Purse == INSTANCE Account WITH Calls <- Taps, status <- payStatus,
                               Amounts <- Typed \union {-n : n \in Typed} \union {0}

Init ==
  /\ Purse!Init
  /\ form \in {"award", "transfer"}
  /\ child \in BOOLEAN
  /\ text = Empty /\ passed = Empty
  /\ routes = 2 /\ shows = 0
  /\ stage = [t \in Taps |-> "none"]
  /\ from = [t \in Taps |-> Empty]
  /\ orphans = {}
  /\ spinner = FALSE
  /\ early = {} /\ left = {}

Running(t) == stage[t] = "pay"

-----------------------------------------------------------------------------
(* The form *)

\* The listener delivers the children (external); build selects the first.
ChildrenArrive ==
  /\ ~child /\ child' = TRUE
  /\ UNCHANGED <<account, form, text, passed, shows, run>>

EnterAmount(x) ==
  /\ routes = 2
  /\ text' = x
  /\ UNCHANGED <<account, form, child, passed, shows, run>>

\* "Add" of AwardAddPage: the dialog, with no check of the form.
ShowDialog ==
  /\ form = "award" /\ routes = 2 /\ shows < MaxShows
  /\ routes' = 3
  /\ shows' = shows + 1
  /\ UNCHANGED <<account, form, child, text, passed, stage, from, orphans,
                 spinner, early, left>>

\* "Next" of TransferPage: the field's validator is never called; without a
\* child, targetAccount! throws and nothing happens.
ShowConfirmPage ==
  /\ form = "transfer" /\ routes = 2 /\ shows < MaxShows
  /\ child
  /\ passed' = text
  /\ routes' = 3
  /\ shows' = shows + 1
  /\ UNCHANGED <<account, form, child, text, stage, from, orphans, spinner,
                 early, left>>

\* Navigator.pop, n times: what is on top goes; the other handlers of the
\* confirmation, those that do not end here, go on without it.
Pop(n, ending) ==
  /\ routes' = IF routes > n THEN routes - n ELSE 0
  /\ orphans' = (orphans \union
                   {t \in Taps : routes = 3 /\ Running(t)}) \ ending

\* "No", "Cancel", or the back button of the confirmation or of the form.
TapNo ==
  /\ routes \in {2, 3}
  /\ Pop(1, {})
  /\ left' = left \union (orphans' \ orphans)
  /\ UNCHANGED <<account, input, stage, from, spinner, early>>

-----------------------------------------------------------------------------
(* The handler *)

MayTap(t) ==
  /\ routes = 3
  /\ stage[t] = "none"
  /\ \A u \in Taps : u < t => stage[u] # "none"

\* "Yes": EasyLoading.show and changePoint, of the negated points for a reward.
TapYes(t) ==
  LET x == IF form = "award" THEN text ELSE passed IN
  /\ MayTap(t) /\ child
  /\ spinner' = TRUE
  /\ Purse!Begin(t, IF form = "award" THEN -Parsed(x) ELSE Parsed(x))
  /\ stage' = [stage EXCEPT ![t] = "pay"]
  /\ from' = [from EXCEPT ![t] = x]
  /\ early' = IF \E u \in Taps : Running(u) THEN early \union {t} ELSE early
  /\ UNCHANGED <<input, routes, orphans, left>>

\* "Yes" for a reward of nobody: selectedChild! throws after EasyLoading.show.
TapYesNoChild(t) ==
  /\ MayTap(t) /\ ~child
  /\ spinner' = TRUE
  /\ stage' = [stage EXCEPT ![t] = "threw"]
  /\ UNCHANGED <<account, input, routes, from, orphans, early, left>>

\* The transaction of changePoint, see Account.
PayStep(t) ==
  /\ Running(t)
  /\ \/ Purse!Succeed(t) \/ Purse!CreditUnseen(t)
     \/ MayFail /\ Purse!Fail(t)
  /\ UNCHANGED <<input, run>>

\* Mutated: the confirmation stays.
AfterPayStays(t) ==
  /\ Running(t) /\ payStatus[t] = "ok"
  /\ spinner' = FALSE
  /\ Pop(0, {t})
  /\ stage' = [stage EXCEPT ![t] = "end"]
  /\ UNCHANGED <<account, input, from, early, left>>

\* Mutated: success is told whatever came back.
AfterPayAnyway(t) ==
  /\ Running(t) /\ payStatus[t] \in {"ok", "failed"}
  /\ spinner' = FALSE
  /\ Pop(IF form = "award" THEN 2 ELSE 1, {t})
  /\ stage' = [stage EXCEPT ![t] = "end"]
  /\ UNCHANGED <<account, input, from, early, left>>

\* Mutated: one page more goes.
AfterPayDeeper(t) ==
  /\ Running(t) /\ payStatus[t] = "ok"
  /\ spinner' = FALSE
  /\ Pop(IF form = "award" THEN 3 ELSE 2, {t})
  /\ stage' = [stage EXCEPT ![t] = "end"]
  /\ UNCHANGED <<account, input, from, early, left>>

\* changePoint returned: dismiss, the message of success, and pop, the dialog
\* and the form of a reward, the confirmation page of a transfer.
AfterPay(t) ==
  /\ Running(t) /\ payStatus[t] = "ok"
  /\ spinner' = FALSE
  /\ Pop(IF form = "award" THEN 2 ELSE 1, {t})
  /\ stage' = [stage EXCEPT ![t] = "end"]
  /\ UNCHANGED <<account, input, from, early, left>>

\* Mutated: a failed changePoint is awaited for ever.
HandlerHangs(t) ==
  /\ Running(t)
  /\ t \in orphans /\ payStatus[t] = "ok"
  /\ stage' = [stage EXCEPT ![t] = "threw"]
  /\ spinner' = FALSE
  /\ orphans' = orphans \ {t}
  /\ UNCHANGED <<account, input, routes, from, early, left>>

\* changePoint threw, or Navigator.of was given the context of a confirmation
\* that is gone (once its exit animation is over, after EasyLoading.dismiss).
HandlerThrows(t) ==
  /\ Running(t)
  /\ payStatus[t] = "failed" \/ (t \in orphans /\ payStatus[t] = "ok")
  /\ stage' = [stage EXCEPT ![t] = "threw"]
  /\ spinner' = IF payStatus[t] = "ok" THEN FALSE ELSE spinner
  /\ orphans' = orphans \ {t}
  /\ UNCHANGED <<account, input, routes, from, early, left>>

HandlerStep(t) == PayStep(t) \/ AfterPay(t) \/ HandlerThrows(t)

Next ==
  \/ ChildrenArrive \/ ShowDialog \/ ShowConfirmPage \/ TapNo
  \/ \E x \in Texts : EnterAmount(x)
  \/ \E t \in Taps : TapYes(t) \/ TapYesNoChild(t) \/ HandlerStep(t)

Spec == Init /\ [][Next]_vars

\* Requests are answered and a handler that can go on does.
FairSpec == Spec /\ \A t \in Taps : WF_vars(HandlerStep(t))

-----------------------------------------------------------------------------
(* Properties *)

\* Type correctness of the forms' own state.
TypeOK ==
  /\ form \in {"award", "transfer"}
  /\ child \in BOOLEAN /\ spinner \in BOOLEAN
  /\ text \in Texts /\ passed \in Texts
  /\ routes \in 0..3 /\ shows \in 0..MaxShows
  /\ stage \in [Taps -> {"none", "pay", "end", "threw"}]
  /\ from \in [Taps -> Texts]
  /\ early \subseteq Taps /\ left \subseteq Taps
  /\ orphans \subseteq {t \in Taps : Running(t)}

\* The payments of the calls in T, one element for each time points changed
\* hands, and those a call made again.
Times(T, count) == {h \in T \X (1..MaxAttempts) : h[2] <= count[h[1]]}
Repeats(T, count) == {h \in Times(T, count) : h[2] > 1}

\* Points change hands once for every confirmation that was opened, and once
\* more at most for a tap made while another one was being worked on, for a call
\* that failed although its points had arrived, after which the parent taps
\* again, and for each time a call whose reply was lost ran again: a handler that
\* succeeds takes the confirmation away (award_add_page.dart:220-235,
\* transfer_confirm.dart:58-67).
OncePerConfirmation ==
  Cardinality(Times(Taps, applied)) <=
    shows + Cardinality(early)
          + Cardinality({t \in Taps : applied[t] > 0 /\ payStatus[t] = "failed"})
          + Cardinality(Repeats(Taps, applied))

\* The page below the form goes only where a tap was made while another one was
\* being worked on, or where the parent closed the confirmation of a tap that
\* was, and that tap's handler has come to its end: the pops of a handler whose
\* confirmation is still there take away the confirmation, and with a reward the
\* form, and no more (award_add_page.dart:233-235, transfer_confirm.dart:66).
DeepPopHasReason ==
  routes = 0 => \E t \in early \union left : stage[t] = "end"

\* A message of success is only shown for points that reached the account, each
\* time exactly those of the text that was confirmed.
ToldIsTrue ==
  \A t \in Taps :
    stage[t] = "end" =>
      /\ applied[t] >= 1
      /\ amount[t] = IF form = "award" THEN -Parsed(from[t]) ELSE Parsed(from[t])

\* Every confirmation comes to an end, and the overlay stays behind only where
\* its handler threw (award_add_page.dart:221-235, transfer_confirm.dart:59-66).
ConfirmationEnds ==
  <>[](/\ \A t \in Taps : ~Running(t)
       /\ spinner => \E t \in Taps : stage[t] = "threw")

=============================================================================
