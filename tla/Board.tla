-------------------------------- MODULE Board --------------------------------
(***************************************************************************)
(* What JobProvider promises about the chores of one child: a board that   *)
(* holds, for every description k of a chore (type, note, date, points), a *)
(* number of open and a number of finished chores.  createJob opens one,   *)
(* finishJob turns an open one into a finished one, deleteJob removes an   *)
(* open one; finishJob and deleteJob return normally, and change nothing,  *)
(* when there is none.  JobBoard implements this specification; the pages  *)
(* (WorkDetail) are modelled on top of it.                                *)
(***************************************************************************)
EXTENDS Naturals

CONSTANTS Calls,         \* calls of JobProvider, over all devices
          Keys,          \* descriptions of chores
          InitialCounts, \* how many chores of a kind there may be at first
          MaxAttempts,   \* runs a transaction is given
          Unreliable     \* TRUE: replies of the server may be lost

VARIABLES open,     \* open[k]: chores k still to be done
          finished, \* finished[k]: chores k confirmed
          request,  \* request[c]: what call c asks for
          status,   \* status[c]: what call c's caller knows of it
          hits      \* hits[c]: how often call c changed the board

vars == <<open, finished, request, status, hits>>

Operations == {"create", "finish", "delete"}
NoRequest == [op |-> "none", key |-> "none"]

Init ==
  /\ open \in [Keys -> InitialCounts]
  /\ finished \in [Keys -> InitialCounts]
  /\ request = [c \in Calls |-> NoRequest]
  /\ status = [c \in Calls |-> "idle"]
  /\ hits = [c \in Calls |-> 0]

Begin(c, o, k) ==
  /\ status[c] = "idle"
  /\ request' = [request EXCEPT ![c] = [op |-> o, key |-> k]]
  /\ status' = [status EXCEPT ![c] = "pending"]
  /\ UNCHANGED <<open, finished, hits>>

\* The requested change of the board.
Change(c) ==
  LET k == request[c].key IN
  /\ status[c] = "pending"
  /\ hits[c] < MaxAttempts
  /\ \/ /\ request[c].op = "create"
        /\ open' = [open EXCEPT ![k] = @ + 1]
        /\ UNCHANGED finished
     \/ /\ request[c].op = "finish" /\ open[k] > 0
        /\ open' = [open EXCEPT ![k] = @ - 1]
        /\ finished' = [finished EXCEPT ![k] = @ + 1]
     \/ /\ request[c].op = "delete" /\ open[k] > 0
        /\ open' = [open EXCEPT ![k] = @ - 1]
        /\ UNCHANGED finished
  /\ hits' = [hits EXCEPT ![c] = @ + 1]
  /\ UNCHANGED request

Succeed(c) ==
  /\ Change(c)
  /\ status' = [status EXCEPT ![c] = "ok"]

\* Nothing to finish or to delete: the call returns all the same.
Miss(c) ==
  /\ status[c] = "pending"
  /\ request[c].op # "create" /\ open[request[c].key] = 0
  /\ status' = [status EXCEPT ![c] = "ok"]
  /\ UNCHANGED <<open, finished, request, hits>>

\* The board was changed and the reply was lost: c runs again, or gives up.
ChangeUnseen(c) ==
  /\ Unreliable
  /\ Change(c)
  /\ status' \in {status, [status EXCEPT ![c] = "failed"]}

Fail(c) ==
  /\ status[c] = "pending"
  /\ status' = [status EXCEPT ![c] = "failed"]
  /\ UNCHANGED <<open, finished, request, hits>>

Next ==
  \E c \in Calls :
    \/ \E o \in Operations, k \in Keys : Begin(c, o, k)
    \/ Succeed(c) \/ Miss(c) \/ ChangeUnseen(c) \/ Fail(c)

Spec == Init /\ [][Next]_vars

=============================================================================
