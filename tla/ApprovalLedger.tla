--------------------------- MODULE ApprovalLedger ---------------------------
(***************************************************************************)
(* What the gateway promises of approvals: an approval is a right to apply *)
(* one plan, on one NAS, with one token.  It is open when an administrator *)
(* grants it, and it leaves that state once and for all: it is spent by    *)
(* the one call that applies its plan, or it becomes void.  Nothing opens  *)
(* it again.  What is not high-risk needs no right, and a caller who was   *)
(* asked may consent to the plan of that one call.                         *)
(***************************************************************************)
CONSTANTS Plan, Nas, TokenId, ApprovalId, Call

VARIABLES
  ledger,   \* the rights, with what has become of each
  outcome   \* which calls were let through, and for what

vars == <<ledger, outcome>>

Unused == [status |-> "unused"]
Right(plan, nas, token, status) ==
  [status |-> status, plan |-> plan, nas |-> nas, token |-> token]

Waiting == [passed |-> FALSE]
Passed(plan, token, via) ==
  [passed |-> TRUE, plan |-> plan, token |-> token, via |-> via]

Init ==
  /\ ledger = [a \in ApprovalId |-> Unused]
  /\ outcome = [c \in Call |-> Waiting]

Open == {a \in ApprovalId : ledger[a].status = "open"}

Grant(a) ==
  /\ ledger[a] = Unused
  /\ \E plan \in Plan, nas \in Nas, token \in TokenId :
       ledger' = [ledger EXCEPT ![a] = Right(plan, nas, token, "open")]
  /\ UNCHANGED outcome

BecomeVoid ==
  /\ \E S \in SUBSET Open :
       ledger' = [a \in ApprovalId |->
                    IF a \in S THEN [ledger[a] EXCEPT !.status = "void"]
                    ELSE ledger[a]]
  /\ UNCHANGED outcome

Spend(c, a) ==
  /\ outcome[c] = Waiting /\ a \in Open
  /\ ledger[a].nas = ledger[a].plan.nas
  /\ ledger' = [ledger EXCEPT ![a].status = "spent"]
  /\ outcome' = [outcome EXCEPT ![c] = Passed(ledger[a].plan, ledger[a].token, a)]

Consent(c) ==
  /\ outcome[c] = Waiting
  /\ \E plan \in Plan, token \in TokenId :
       outcome' = [outcome EXCEPT ![c] = Passed(plan, token, "grant")]
  /\ UNCHANGED ledger

NeedsNone(c) ==
  /\ outcome[c] = Waiting
  /\ \E plan \in Plan, token \in TokenId :
       /\ plan.risk # "high"
       /\ outcome' = [outcome EXCEPT ![c] = Passed(plan, token, "none")]
  /\ UNCHANGED ledger

Next ==
  \/ BecomeVoid
  \/ \E a \in ApprovalId : Grant(a)
  \/ \E c \in Call : Consent(c) \/ NeedsNone(c) \/ \E a \in ApprovalId : Spend(c, a)

Spec == Init /\ [][Next]_vars

=============================================================================
