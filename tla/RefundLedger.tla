---------------------------- MODULE RefundLedger ----------------------------
(***************************************************************************)
(* What the ledger promises of one refund, whoever executes, notifies or   *)
(* polls it, without leases, keys, cases or requests: a success was paid,  *)
(* it is taken back only because the bank reversed it, what was given up   *)
(* stays so, and whoever was told of a refund that is gone is told that.   *)
(***************************************************************************)

\* Can a refund be recorded as refused without an answer of Stripe to it?
CONSTANT Refusable

VARIABLES
  refund,  \* at Stripe: "none", "open", "paid", "failed", "reversed" (paid, then failed)
  ledger,  \* the application: "open", "succeeded", "failed", "quarantined"
  told     \* messages to the customer: "issued", "correction"

Paid == {"paid", "reversed"}
Gone == {"failed", "reversed"}

Init == refund \in {"none", "open", "paid", "failed"} /\ ledger = "open" /\ told = {}

Create ==
  /\ refund = "none" /\ refund' \in {"open", "paid", "failed"}
  /\ UNCHANGED <<ledger, told>>

Settle ==
  /\ \/ refund = "open" /\ refund' \in {"paid", "failed"}
     \/ refund = "paid" /\ refund' = "reversed"
  /\ UNCHANGED <<ledger, told>>

Succeed ==
  /\ ledger = "open" /\ refund \in Paid
  /\ ledger' = "succeeded" /\ told' \in {told, told \cup {"issued"}}
  /\ UNCHANGED refund

Announce ==
  /\ ledger = "succeeded" /\ told' = told \cup {"issued"}
  /\ UNCHANGED <<refund, ledger>>

Fail ==
  /\ ledger = "open" /\ (Refusable \/ refund \in Gone)
  /\ ledger' = "failed" /\ told' \in {told, told \cup {"correction"}}
  /\ UNCHANGED refund

GiveUp ==
  /\ ledger = "open"
  /\ ledger' = "quarantined" /\ told' \in {told, told \cup {"correction"}}
  /\ UNCHANGED refund

\* The correction is sent with the write that takes the success back.
Reverse ==
  /\ ledger = "succeeded" /\ refund = "reversed"
  /\ ledger' = "failed" /\ told' \in {told, told \cup {"correction"}}
  /\ "issued" \in told => "correction" \in told'
  /\ UNCHANGED refund

Correct ==
  /\ ledger = "failed" /\ told' = told \cup {"correction"}
  /\ UNCHANGED <<refund, ledger>>

Next == Create \/ Settle \/ Succeed \/ Announce \/ Fail \/ GiveUp \/ Reverse \/ Correct

Spec == Init /\ [][Next]_<<refund, ledger, told>>

=============================================================================
