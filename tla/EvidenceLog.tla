----------------------------- MODULE EvidenceLog -----------------------------
(***************************************************************************)
(* What the archive of raw captures promises (ADR-0003), without a writer, *)
(* a lock, a cache or an object store: one log per day that only grows, by *)
(* one item at a time, each the item of a call still waiting for its       *)
(* answer; a call is confirmed only after its item is in the log, and a    *)
(* call that was told it failed is never recorded afterwards.              *)
(***************************************************************************)
EXTENDS Sequences

CONSTANTS Call,     \* the calls that offer an item
          Item,     \* what they may offer
          Day,      \* one log for each
          LogOf    \* the log an item belongs to

VARIABLES log,      \* the items recorded on each day
          item,     \* what each call offers
          status    \* "new", "offered", "recorded", "confirmed" or "rejected"

vars == <<log, item, status>>

Init ==
    /\ log = [d \in Day |-> <<>>]
    /\ item \in [Call -> Item]
    /\ status = [c \in Call |-> "new"]

Offer(c) ==
    /\ status[c] = "new"
    /\ status' = [status EXCEPT ![c] = "offered"]
    /\ \E x \in Item : item' = [item EXCEPT ![c] = x]
    /\ UNCHANGED log

Record(c) ==
    /\ status[c] = "offered"
    /\ status' = [status EXCEPT ![c] = "recorded"]
    /\ log' = [log EXCEPT ![LogOf[item[c]]] = Append(@, item[c])]
    /\ UNCHANGED item

Confirm(c) ==
    /\ status[c] = "recorded"
    /\ status' = [status EXCEPT ![c] = "confirmed"]
    /\ UNCHANGED <<log, item>>

\* Calls that are told, or find out, that nobody will answer them.
Reject(C) ==
    /\ \A c \in C : status[c] \in {"offered", "recorded"}
    /\ status' = [c \in Call |-> IF c \in C THEN "rejected" ELSE status[c]]
    /\ UNCHANGED <<log, item>>

Next ==
    \/ \E c \in Call : Offer(c) \/ Record(c) \/ Confirm(c)
    \/ \E C \in SUBSET Call : Reject(C)

Spec == Init /\ [][Next]_vars
=============================================================================
