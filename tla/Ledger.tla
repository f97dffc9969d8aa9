------------------------------- MODULE Ledger -------------------------------
(***************************************************************************)
(* What the durable outbox promises, with no tables, claims, leases,       *)
(* retries or clocks: the abstract specification that Outbox implements.   *)
(*                                                                         *)
(* A repository is open while its notifications are wanted.  An event of a *)
(* repository is published at most once, to all channels at the same time, *)
(* and only while the repository is open.  A message is then queued until  *)
(* it is delivered, given up, or withdrawn because the repository closed.  *)
(***************************************************************************)
CONSTANTS Repos, Events, Channels, Filtered

VARIABLES
    open,       \* [Repos -> BOOLEAN]
    phase,      \* [Message -> {"none", "queued", "delivered", "failed", "cancelled"}]
    reached     \* [Message -> BOOLEAN]: the outside world has seen it

lvars == <<open, phase, reached>>

Message == Repos \X Events \X Channels

LedgerInit ==
    /\ open = [r \in Repos |-> FALSE]
    /\ phase = [m \in Message |-> "none"]
    /\ reached = [m \in Message |-> FALSE]

\* One commit: repositories open and close, closing withdraws, events are published.
Commit ==
    \E events \in SUBSET (Repos \X Events) :
        /\ open' \in [Repos -> BOOLEAN]
        /\ \A e \in events : open'[e[1]] /\ \A c \in Channels : phase[<<e[1], e[2], c>>] = "none"
        /\ phase' = [m \in Message |->
                        IF <<m[1], m[2]>> \in events THEN "queued"
                        ELSE IF ~open'[m[1]] /\ phase[m] \in {"queued", "failed"} THEN "cancelled"
                        ELSE phase[m]]
        /\ UNCHANGED reached

\* The message arrives; one that was withdrawn meanwhile may still be on its way.
Arrive(m) ==
    /\ phase[m] \in {"queued", "cancelled"}
    /\ reached' = [reached EXCEPT ![m] = TRUE]
    /\ UNCHANGED <<open, phase>>

Deliver(m) ==
    /\ phase[m] = "queued"
    /\ reached[m] \/ <<m[1], m[3]>> \in Filtered
    /\ phase' = [phase EXCEPT ![m] = "delivered"]
    /\ UNCHANGED <<open, reached>>

GiveUp(given) ==
    /\ \A m \in given : phase[m] = "queued"
    /\ phase' = [m \in Message |-> IF m \in given THEN "failed" ELSE phase[m]]
    /\ UNCHANGED <<open, reached>>

Retry(again) ==
    /\ \A m \in again : phase[m] = "failed"
    /\ phase' = [m \in Message |-> IF m \in again THEN "queued" ELSE phase[m]]
    /\ UNCHANGED <<open, reached>>

LedgerNext ==
    \/ Commit
    \/ \E m \in Message : Arrive(m) \/ Deliver(m)
    \/ \E some \in SUBSET Message : GiveUp(some) \/ Retry(some)

LedgerSpec == LedgerInit /\ [][LedgerNext]_lvars
=============================================================================
