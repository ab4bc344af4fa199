---------------------------- MODULE EmailPromise ----------------------------
(***************************************************************************)
(* What the outbox promises the flow that queued a mail: its fate is       *)
(* decided once; it is called delivered only after the provider took a     *)
(* copy.  Copies may still leave after the fate is decided (a worker that  *)
(* lost its lease may be in the middle of its call), and the number of     *)
(* copies is bounded only by EmailOutbox!CopiesExcused.                    *)
(***************************************************************************)
EXTENDS Naturals

CONSTANT Emails

VARIABLES fate, copies

Fates == {"none", "archived", "queued", "delivered", "dead"}

Init == fate = [e \in Emails |-> "none"] /\ copies = [e \in Emails |-> 0]

Decide(e, from, to) == fate[e] = from /\ fate' = [fate EXCEPT ![e] = to]

\* The development provider stores the mail and sends nothing.
Archive(e) == Decide(e, "none", "archived") /\ UNCHANGED copies
Queue(e) == Decide(e, "none", "queued") /\ UNCHANGED copies

\* The mail provider takes one copy.
Accept(e) ==
    /\ fate[e] \in {"queued", "delivered", "dead"}
    /\ copies' = [copies EXCEPT ![e] = @ + 1]
    /\ UNCHANGED fate

Deliver(e) == copies[e] > 0 /\ Decide(e, "queued", "delivered") /\ UNCHANGED copies
GiveUp(e) == Decide(e, "queued", "dead") /\ UNCHANGED copies

Next == \E e \in Emails :
    Archive(e) \/ Queue(e) \/ Accept(e) \/ Deliver(e) \/ GiveUp(e)

PromiseSpec == Init /\ [][Next]_<<fate, copies>>
=============================================================================
