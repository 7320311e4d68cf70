------------------------------- MODULE LogPipe -------------------------------
(***************************************************************************)
(* What the logging component promises its callers: a log item handed to   *)
(* vLoggingPrintf enters one ordered byte stream as a whole, and the       *)
(* bytes of that stream reach the logging task in the same order, each     *)
(* exactly once, sooner or later.  Logging.tla implements this promise     *)
(* with a mutex, a bounded stream buffer and polling.                      *)
(***************************************************************************)
EXTENDS Naturals, Sequences

CONSTANT Items        \* the possible log items, each a sequence of bytes

VARIABLES sent,       \* every byte accepted so far, in order
          received    \* every byte handed to the logging task so far

vars == <<sent, received>>

Init == sent = <<>> /\ received = <<>>

\* One call of vLoggingPrintf: the item is appended whole.
Accept(item) ==
    /\ sent' = sent \o item
    /\ UNCHANGED received

\* The logging task obtains the next n bytes of the stream.
Deliver(n) ==
    /\ received' = SubSeq(sent, 1, Len(received) + n)
    /\ UNCHANGED sent

Next == \/ \E item \in Items : Accept(item)
        \/ \E n \in 1 .. (Len(sent) - Len(received)) : Deliver(n)

Spec == Init /\ [][Next]_vars

\* The promise with its liveness part: whatever was accepted is delivered.
FairSpec ==
    Spec /\ WF_vars(\E n \in 1 .. (Len(sent) - Len(received)) : Deliver(n))
==============================================================================
