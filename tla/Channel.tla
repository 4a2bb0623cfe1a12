------------------------------- MODULE Channel -------------------------------
(***************************************************************************)
(* What one direction of a connection between two nodes promises to the    *)
(* message handlers: the messages queued at one remoteNode arrive at the   *)
(* other one whole, in order and at most once.  Only while the receiving   *)
(* end has not verified its peer, or is going down, is one dropped; its    *)
(* sender may go down with messages still queued.                          *)
(***************************************************************************)
EXTENDS Integers, Sequences

CONSTANTS Message, Verify(_)   \* Verify(m): m is a VERIFY or VERIFYOK

VARIABLES
    sent,        \* messages queued by the sending end, in order
    passed,      \* how many of them the receiving end is done with
    delivered,   \* what the receiving end handed on, in order
    verified,    \* the receiving end has verified its peer and is up
    closing      \* the receiving end is going down

vars == <<sent, passed, delivered, verified, closing>>

Init ==
    /\ sent = <<>> /\ passed = 0 /\ delivered = <<>>
    /\ verified = FALSE /\ closing = FALSE

Send ==
    /\ \E m \in Message : sent' = Append(sent, m)
    /\ UNCHANGED <<passed, delivered, verified, closing>>

Deliver ==
    /\ passed < Len(sent)
    /\ passed' = passed + 1
    /\ delivered' = Append(delivered, sent[passed'])
    /\ verified \/ closing \/ Verify(sent[passed'])
    /\ UNCHANGED <<sent, verified, closing>>

Drop ==
    /\ passed < Len(sent)
    /\ passed' = passed + 1
    /\ closing \/ (~verified /\ ~Verify(sent[passed']))
    /\ UNCHANGED <<sent, delivered, verified, closing>>

(* Leaving the handshake takes a VERIFY that was delivered. *)
Verified ==
    /\ ~closing
    /\ \E i \in 1 .. Len(delivered) : Verify(delivered[i])
    /\ verified' = TRUE
    /\ UNCHANGED <<sent, passed, delivered, closing>>

Close ==
    /\ closing' = TRUE /\ verified' = FALSE
    /\ UNCHANGED <<sent, passed, delivered>>

Next == Send \/ Deliver \/ Drop \/ Verified \/ Close

Spec == Init /\ [][Next]_vars
=============================================================================
