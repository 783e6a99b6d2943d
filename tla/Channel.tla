------------------------------ MODULE Channel ------------------------------
(* What one direction of a connection promises: what arrives is, message by *)
(* message, what was sent.  It may stop at any point.                       *)
EXTENDS Sequences, Naturals

CONSTANT Message
VARIABLES sent, got

Init == sent = <<>> /\ got = <<>>

Send ==
    /\ \E m \in Message : sent' = Append(sent, m)
    /\ UNCHANGED got

Deliver ==
    /\ Len(got) < Len(sent)
    /\ got' = Append(got, sent[Len(got) + 1])
    /\ UNCHANGED sent

Spec == Init /\ [][Send \/ Deliver]_<<sent, got>>
=============================================================================
