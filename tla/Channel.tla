------------------------------- MODULE Channel -------------------------------
(***************************************************************************)
(* What one direction of a connection promises: messages are received in   *)
(* the order they were sent, none twice, none altered and none left out,   *)
(* until a new connection is opened.                                       *)
(***************************************************************************)
EXTENDS Sequences, Naturals

VARIABLES
    sent,     \* what was sent since the connection was opened
    got       \* what was received of it

Init == sent = << >> /\ got = << >>

\* Some messages are sent at once.
Send ==
    /\ Len(sent') > Len(sent)
    /\ SubSeq(sent', 1, Len(sent)) = sent
    /\ UNCHANGED got

Receive ==
    /\ Len(got) < Len(sent)
    /\ got' = Append(got, sent[Len(got) + 1])
    /\ UNCHANGED sent

Open == sent' = << >> /\ got' = << >>

Next == Send \/ Receive \/ Open

Spec == Init /\ [][Next]_<< sent, got >>

=============================================================================
