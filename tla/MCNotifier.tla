----------------------------- MODULE MCNotifier -----------------------------
(* Notifier for TLC: a callback for all entries, one for remote changes of   *)
(* one entry, and a poller.                                                  *)
EXTENDS Notifier

CONSTANTS n1, n2, p

AllFlags == {"immediate", "local", "new", "delete", "update", "flags"}

SpecsUsed == {
    [names |-> Names, flags |-> AllFlags \ {"flags"}, poller |-> NoPoller],
    [names |-> {n1}, flags |-> {"update", "flags"}, poller |-> NoPoller],
    [names |-> {n1}, flags |-> AllFlags, poller |-> p]}
=============================================================================
