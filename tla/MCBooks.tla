------------------------------- MODULE MCBooks -------------------------------
(* A small instance of Books: one order, one client and the poller. *)
EXTENDS Books, TLC

OneRequest == {[merchant |-> <<"m">>, order |-> "o1", key |-> NoKey, body |-> "b1"]}
OneMerchant == {<<"m">>}

AnyExport == Permutations(Exports)
=============================================================================
