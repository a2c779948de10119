-------------------------- MODULE MCPaymentIntents --------------------------
(* Small instances of PaymentIntents: requests and merchants for the runs. *)
EXTENDS PaymentIntents, TLC

\* Requests of one merchant for one order without a key: settlement runs.
OneRequest == {[merchant |-> <<"m">>, order |-> "o1", key |-> NoKey, body |-> "b1"]}

\* Two requests without a key, for two orders: the poller has two intents.
TwoRequests ==
    [merchant : {<<"m">>}, order : {"o1", "o2"}, key : {NoKey}, body : {"b1"}]

\* Two orders, a key, an empty key or none, two bodies, an unknown merchant.
ManyRequests ==
    [merchant : {<<"m">>}, order : {"o1", "o2"}, key : {<<"k">>}, body : {"b1", "b2"}]
      \cup
    [merchant : {<<"m">>}, order : {"o1"}, key : {<<>>, NoKey}, body : {"b1"}]
      \cup
    [merchant : {<<"x">>}, order : {"o1"}, key : {<<"k">>}, body : {"b1"}]

\* Merchants "m" and "m:a": key "a:b" of the one meets key "b" of the other.
CollidingRequests ==
    { [merchant |-> <<"m">>, order |-> "o1", key |-> <<"a", ":", "b">>, body |-> "b1"],
      [merchant |-> <<"m", ":", "a">>, order |-> "o1", key |-> <<"b">>, body |-> "b1"] }

AllRequests == ManyRequests \cup CollidingRequests

OneMerchant == {<<"m">>}
TwoMerchants == {<<"m">>, <<"m", ":", "a">>}

AnyCreate == Permutations(Creates)
AnyCall == Permutations(Calls)
=============================================================================
