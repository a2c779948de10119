---------------------------- MODULE MCStorefront ----------------------------
(* One order and the webhook that fulfils it.  It arrives as it was signed,  *)
(* under another secret, during a change of secrets, stamped anew and broken. *)
EXTENDS Storefront, TLC

CONSTANTS paidEvent, o1, oldSecret, newSecret

typeOf == paidEvent :> "payment_intent.paid"
orderOf == paidEvent :> o1

Old == ComputeSignature(oldSecret, 2, paidEvent)
New == ComputeSignature(newSecret, 2, paidEvent)
Signed == BuildSignatureHeader(newSecret, paidEvent, 2)

Request(header, body, now) == [header |-> header, body |-> body, now |-> now]

requests ==
    {Request(Signed, paidEvent, now) : now \in {0, 3, 4}} \cup
    { Request(<<Timestamp(2), SignedBy(Old), OtherPart, SignedBy(New)>>, paidEvent, 1),
      Request(<<Timestamp(2), SignedBy(New), Timestamp(4)>>, paidEvent, 3),
      Request(<<Timestamp(2)>>, paidEvent, 2),
      Request(Signed \o <<Garbled>>, paidEvent, 2),
      Request(BuildSignatureHeader(newSecret, NotJson, 2), NotJson, 2) }
=============================================================================
