------------------------- MODULE MCPreorderPayment -------------------------
(* Instances of PreorderPayment for TLC: what the payments of Square do. *)
EXTENDS PreorderPayment

\* Square completes or refuses a payment at once, and tells of a refused one
\* once more with a newer updated_at.
ToldAgain == {<<"absent", "paid">>, <<"absent", "declined">>, <<"declined", "declined">>}

\* Square tells that a payment it had refused was taken after all, as in the
\* late-evidence test of the capacity suite.
Revised == {<<"absent", "paid">>, <<"absent", "declined">>, <<"declined", "paid">>}

\* A payment is authorized or refused first, and a completed one is refunded,
\* or its refund fails.
Refunds == {<<"absent", "paid">>, <<"absent", "declined">>,
            <<"absent", "authorized">>, <<"authorized", "paid">>,
            <<"paid", "refund_pending">>, <<"refund_pending", "refunded">>,
            <<"refund_pending", "paid">>}
=============================================================================
