----------------------------- MODULE MCPayments -----------------------------
(* Instances of Payments for TLC. *)
EXTENDS Payments, TLC

CONSTANTS b1, b2, i1, i2, c1, c2, h1, h2

\* No handler depends on which slot runs it, on the intent's id or on the
\* order of the legs.
Alike == Permutations(Bookings) \union Permutations(Intents)
            \union Permutations(Clients) \union Permutations(Hooks)

\* The API without the two calls that confirm a payment.
NoConfirm == {"createPaymentIntent", "createGroupPaymentIntent",
              "refundPayment", "refundBooking", "cancelBooking"}
AllRequests == NoConfirm \union {"confirmPayment", "confirmGroupPayment"}
SingleOnly == {"createPaymentIntent", "refundBooking", "cancelBooking"}
GroupOnly == {"createGroupPaymentIntent", "refundPayment", "refundBooking",
              "cancelBooking"}

\* At most two requests, resends, declined attempts, errors and crashes in all.
FewEvents == requests + resent + failedPayments + errors + crashes <= 2
=============================================================================
