------------------------------- MODULE States -------------------------------
(***************************************************************************)
(* The status machines of server/domain/states.ts: for each column the     *)
(* table of the moves that assertTransition accepts.  Every other module   *)
(* guards its writes with these tables exactly where the code calls        *)
(* assertTransition or assertBookingOverride, and nowhere else.            *)
(***************************************************************************)

CheckoutStates == {"ready_for_payment", "payment_pending", "completed", "expired"}

IntentStates ==
    {"created", "pending", "succeeded", "failed", "cancelled", "refunded"}

OrderStates ==
    {"paid_booking_pending", "confirmed", "reservation_failed",
     "compensation_pending", "refunded", "manual_review_required"}

AttemptStates ==
    {"SELECTED", "PRICE_VALIDATED", "RESERVED", "CONFIRMED", "FAILED", "UNKNOWN"}

RefundStates == {"requested", "processing", "completed", "failed"}

CheckoutMoves == [s \in CheckoutStates |->
    CASE s = "ready_for_payment" -> {"payment_pending", "expired"}
      [] s = "payment_pending"   -> {"completed", "ready_for_payment", "expired"}
      [] OTHER                   -> {}]

IntentMoves == [s \in IntentStates |->
    CASE s = "created"   -> {"pending", "succeeded", "failed", "cancelled"}
      [] s = "pending"   -> {"succeeded", "failed", "cancelled"}
      [] s = "succeeded" -> {"refunded"}
      [] OTHER           -> {}]

OrderMoves == [s \in OrderStates |->
    CASE s = "paid_booking_pending" ->
            {"confirmed", "reservation_failed", "manual_review_required"}
      [] s \in {"confirmed", "reservation_failed"} -> {"compensation_pending"}
      [] s = "compensation_pending" -> {"refunded", "manual_review_required"}
      [] s = "manual_review_required" ->
            {"confirmed", "reservation_failed", "compensation_pending"}
      [] OTHER -> {}]

AttemptMoves == [s \in AttemptStates |->
    CASE s = "SELECTED"        -> {"PRICE_VALIDATED", "FAILED", "UNKNOWN"}
      [] s = "PRICE_VALIDATED" -> {"RESERVED", "FAILED", "UNKNOWN"}
      [] s = "RESERVED"        -> {"CONFIRMED", "FAILED", "UNKNOWN"}
      [] s = "UNKNOWN"         -> {"CONFIRMED", "FAILED", "UNKNOWN"}
      [] OTHER                 -> {}]

\* What an operator may set by hand; refunded orders are closed to the panel.
OverrideMoves == [s \in OrderStates |->
    CASE s = "paid_booking_pending" ->
            {"confirmed", "reservation_failed", "manual_review_required"}
      [] s \in {"confirmed", "reservation_failed", "compensation_pending"} ->
            {"manual_review_required"}
      [] s = "manual_review_required" -> {"confirmed", "reservation_failed"}
      [] OTHER -> {}]

\* assertTransition and assertBookingOverride: writing the state a row already
\* has is always accepted.
Allowed(moves, from, to) == from = to \/ to \in moves[from]

=============================================================================
