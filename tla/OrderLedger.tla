----------------------------- MODULE OrderLedger -----------------------------
(***************************************************************************)
(* Vocabulary of the durable order ledger (store.CopyTradeOrder) shared by *)
(* the modules that move its rows: the statuses a row goes through, and    *)
(* the ones after which the copy trader never expects the venue to move    *)
(* the order again.                                                        *)
(***************************************************************************)

(* Statuses the executor writes itself.  PLANNED is committed before any   *)
(* venue call, SUBMITTING immediately before the submit call, UNKNOWN when *)
(* that call ended without a definite answer.                              *)
Uncertain == {"SUBMITTING", "UNKNOWN"}
Voided    == {"REJECTED", "ABANDONED"}

(* Statuses copied from venue answers.  EXPIRED stands for EXPIRED and     *)
(* EXPIRED_IN_MATCH, CANCELED for both spellings.                          *)
Working == {"NEW", "PARTIALLY_FILLED"}
Ended   == {"FILLED", "CANCELED", "EXPIRED"}

RowStatus   == {"PLANNED"} \cup Uncertain \cup Voided \cup Working \cup Ended
VenueStatus == {"ABSENT"} \cup Working \cup Ended

orderTerminal(status) == status \in Ended \cup Voided

(* What the venue reports of an order of quantity q with e executed while  *)
(* it still rests on the book.                                             *)
WorkingStatus(e) == IF e = 0 THEN "NEW" ELSE "PARTIALLY_FILLED"
=============================================================================
