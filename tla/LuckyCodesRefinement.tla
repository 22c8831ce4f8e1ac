------------------------ MODULE LuckyCodesRefinement ------------------------
(* LuckyCodes implements LuckyLedger, on the columns of lucky_codes.          *)
EXTENDS LuckyCodes

Ledger == INSTANCE LuckyLedger WITH
    state     <- status,
    offeredBy <- owner,
    takenBy   <- usedBy,
    answered  <- handed

(* Receiving, using, failing, expiring and restarting in any order change the
   rows as the ledger allows: a code that was used never becomes available
   again, nor changes hands, whatever the list and the claim keys say.       *)
LuckyLedgerSpec == Ledger!Spec
=============================================================================
