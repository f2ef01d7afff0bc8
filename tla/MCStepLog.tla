----------------------------- MODULE MCStepLog -----------------------------
(* Programs of four cycles.  The first uses both TLB slots, replaces one    *)
(* and faults on page 7, outside the PMAs; the second changes its own page  *)
(* table and flushes; the third is answered once and then rejects its input.*)
EXTENDS StepLog

MCCodes == {<<<<STORE, 0, 1>>, <<COPY, 0, 1>>, <<STORE, 2, 2>>, <<FLUSH>>, <<FLUSH>>>>,
            <<<<COPY, 1, 0>>, <<STORE, 3, 6>>, <<FLUSH>>, <<STORE, 0, 1>>, <<FLUSH>>>>,
            <<<<YIELD, ACCEPTED>>, <<STORE, 1, 1>>, <<YIELD, REJECTED>>, <<FLUSH>>, <<FLUSH>>>>}
=============================================================================
