--------------------------- MODULE MCAsyncWriter ---------------------------
(* Four entries against a channel of two and batches of two: the channel      *)
(* overflows, a batch fills up, a partial batch waits for the ticker, and      *)
(* entries arrive before, during and after the final drain.                    *)
EXTENDS AsyncWriter

CONSTANTS e1, e2, e3, e4
=============================================================================
