---------------------- MODULE MCResilientPaymentProvider ----------------------
(* Instances of ResilientPaymentProvider for TLC.                            *)
EXTENDS ResilientPaymentProvider

CONSTANTS c1, c2

TwoCallers == {c1, c2}

\* The smallest and the largest jitter.
ExtremeRandoms == {0, 100}
===============================================================================
