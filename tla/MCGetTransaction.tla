--------------------------- MODULE MCGetTransaction ---------------------------
(* An instance of GetTransaction for TLC.                                    *)
EXTENDS GetTransaction

CONSTANTS r1, r2, t1, t2

TwoReaders == {r1, r2}
TwoIds == {t1, t2}
OneId == {t1}
===============================================================================
