----------------------------- MODULE MCRrcParse -----------------------------
(***************************************************************************)
(* Two RNTIs, two IMSIs and two M-TMSIs.                                   *)
(***************************************************************************)
EXTENDS RrcParse

CONSTANTS r1, r2, imsi1, imsi2, mTmsi1, mTmsi2
TwoRntis == {r1, r2}
TwoImsis == {imsi1, imsi2}
TwoMTmsis == {mTmsi1, mTmsi2}
=============================================================================
