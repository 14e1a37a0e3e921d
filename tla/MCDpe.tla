------------------------------- MODULE MCDpe -------------------------------
(***************************************************************************)
(* Sightings of the target, of a UE that looks like it, and of a UE whose  *)
(* power the PHY did not report; identities with an IMSI, with both        *)
(* identities and with the M-TMSI alone.                                   *)
(***************************************************************************)
EXTENDS Dpe

MCInfos == {[prbPower |-> 65, ta |-> 5], [prbPower |-> 0, ta |-> 5]}

MCIdentities == {[imsi |-> "i1", mTmsiPresent |-> FALSE], [imsi |-> "i2", mTmsiPresent |-> FALSE],
                 [imsi |-> "i1", mTmsiPresent |-> TRUE], [imsi |-> "any", mTmsiPresent |-> TRUE]}
=============================================================================
