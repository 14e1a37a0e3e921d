----------------------------- MODULE MCMacDemux -----------------------------
(***************************************************************************)
(* All PDUs of up to three subheaders over one channel of each kind, SDUs  *)
(* of up to three bytes and any length of the PDU that matters for them.   *)
(***************************************************************************)
EXTENDS MacDemux

CONSTANTS MaxSubheaders, MaxLength

Plain(lcId, ext) == [lcId |-> lcId, ext |-> ext, long |-> FALSE, len |-> 0]
WithoutField(ext) == {Plain(l, ext) : l \in {11, 26, 27, 30, 31}}
WithField == [lcId : {0, 1}, ext : {TRUE}, long : {FALSE}, len : {0, 1, 3}]
             \cup [lcId : {1}, ext : {TRUE}, long : {TRUE}, len : {1}]
LastOnes == WithoutField(FALSE) \cup {Plain(0, FALSE), Plain(2, FALSE)}

\* n subheaders with the extension bit and one without it
Headers(n) ==
    {Append(s, last) : s \in [1 .. n -> WithField \cup WithoutField(TRUE)], last \in LastOnes}

AllPdus == [length : 1 .. MaxLength,
            subs : UNION {Headers(n) : n \in 0 .. MaxSubheaders - 1}]
=============================================================================
