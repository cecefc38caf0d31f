----------------------------- MODULE MCApprovals -----------------------------
(***************************************************************************)
(* Instance of Approvals for TLC: r1 and r2 are equal requests, r3 differs *)
(* from them in the body only; r4 and r5 are force-interactive and differ  *)
(* in the body, so that the rule one of them leaves behind matches the     *)
(* other.  A tier covers all of them; r1, r2 and r3 come from the cloud    *)
(* with a forced approval.                                                 *)
(***************************************************************************)
EXTENDS Approvals

CONSTANTS r1, r2, r3, r4, r5, p1, p2, p3, p4, read, push

PrintOf == [r \in Requests |->
              CASE r \in {r1, r2} -> p1 [] r = r3 -> p2 [] r = r4 -> p3 [] r = r5 -> p4]

KeyOfPrint == [p \in Fingerprints |-> IF p \in {p3, p4} THEN push ELSE read]

=============================================================================
