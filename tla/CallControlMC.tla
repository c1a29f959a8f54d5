---------------------------- MODULE CallControlMC ---------------------------
(* Two calls.  Everything may happen to the first; the second keeps the      *)
(* application busy: its caller never cancels, and what is sent to it can be *)
(* sent.  The safety invariants are proved for any number of calls without   *)
(* this limit, in CallControlProofs.                                         *)
EXTENDS CallControl

CONSTANTS c1, c2

NextWithOther ==
    /\ Next
    /\ cancel'[c2] = "none"
    /\ ist'[c2] = "terminated" => sent'[c2] \cap {"200", "neg"} # {}

SpecWithOther == Init /\ [][NextWithOther]_vars /\ Fairness
=============================================================================
