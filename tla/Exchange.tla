------------------------------- MODULE Exchange -----------------------------
(***************************************************************************)
(* What a transaction without INVITE promises its two users, whatever the  *)
(* network does: the client learns of one outcome, and an answer it learns *)
(* of is one that was given; the server is asked once, and again only when *)
(* its transaction was lost to an answer that could not be sent.           *)
(* NonInvite implements it.                                                *)
(***************************************************************************)

CONSTANT Answer  \* the final responses

VARIABLES
    client,  \* "idle", "waiting", or the outcome: an answer or a failure
    server,  \* whether the user of the server transaction was asked
    given    \* the answers it gave

exchange == <<client, server, given>>

Failure == {"timeout", "error"}

Init ==
    /\ client = "idle"
    /\ server = "unasked"
    /\ given = {}

Request ==
    /\ client = "idle"
    /\ client' = "waiting"
    /\ UNCHANGED <<server, given>>

Ask ==
    /\ client # "idle"
    /\ server \in {"unasked", "lost"}
    /\ server' = "asked"
    /\ UNCHANGED <<client, given>>

Give(a) ==
    /\ server = "asked"
    /\ server' = "answered"
    /\ given' = given \cup {a}
    /\ UNCHANGED client

Lose ==
    /\ server \in {"asked", "answered"}
    /\ server' = "lost"
    /\ UNCHANGED <<client, given>>

Learn ==
    /\ client = "waiting"
    /\ client' \in given \cup Failure
    /\ UNCHANGED <<server, given>>

Next == Request \/ Ask \/ (\E a \in Answer : Give(a)) \/ Lose \/ Learn

Spec == Init /\ [][Next]_exchange /\ WF_exchange(Learn)
=============================================================================
