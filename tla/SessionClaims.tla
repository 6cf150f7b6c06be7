--------------------------- MODULE SessionClaims ---------------------------
(***************************************************************************)
(* What the session tracker promises the callers of                        *)
(* resignalPendingTickets, whatever they do with it: a pair is claimed for *)
(* one wake at a time, a second wake of it begins only after the claim has *)
(* been released, and a claim outlives the wake that made it.              *)
(***************************************************************************)
EXTENDS Naturals

CONSTANTS Pairs,   \* what is claimed: an agent and a ticket
          Jobs     \* who claims

VARIABLES taken,   \* the claimed pairs
          wake     \* the wakes still holding their claim: <<job, pair>>

Init == taken = {} /\ wake = {}

\* A job that is in no wake claims a free pair and starts to wake it.
Claim(j, p) ==
  /\ p \notin taken
  /\ \A w \in wake : w[1] # j
  /\ taken' = taken \cup {p}
  /\ wake' = wake \cup {<<j, p>>}

\* The wake is over; its claim stays, for the session it started.
Settle(j) ==
  /\ taken' = taken
  /\ wake' = {w \in wake : w[1] # j}

\* Somebody ends claims: the session ended, went stale or started nothing.
Release(S) ==
  /\ taken' = taken \ S
  /\ wake' = {w \in wake : w[2] \notin S}

Next ==
  \/ \E j \in Jobs : (\E p \in Pairs : Claim(j, p)) \/ Settle(j)
  \/ \E S \in SUBSET Pairs : Release(S)

Spec == Init /\ [][Next]_<<taken, wake>>
=============================================================================
