----------------------------- MODULE WriteContract -----------------------------
(***************************************************************************)
(* What a verified write (issueUpdateAtomicVerified, modelled step by step  *)
(* in TransitionWrite) leaves of a ticket, for the modules that take it as  *)
(* one step.  A ticket is a record of its state label st and delegate who.  *)
(***************************************************************************)

\* The write is confirmed, or accepted without a read-back; it is turned down,
\* undone, or left half-way.
WriteResults == {"ok", "unverified", "rejected", "rolledBack", "torn"}
Accepted == {"ok", "unverified"}

\* The ticket t with one of these delegates: the label lands with the mutation,
\* the delegate may be dropped on the way.
Seated(t, whos) == {[t EXCEPT !.who = w] : w \in whos}

\* The tickets a write of t may leave, now being the ticket before it and undo the
\* one it is rolled back to.
Leaves(result, t, now, undo) ==
    CASE result = "ok"         -> {t}
      [] result = "unverified" -> Seated(t, {t.who, now.who})
      [] result = "rejected"   -> {now}
      [] result = "rolledBack" -> Seated(undo, {undo.who, t.who, now.who})
      [] result = "torn"       -> Seated(t, {undo.who, t.who, now.who})
=============================================================================
