--------------------------- MODULE WakeDispatchMC ---------------------------
EXTENDS WakeDispatch, TLC
CONSTANTS a1, a2, t1, t2, j1, j2
OneAgent == {a1}
TwoAgents == {a1, a2}
OneTicket == {t1}
TwoTickets == {t1, t2}
TwoJobs == {j1, j2}
Symmetry == Permutations(Agents) \cup Permutations(Tickets) \cup Permutations(Jobs)

=============================================================================
