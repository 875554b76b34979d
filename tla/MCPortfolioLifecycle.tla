------------------------ MODULE MCPortfolioLifecycle ------------------------
(* PortfolioLifecycle for TLC.  Slugs and requests are interchangeable.    *)
EXTENDS PortfolioLifecycle, TLC

Interchangeable == Permutations(Slugs) \cup Permutations(Clients)

\* One user and every accident, or two users at once and none.
OneAtATime == [atOnce |-> 1, requests |-> 3, mutations |-> 1, dailyRuns |-> 1,
               faults |-> 1, drops |-> 1, restarts |-> 1]
Races == [atOnce |-> 2, requests |-> 4, mutations |-> 0, dailyRuns |-> 0,
          faults |-> 0, drops |-> 0, restarts |-> 0]
OneAtATimeOrRaces == {OneAtATime, Races}
RacesOnly == {Races}
=============================================================================
