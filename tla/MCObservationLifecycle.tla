----------------------- MODULE MCObservationLifecycle -----------------------
(* Instance of ObservationLifecycle: the names of turns are alike, and so  *)
(* are those of requests.                                                  *)
EXTENDS ObservationLifecycle, TLC

Alike == Permutations(Turns) \cup Permutations(Generations)
=============================================================================
