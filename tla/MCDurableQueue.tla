--------------------------- MODULE MCDurableQueue ---------------------------
(* Bounded instances of DurableQueue: message ids and workers are model     *)
(* values, interchangeable, and the queue's limits are small enough to be   *)
(* reached.                                                                 *)
EXTENDS DurableQueue
CONSTANTS m1, m2, w1, w2

TwoIds == {m1, m2}
OneWorker == {w1}
TwoWorkers == {w1, w2}

Symmetry == Permutations(Ids) \union Permutations(Workers)
=============================================================================
