------------------------- MODULE MCJournalledQueue --------------------------
(* A bounded instance of JournalledQueue: two messages, one worker, a       *)
(* pending list of one and two faults.                                      *)
EXTENDS JournalledQueue
CONSTANTS m1, m2, w1

TwoIds == {m1, m2}
OneWorker == {w1}
=============================================================================
