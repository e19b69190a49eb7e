--------------------------- MODULE MCMirrorQueue ---------------------------
(***************************************************************************)
(* Instances of MirrorQueue for TLC: two circulars, one job of a kind, two *)
(* worker threads.                                                         *)
(***************************************************************************)
EXTENDS MirrorQueue, TLC

(* The whole backlog in batches of one circular, three attempts each.      *)
BatchRequest ==
  [b \in Backfills |-> [statuses |-> {"pending", "failed"}, scope |-> Ids, size |-> 1,
                        workers |-> 2, maxAttempts |-> 3, repeat |-> TRUE]]

(* One batch of both circulars, on two threads, one attempt each.          *)
PoolRequest ==
  [b \in Backfills |-> [statuses |-> {"pending", "failed"}, scope |-> Ids, size |-> 2,
                        workers |-> 2, maxAttempts |-> 1, repeat |-> FALSE]]

NoDisturbance == [k \in Disturbances |-> 0]
Crashes       == [NoDisturbance EXCEPT !["crash"] = 1]
Restarts      == [NoDisturbance EXCEPT !["crash"] = 1, !["maintenance"] = 1]
OneEach       == [k \in Disturbances |-> 1]
TwoCrashes    == [k \in Disturbances |-> IF k = "crash" THEN 2 ELSE 1]

Alike == Permutations(Ids)

=============================================================================
