--------------------------- MODULE MCWatchStream ---------------------------
(* A bundle with one accepted child, without a trace id as yet, and one whose  *)
(* write is unknown.  It has got through; what is found later in its place,    *)
(* with a trace id or without one, is another request's.                       *)
EXTENDS WatchStream, TLC

Working == [pref |-> "reconciling", effective |-> TRUE, target |-> TRUE, traced |-> FALSE]
Done == [pref |-> "full", effective |-> TRUE, target |-> TRUE, traced |-> TRUE]
MCBeginnings == {"a" :> Working @@ "u" :> Done}
=============================================================================
