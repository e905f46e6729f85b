--------------------------- MODULE MCJobLifecycle ---------------------------
(* Instances of JobLifecycle for TLC. *)
EXTENDS JobLifecycle, TLC

CONSTANTS w1, w2, r1, r2

OneRun == [r \in {r1} |-> w1]
OneWorker == [r \in {r1, r2} |-> w1]

\* Behaviours that differ by the names of copies and runs are one: the first message is
\* the first copy, and the first delivery is to the first run.
FirstCopy == CHOOSE c \in Copies : TRUE
FirstRun == CHOOSE r \in Runs : TRUE

InOrder ==
  /\ (\A c \in Copies : queue[c] = "free") => \A c \in Copies \ {FirstCopy} : queue'[c] = "free"
  /\ (\A r \in Runs : msg[r] = NoMessage) => \A r \in Runs \ {FirstRun} : msg'[r] = NoMessage

FairSpecInOrder == Init /\ [][Next /\ InOrder]_vars /\ Fairness

CopySymmetry == Permutations(Copies)
=============================================================================
