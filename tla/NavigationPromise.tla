------------------------- MODULE NavigationPromise -------------------------
(***************************************************************************)
(* Navigation implements PathRequest: all that its sessions and threads do *)
(* shows to RMF only as the steps of the abstract specification.           *)
(***************************************************************************)
EXTENDS Navigation

\* What became of the goal of request r, as RMF's interest in it goes.
ResultOf(r) ==
  CASE goal[r] = "unsent" -> "nothing"
    [] goal[r] \in {"sent", "executing"} -> "sent"
    [] goal[r] \in {"rejected", "lost"} -> "refused"
    [] goal[r] = "succeeded" -> "arrived"
    [] OTHER -> "gaveUp"

Promise == INSTANCE PathRequest WITH
  asked <- reqs,
  result <- [r \in Requests |-> ResultOf(r)],
  unanswered <- refused,
  told <- finished

\* PathHandle, NavigationController and NavigationSession together keep the
\* promise to RMF: whatever the three threads do, each step either changes
\* nothing RMF can see or is one of the steps PathRequest allows
\* (follow_new_path, dock, stop, execute_path, status_callback,
\* take_pending_failure).
KeepsPromise == Promise!Spec
=============================================================================
