----------------------------- MODULE AtMostOnce -----------------------------
(***************************************************************************)
(* What a binding or pub/sub component without acknowledgements does with  *)
(* a message: it is under way, and then either handed to a handler or      *)
(* gone, and that is final.  A copy is a message together with a reader,   *)
(* or with a group of readers that share the messages.                     *)
(***************************************************************************)
CONSTANT Copies

VARIABLE fate   \* per copy: "unsent", "underway", "handed" or "gone"

Init == \A c \in Copies : fate[c] = "unsent"

\* What may become of a copy that is not handed on.
After(f) ==
  IF f = "unsent" THEN {"unsent", "underway", "gone"}
  ELSE IF f = "underway" THEN {"underway", "gone"} ELSE {f}

Move == \A c \in Copies : fate'[c] \in After(fate[c])

Hand(c) ==
  /\ fate[c] = "underway" /\ fate'[c] = "handed"
  /\ \A d \in Copies \ {c} : fate'[d] = fate[d]

Next == Move \/ \E c \in Copies : Hand(c)

Spec == Init /\ [][Next]_fate
=============================================================================
