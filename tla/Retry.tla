------------------------------- MODULE Retry -------------------------------
(***************************************************************************)
(* The part of package state that every store shares: the keywords of the  *)
(* request options, their validation and the control of the retry loop     *)
(* (src/state/retry.go).  Time itself is not modelled: the pause between   *)
(* two attempts is a step of the caller, its length is left out.           *)
(***************************************************************************)
EXTENDS Integers

FirstWrite  == "first-write"
LastWrite   == "last-write"
Strong      == "strong"
Eventual    == "eventual"
Exponential == "exponential"
Linear      == "linear"

(***************************************************************************)
(* The options of a set or delete request.  A keyword outside the known    *)
(* ones stands for every string the store does not recognise; a threshold  *)
(* is any Go int, so it may be zero or negative.                           *)
(***************************************************************************)
Bogus == "bogus"

Options ==
  [concurrency : {"", FirstWrite, LastWrite, Bogus},
   consistency : {"", Strong, Eventual, Bogus},
   pattern     : {"", Linear, Exponential, Bogus},
   threshold   : Int]

(***************************************************************************)
(* ETags.  An ETag is a string: empty, a decimal number, or neither.       *)
(***************************************************************************)
NoETag  == -1
BadETag == -2

ETags == Nat \cup {NoETag, BadETag}

\* CheckSetRequestOptions and CheckDeleteRequestOptions: the same two tests.
CheckRequestOptions(o) ==
  /\ o.concurrency \in {"", FirstWrite, LastWrite}
  /\ o.consistency \in {"", Strong, Eventual}

\* The switch at the top of SetWithRetries and DeleteWithRetries.
KnownPattern(o) == o.pattern \in {"", Linear, Exponential}

\* With a positive threshold the method runs in the loop and a failed attempt
\* is followed by a pause; otherwise it runs once and its error is returned.
Retries(o) == o.threshold > 0

\* The loop test: is another attempt made once i attempts have failed?
MoreAttempts(o, i) == i < o.threshold
=============================================================================
