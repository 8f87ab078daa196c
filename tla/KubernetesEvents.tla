-------------------------- MODULE KubernetesEvents --------------------------
(***************************************************************************)
(* The Kubernetes events binding (src/bindings/kubernetes/kubernetes.go):  *)
(* one Read, and the goroutine of the watch client that decodes the lines  *)
(* of the response and passes on what it finds over two channels, one for  *)
(* results and one for an error, each with room for one element.  When     *)
(* both are ready the select of Read takes either.                         *)
(*                                                                         *)
(* Results are known by their number in the response.                      *)
(***************************************************************************)
EXTENDS Naturals, Sequences

CONSTANT MaxResults   \* bound on the results of a response

ASSUME KubernetesAssumption == MaxResults \in Nat

VARIABLES
  reading,    \* Read: "init", "idle", "select", "handle", "nil" or "err"
  watch,      \* the goroutine: "none", "scan", "send", "fail", "closeerr", "closeresult", "ended"
  decoded,    \* number of results decoded so far
  results,    \* what is in resultChan
  errors,     \* number of errors in errChan
  closed,     \* the channels that are closed
  handling,   \* the result Read has taken
  shown       \* the results the handler was given

kubernetesVars == <<reading, watch, decoded, results, errors, closed, handling, shown>>

KubernetesTypeOK ==
  /\ reading \in {"init", "idle", "select", "handle", "nil", "err"}
  /\ watch \in {"none", "scan", "send", "fail", "closeerr", "closeresult", "ended"}
  /\ decoded \in 0 .. MaxResults
  /\ results \in Seq(1 .. decoded) /\ Len(results) <= 1
  /\ errors \in 0 .. 1
  /\ closed \subseteq {"results", "errors"}
  /\ handling \in 0 .. decoded
  /\ shown \in Seq(1 .. decoded)

KubernetesInit ==
  /\ reading = "init" /\ watch = "none" /\ decoded = 0 /\ results = <<>> /\ errors = 0
  /\ closed = {} /\ handling = 0 /\ shown = <<>>

-----------------------------------------------------------------------------
\* Init reads the configuration of the cluster; without one there is no Read.
InitKubernetes ==
  /\ reading = "init"
  /\ reading' \in {"idle", "err"}
  /\ UNCHANGED <<watch, decoded, results, errors, closed, handling, shown>>

\* Connect starts the watch, or fails.
ReadKubernetes ==
  /\ reading = "idle"
  /\ \/ reading' = "select" /\ watch' = "scan"
     \/ reading' = "err" /\ UNCHANGED watch
  /\ UNCHANGED <<decoded, results, errors, closed, handling, shown>>

-----------------------------------------------------------------------------
\* processWatch.

\* A line is decoded, cannot be decoded, or there is none: the response ended,
\* with an error or without.  A line that has no result is passed over.
ScanLine ==
  /\ watch = "scan"
  /\ \/ /\ decoded < MaxResults
        /\ decoded' = decoded + 1
        /\ watch' = "send"
     \/ watch' \in {"fail", "closeerr"} /\ UNCHANGED decoded
  /\ UNCHANGED <<reading, results, errors, closed, handling, shown>>

SendResult ==
  /\ watch = "send" /\ results = <<>>
  /\ results' = <<decoded>>
  /\ watch' = "scan"
  /\ UNCHANGED <<reading, decoded, errors, closed, handling, shown>>

SendError ==
  /\ watch = "fail" /\ errors = 0
  /\ errors' = 1
  /\ watch' = "closeerr"
  /\ UNCHANGED <<reading, decoded, results, closed, handling, shown>>

\* The deferred calls, the last one first: errChan is closed before resultChan.
CloseChannels ==
  /\ \/ watch = "closeerr" /\ closed' = {"errors"} /\ watch' = "closeresult"
     \/ watch = "closeresult" /\ closed' = {"errors", "results"} /\ watch' = "ended"
  /\ UNCHANGED <<reading, decoded, results, errors, handling, shown>>

-----------------------------------------------------------------------------
\* The loop of Read.

TakeResult ==
  /\ reading = "select" /\ results # <<>>
  /\ handling' = Head(results)
  /\ results' = Tail(results)
  /\ reading' = "handle"
  /\ UNCHANGED <<watch, decoded, errors, closed, shown>>

\* Mutant: an error of the handler ends Read.
HandleResultOrStop ==
  /\ reading = "handle"
  /\ shown' = Append(shown, handling)
  /\ reading' \in {"select", "err"}
  /\ UNCHANGED <<watch, decoded, results, errors, closed, handling>>

\* A decoded result can always be marshalled, and what the handler returns is
\* not looked at.
HandleResult ==
  /\ reading = "handle"
  /\ shown' = Append(shown, handling)
  /\ reading' = "select"
  /\ UNCHANGED <<watch, decoded, results, errors, closed, handling>>

\* resultChan is closed and empty, or errChan has an error or is closed, which
\* reads as the error nil.
LeaveLoop ==
  /\ reading = "select"
  /\ \/ "results" \in closed /\ results = <<>> /\ reading' = "nil" /\ UNCHANGED errors
     \/ errors > 0 /\ errors' = errors - 1 /\ reading' = "err"
     \/ errors = 0 /\ "errors" \in closed /\ reading' = "nil" /\ UNCHANGED errors
  /\ UNCHANGED <<watch, decoded, results, closed, handling, shown>>

-----------------------------------------------------------------------------
WatchStep == ScanLine \/ SendResult \/ SendError \/ CloseChannels

ReadStep == TakeResult \/ HandleResult \/ LeaveLoop

KubernetesNext == InitKubernetes \/ ReadKubernetes \/ WatchStep \/ ReadStep

KubernetesSpec == KubernetesInit /\ [][KubernetesNext]_kubernetesVars

-----------------------------------------------------------------------------
\* The handler is given the results in their order and without a gap, and when
\* Read returns at most the last one is missing: the select may take the end of
\* the watch before the result that is still in the channel.
AllButTheLastIsShown ==
  /\ \A j \in DOMAIN shown : shown[j] = j
  /\ reading \in {"nil", "err"} => decoded <= Len(shown) + 1

\* A Read that returns nil, because the response has ended, has given the handler
\* every result of it: what the test of Read expects of a response with one result
\* (TestReadItem).
EveryResultIsShown == reading = "nil" => Len(shown) = decoded

\* Read and the goroutine of the watch end together: when Read has returned the
\* goroutine ends, never blocked on a channel nobody reads, and when the
\* goroutine has ended Read returns.
EndTogether ==
  (watch = "ended" \/ (reading \in {"nil", "err"} /\ watch # "none")) ~>
    (watch = "ended" /\ reading \in {"nil", "err"})

=============================================================================
