-------------------------------- MODULE MDNS --------------------------------
(***************************************************************************)
(* Service discovery over mDNS (src/servicediscovery/mdns/mdns.go): one    *)
(* lookup, the goroutine it starts to read the entries that are found, and *)
(* the main loop of the browser of the client library.  The browser passes *)
(* an entry on over an unbuffered channel and looks at nothing else while  *)
(* it does.  The lookup waits for its context to end, which takes a        *)
(* second whatever is found, and then reads the port that the goroutine    *)
(* has left in a shared variable.                                          *)
(*                                                                         *)
(* Nothing orders the goroutine's write of the port and that read.  A      *)
(* write that becomes visible late is a goroutine that is late, so that    *)
(* the interleavings cover what the race can do.                           *)
(***************************************************************************)
EXTENDS Naturals, Sequences

CONSTANTS
  Replicas,   \* the instances that answer for the service
  Matching,   \* those whose text record is the id
  NoPort,     \* the port before an entry is found, -1
  MaxEntries  \* bound on the entries passed on before a replica is taken back

ASSUME MDNSAssumption == Matching \subseteq Replicas /\ NoPort \notin Replicas /\ MaxEntries \in Nat

VARIABLES
  lookup,     \* "start", "browse", "wait", "found", "notfound" or "err"
  reader,     \* the goroutine: "none", "range", "entry", "returned"
  entry,      \* the entry it looks at
  port,       \* the shared variable: whose port it holds
  answer,     \* the port the lookup returned
  timedOut,   \* the context of the lookup has ended
  cancelled,  \* the context of the browser has
  browser,    \* its main loop: "none", "run" or "ended"
  pending,    \* the entries of the message it works on that it has to pass on
  sent,       \* the replicas it remembers to have passed on an entry of
  given       \* history: what the goroutine has received

\* What a message says of a replica: it may come without the text record, and
\* then it does not show the id.
Entries == {e \in [of : Replicas, id : BOOLEAN] : e.id => e.of \in Matching}

mdnsVars ==
  <<lookup, reader, entry, port, answer, timedOut, cancelled, browser, pending, sent, given>>

MDNSTypeOK ==
  /\ lookup \in {"start", "browse", "wait", "found", "notfound", "err"}
  /\ reader \in {"none", "range", "entry", "returned"}
  /\ {port, answer} \subseteq Replicas \cup {NoPort}
  /\ entry \in Entries \cup {NoPort}
  /\ timedOut \in BOOLEAN /\ cancelled \in BOOLEAN
  /\ browser \in {"none", "run", "ended"}
  /\ pending \subseteq Entries
  /\ \A e \in pending : e.of \notin sent /\ \A f \in pending : e.of = f.of => e = f
  /\ sent \subseteq Replicas
  /\ given \in Seq(Entries)

MDNSInit ==
  /\ lookup = "start" /\ reader = "none" /\ entry = NoPort /\ port = NoPort /\ answer = NoPort
  /\ timedOut = FALSE /\ cancelled = FALSE
  /\ browser = "none" /\ pending = {} /\ sent = {} /\ given = <<>>

-----------------------------------------------------------------------------
\* LookupPortMDNS.

\* The resolver is made, or the lookup fails; the goroutine is started.
LookupPortMDNS ==
  /\ lookup = "start"
  /\ \/ lookup' = "browse" /\ reader' = "range"
     \/ lookup' = "err" /\ UNCHANGED reader
  /\ UNCHANGED <<entry, port, answer, timedOut, cancelled, browser, pending, sent, given>>

\* Browse starts the main loop and sends a query.  If that fails the loop is
\* cancelled and the lookup returns.
Browse ==
  /\ lookup = "browse"
  /\ browser' = "run"
  /\ \/ lookup' = "wait" /\ UNCHANGED cancelled
     \/ lookup' = "err" /\ cancelled' = TRUE
  /\ UNCHANGED <<reader, entry, port, answer, timedOut, pending, sent, given>>

\* The second is over.
Timeout ==
  /\ lookup \in {"browse", "wait"} /\ ~timedOut
  /\ timedOut' = TRUE /\ cancelled' = TRUE
  /\ UNCHANGED <<lookup, reader, entry, port, answer, browser, pending, sent, given>>

\* The context has ended: the port is read twice, and the goroutine may write it
\* before the first time, or not.
ReturnPort ==
  /\ lookup = "wait" /\ timedOut
  /\ answer' = port
  /\ lookup' = IF port = NoPort THEN "notfound" ELSE "found"
  /\ UNCHANGED <<reader, entry, port, timedOut, cancelled, browser, pending, sent, given>>

-----------------------------------------------------------------------------
\* The goroutine.

\* Mutant: it goes on after a match.
LookAtEntryGoesOn ==
  /\ reader = "entry"
  /\ port' = IF entry.id THEN entry.of ELSE port
  /\ reader' = "range"
  /\ UNCHANGED <<lookup, entry, answer, timedOut, cancelled, browser, pending, sent, given>>

\* An entry with the id in its text ends the goroutine.
LookAtEntry ==
  /\ reader = "entry"
  /\ IF entry.id
     THEN port' = entry.of /\ reader' = "returned"
     ELSE reader' = "range" /\ UNCHANGED port
  /\ UNCHANGED <<lookup, entry, answer, timedOut, cancelled, browser, pending, sent, given>>

\* Mutant: it returns after the first entry.
EntriesClosedOrNot ==
  /\ reader = "range" /\ (browser = "ended" \/ given # <<>>)
  /\ reader' = "returned"
  /\ UNCHANGED <<lookup, entry, port, answer, timedOut, cancelled, browser, pending, sent, given>>

\* So does the end of the entries.
EntriesClosed ==
  /\ reader = "range" /\ browser = "ended"
  /\ reader' = "returned"
  /\ UNCHANGED <<lookup, entry, port, answer, timedOut, cancelled, browser, pending, sent, given>>

-----------------------------------------------------------------------------
\* The main loop of the browser.

\* The entries of a message for these replicas, of which some show the id.
Said(of, ids) == {[of |-> r, id |-> r \in ids] : r \in of}

\* Mutant: what has been passed on before is not left out.
MessageAgain ==
  /\ browser = "run" /\ pending = {}
  /\ \E S \in SUBSET Replicas \ {{}}, ids \in SUBSET Matching : pending' = Said(S, ids)
  /\ UNCHANGED <<lookup, reader, entry, port, answer, timedOut, cancelled, browser, sent, given>>

\* A message with answers of some of the replicas.  An entry without an address
\* is dropped, and is none.
Message ==
  /\ browser = "run" /\ pending = {}
  /\ \E S \in SUBSET Replicas \ {{}}, ids \in SUBSET Matching : pending' = Said(S \ sent, ids)
  /\ UNCHANGED <<lookup, reader, entry, port, answer, timedOut, cancelled, browser, sent, given>>

\* A message that takes a replica back: its time to live is zero.
Goodbye ==
  /\ browser = "run" /\ pending = {} /\ Len(given) < MaxEntries
  /\ \E e \in sent : sent' = sent \ {e}
  /\ UNCHANGED <<lookup, reader, entry, port, answer, timedOut, cancelled, browser, pending, given>>

\* One of the entries is passed on, when the goroutine is there to receive it.
PassOn ==
  /\ browser = "run" /\ reader = "range"
  /\ \E e \in pending :
       /\ entry' = e
       /\ given' = Append(given, e)
       /\ pending' = pending \ {e}
       /\ sent' = sent \cup {e.of}
  /\ reader' = "entry"
  /\ UNCHANGED <<lookup, port, answer, timedOut, cancelled, browser>>

\* The goroutine that repeats the query makes its first one, and it fails, which
\* ends the context of the browser; the next is due after the lookup has ended.
QueryFails ==
  /\ lookup = "wait" /\ browser = "run" /\ ~cancelled
  /\ cancelled' = TRUE
  /\ UNCHANGED <<lookup, reader, entry, port, answer, timedOut, browser, pending, sent, given>>

\* The end of its context, between two messages: the channel is closed and the
\* connections are.
BrowserEnds ==
  /\ browser = "run" /\ pending = {} /\ cancelled
  /\ browser' = "ended"
  /\ UNCHANGED <<lookup, reader, entry, port, answer, timedOut, cancelled, pending, sent, given>>
-----------------------------------------------------------------------------
LookupStep == Browse \/ Timeout \/ ReturnPort

ReaderStep == LookAtEntry \/ EntriesClosed

MDNSNext ==
  \/ LookupPortMDNS \/ LookupStep \/ ReaderStep
  \/ Message \/ Goodbye \/ PassOn \/ QueryFails \/ BrowserEnds

MDNSSpec == MDNSInit /\ [][MDNSNext]_mdnsVars

-----------------------------------------------------------------------------
\* What a lookup returns is the port of the first entry that carried the id, of
\* all the goroutine received, and it is not overwritten by a later one
\* (LookupPortMDNS).
AnswerIsFirstMatch ==
  lookup = "found" =>
    \E n \in DOMAIN given :
      /\ given[n].of = answer /\ given[n].id
      /\ \A j \in DOMAIN given : given[j].id => n <= j

\* When its context has ended the browser closes its connections, unless it has
\* an entry to pass on and the goroutine is gone, because it found the service:
\* only a match can leave the browser behind.
BrowserEndsUnlessMatched ==
  (cancelled /\ browser = "run") ~>
    (browser = "ended" \/ (pending # {} /\ port # NoPort))
=============================================================================
