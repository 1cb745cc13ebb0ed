--------------------------- MODULE ScrapeVerdicts ---------------------------
(***************************************************************************)
(* What one scrape of the exporter promises, without series, readers or    *)
(* decoders: it settles on a list of interfaces, passes one verdict on     *)
(* each of them, never takes one back, and serves a page only once no      *)
(* verdict is pending; a page never carries contradicting verdicts.  A     *)
(* crash leaves the scrapes in flight without an answer.                   *)
(***************************************************************************)
CONSTANTS Scrapes, Interfaces

VARIABLES
  running,  \* running[s]: the scrape is between its request and its answer
  verdict,  \* verdict[s][i]: what scrape s says of interface i
  served    \* served[s]: the last answer of s was a page, not an error

vars == <<running, verdict, served>>

Verdicts == {"unlisted", "pending", "ok", "failed", "absent", "both"}
Nothing == [i \in Interfaces |-> "unlisted"]

Init ==
  /\ running = [s \in Scrapes |-> FALSE]
  /\ verdict = [s \in Scrapes |-> Nothing]
  /\ served = [s \in Scrapes |-> FALSE]

Begin(s) ==
  /\ ~ running[s]
  /\ running' = [running EXCEPT ![s] = TRUE]
  /\ verdict' = [verdict EXCEPT ![s] = Nothing]
  /\ served' = [served EXCEPT ![s] = FALSE]

List(s, listed) ==
  /\ running[s]
  /\ verdict[s] = Nothing
  /\ verdict' = [verdict EXCEPT ![s] =
       [i \in Interfaces |-> IF i \in listed THEN "pending" ELSE "unlisted"]]
  /\ UNCHANGED <<running, served>>

\* A second visit of an interface may contradict the first one.
Decide(s, i, v) ==
  /\ running[s]
  /\ \/ verdict[s][i] = "pending" /\ v \in {"ok", "failed", "absent"}
     \/ verdict[s][i] \in {"ok", "failed"} /\ v = "both"
  /\ verdict' = [verdict EXCEPT ![s][i] = v]
  /\ UNCHANGED <<running, served>>

Answer(s, page) ==
  /\ running[s]
  /\ \A i \in Interfaces : verdict[s][i] # "pending"
  /\ page => \A i \in Interfaces : verdict[s][i] # "both"
  /\ running' = [running EXCEPT ![s] = FALSE]
  /\ served' = [served EXCEPT ![s] = page]
  /\ UNCHANGED verdict

\* The process ends and takes the scrapes in flight with it, unanswered.
Crash ==
  /\ running' = [s \in Scrapes |-> FALSE]
  /\ UNCHANGED <<verdict, served>>

Next ==
  \/ \E s \in Scrapes :
       \/ Begin(s)
       \/ \E listed \in SUBSET Interfaces : List(s, listed)
       \/ \E i \in Interfaces, v \in Verdicts : Decide(s, i, v)
       \/ \E page \in BOOLEAN : Answer(s, page)
  \/ Crash

Spec == Init /\ [][Next]_vars
=============================================================================
