--------------------------- MODULE MetricsService ---------------------------
(***************************************************************************)
(* services/metrics_service.py: a scrape reads the tables with one query   *)
(* after the other, while the threads of BackupSystem go on between them.  *)
(***************************************************************************)
EXTENDS BackupSystem

VARIABLES
  scrape,   \* the locals of build_registry
  seen      \* history: what the gauges could have said at some moment of the scrape

metricsVars == <<scrape, seen>>

\* No id stands for Python's None.
NoId == 0

NoScrape ==
  [at |-> "idle", counts |-> {}, total |-> {},
   latest_success |-> [c \in Config |-> NoId], latest_any |-> [c \in Config |-> NoId],
   hydrated |-> {}]

\* order_by("-created_at", "-id")[:1], once for each configuration.
Latest(S) ==
  [c \in Config |->
     LET ids == {r.id : r \in {s \in S : s.config = c}} IN
       IF ids = {} THEN NoId ELSE CHOOSE i \in ids : \A j \in ids : j <= i]

Ids(S) == {r.id : r \in S}

Successes == {r \in records : r.status = "success"}

Counts == {[config |-> c, status |-> s,
            n |-> Cardinality({r \in records : r.config = c /\ r.status = s})] :
           c \in Config, s \in {"success", "failed"}}

\* What build_registry would say if nothing changed while it runs.  A file counts as
\* its id instead of its size.
Moment ==
  [counts |-> Counts, total |-> Ids(Successes),
   latest_success |-> Latest(Successes), latest_any |-> Latest(records)]

MetricsInit == scrape = NoScrape /\ seen = {}

Advance(from, to) == scrape.at = from /\ scrape' = [scrape EXCEPT !.at = to]

StartScrape ==
  /\ scrape.at = "idle"
  /\ scrape' = [NoScrape EXCEPT !.at = "counts"]
  /\ seen' = {Moment}

QueryCounts ==
  /\ scrape.at = "counts"
  /\ scrape' = [scrape EXCEPT !.at = "total", !.counts = Counts]
  /\ UNCHANGED seen

QueryTotal ==
  /\ scrape.at = "total"
  /\ scrape' = [scrape EXCEPT !.at = "latest_success", !.total = Ids(Successes)]
  /\ UNCHANGED seen

QueryLatestSuccess ==
  /\ scrape.at = "latest_success"
  /\ scrape' = [scrape EXCEPT !.at = "latest_any", !.latest_success = Latest(Successes)]
  /\ UNCHANGED seen

QueryLatestAny ==
  /\ scrape.at = "latest_any"
  /\ scrape' = [scrape EXCEPT !.at = "hydrate", !.latest_any = Latest(records)]
  /\ UNCHANGED seen

\* Mutant: only the rows of successful backups are fetched.
HydrateSuccesses ==
  /\ scrape.at = "hydrate"
  /\ scrape' = [scrape EXCEPT
                  !.at = "report",
                  !.hydrated = {r \in records : \E c \in Config :
                                                  r.id = scrape.latest_success[c]}]
  /\ UNCHANGED seen

Hydrate ==
  /\ scrape.at = "hydrate"
  /\ scrape' = [scrape EXCEPT
                  !.at = "report",
                  !.hydrated = {r \in records :
                                  \E c \in Config : r.id \in {scrape.latest_success[c],
                                                              scrape.latest_any[c]}}]
  /\ UNCHANGED seen

\* The registry is rendered and dropped.
Respond ==
  /\ scrape.at = "report"
  /\ scrape' = NoScrape
  /\ seen' = {}

ScrapeStep ==
  \/ StartScrape \/ QueryCounts \/ QueryTotal \/ QueryLatestSuccess \/ QueryLatestAny
  \/ Hydrate \/ Respond

MInit == Init /\ MetricsInit

MNext ==
  \/ ScrapeStep /\ UNCHANGED vars
  \/ Next /\ UNCHANGED scrape /\ seen' = IF scrape.at = "idle" THEN seen
                                                              ELSE seen \cup {Moment'}

MSpec == MInit /\ [][MNext]_<<vars, metricsVars>>

-----------------------------------------------------------------------------
LastStatus(c) ==
  LET found == {r \in scrape.hydrated : r.id = scrape.latest_any[c]} IN
    IF found = {} THEN "none" ELSE (CHOOSE r \in found : TRUE).status

LastSize(c) ==
  IF scrape.latest_success[c] \in Ids(scrape.hydrated) THEN scrape.latest_success[c]
                                                       ELSE NoId

\* Every gauge of a scrape says what was true at some moment of it, while backups are
\* made, deleted and pruned between its queries.  The exception is a row that goes
\* between the query that chose it and the one that fetched it: then the gauges say
\* "no backup" of a configuration that may have others.
GaugesAreOfTheScrape ==
  scrape.at = "report" =>
    /\ \E m \in seen : m.counts = scrape.counts
    /\ \E m \in seen : m.total = scrape.total
    /\ \A c \in Config :
         LET gone(id) == id # NoId /\ id \notin Ids(records) IN
         /\ \/ \E m \in seen : m.latest_success[c] = LastSize(c)
            \/ LastSize(c) = NoId /\ gone(scrape.latest_success[c])
         /\ \/ LastStatus(c) = "none" /\ \E m \in seen : m.latest_any[c] = NoId
            \/ LastStatus(c) = "none" /\ gone(scrape.latest_any[c])
            \/ LastStatus(c) # "none" /\ \E m \in seen :
                 /\ m.latest_any[c] = scrape.latest_any[c]
                 /\ LastStatus(c) = "success" <=> m.latest_any[c] \in m.total
=============================================================================
