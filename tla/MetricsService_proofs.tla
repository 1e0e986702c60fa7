----------------------- MODULE MetricsService_proofs -----------------------
(***************************************************************************)
(* Theorems about MetricsService: a scrape leaves the backup system as it  *)
(* is, and its gauges say what was true at some moment of it.              *)
(***************************************************************************)
EXTENDS MetricsService, BackupSystem_proofs

(***************************************************************************)
(* Ids identify rows.  The queries for the newest row find one because     *)
(* every set of ids has a greatest.                                        *)
(***************************************************************************)
Greatest(ids) == {i \in ids : \A j \in ids : j <= i}

IdsAreKeys ==
  /\ \A r \in records : r.id \in 1 .. lastId
  /\ \A r, s \in records : r.id = s.id => r = s
  /\ \A ids \in SUBSET Ids(records) : ids # {} => Greatest(ids) # {}

(***************************************************************************)
(* What each query has found was true at a moment that is in seen, and a   *)
(* row found missing stays missing, since ids are never given twice.       *)
(***************************************************************************)
CurrentIsSeen == scrape.at # "idle" => Moment \in seen

CountsWereTrue ==
  scrape.at \notin {"idle", "counts"} => \E m \in seen : m.counts = scrape.counts

TotalWasTrue ==
  scrape.at \notin {"idle", "counts", "total"} => \E m \in seen : m.total = scrape.total

LatestSuccessWasTrue ==
  scrape.at \in {"latest_any", "hydrate", "report"} =>
    /\ \E m \in seen : m.latest_success = scrape.latest_success
    /\ \A c \in Config : scrape.latest_success[c] \in 0 .. lastId

\* A row that is found by its id has the status it had when the id was chosen.
AgreesWith(m, r) == r.status = "success" <=> r.id \in m.total

LatestAnyWasTrue ==
  scrape.at \in {"hydrate", "report"} =>
    /\ \A c \in Config : scrape.latest_any[c] \in 0 .. lastId
    /\ \E m \in seen :
         /\ m.latest_any = scrape.latest_any
         /\ \A c \in Config, r \in records \cup scrape.hydrated :
              r.id = scrape.latest_any[c] => AgreesWith(m, r)

Chosen == {scrape.latest_success[c] : c \in Config} \cup {scrape.latest_any[c] : c \in Config}

MissingStaysMissing ==
  scrape.at = "report" =>
    /\ scrape.hydrated \in SUBSET BackupRecord
    /\ \A r \in scrape.hydrated : r.id # NoId
    /\ \A r \in records : r.id \in Chosen => r \in scrape.hydrated

HydratedLate == scrape.at # "report" => scrape.hydrated = {}

Stages == {"idle", "counts", "total", "latest_success", "latest_any", "hydrate", "report"}

IsScrape ==
  scrape = [at |-> scrape.at, counts |-> scrape.counts, total |-> scrape.total,
            latest_success |-> scrape.latest_success, latest_any |-> scrape.latest_any,
            hydrated |-> scrape.hydrated]

GInv ==
  /\ scrape.at \in Stages
  /\ IsScrape
  /\ CurrentIsSeen
  /\ CountsWereTrue
  /\ TotalWasTrue
  /\ LatestSuccessWasTrue
  /\ LatestAnyWasTrue
  /\ MissingStaysMissing
  /\ HydratedLate

-----------------------------------------------------------------------------
(* The backup system does not notice a scrape.                             *)

\* The actions of a scrape are written with UNCHANGED vars, since build_registry only
\* reads: what holds of every behaviour of BackupSystem holds beside a scrape.
LEMMA ScrapeIsPassive == MSpec => Spec
  <1>1. MInit => Init
    BY DEF MInit
  <1>2. [MNext]_<<vars, metricsVars>> => [Next]_vars
    BY DEF MNext
  <1> QED
    BY <1>1, <1>2, PTL DEF MSpec, Spec

-----------------------------------------------------------------------------
(* The table of records.                                                   *)

\* A statement deletes rows, or inserts one with the next id.
LEMMA RecordsChange ==
  ASSUME TypeOK, [Next]_vars
  PROVE  \/ records' \subseteq records /\ lastId' = lastId
         \/ /\ lastId' = lastId + 1
            /\ \E r : r.id = lastId + 1 /\ records' = records \cup {r}
  <1> USE DEF tableVars
  <1>1. ASSUME NEW c, NEW n, NEW p, NEW k, NEW s, Insert(c, n, p, k, s)
        PROVE  /\ lastId' = lastId + 1
               /\ \E r : r.id = lastId + 1 /\ records' = records \cup {r}
    BY <1>1 DEF Insert
  <1>2. ASSUME NEW t \in Thread, CreateStep(t)
        PROVE  \/ UNCHANGED <<records, lastId>>
               \/ /\ lastId' = lastId + 1
                  /\ \E r : r.id = lastId + 1 /\ records' = records \cup {r}
    <2>1. CASE InsertSuccess(t)
      BY <1>1, <2>1 DEF InsertSuccess
    <2>2. CASE InsertFailed(t)
      BY <1>1, <2>2 DEF InsertFailed
    <2> QED
      BY <1>2, <2>1, <2>2 DEF CreateStep, Download, OpenFile, WriteFile, Checksum,
         SaveSuccess, NotifySuccess, AttemptFails, Cleanup, SaveError, NotifyFailed, HandlerFails
  <1>3. ASSUME NEW t \in Thread, DeleteStep(t)
        PROVE  records' \subseteq records /\ lastId' = lastId
    BY <1>3 DEF DeleteStep, CheckExists, Unlink, UnlinkFails, DeleteRow, DeleteRowFails,
       EndDelete
  <1>4. ASSUME NEW t \in Thread, RetentionStep(t)
        PROVE  records' \subseteq records /\ lastId' = lastId
    BY <1>4 DEF RetentionStep, SelectByCount, SkipConfig, EndRetention, PruneNext, PruneDone,
       SelectByAge, PurgeFailed, EnforceFails
  <1>5. ASSUME NEW t \in Thread, ReadStep(t) \/ Crash(t) \/ WebRequest(t) \/ SchedulerJob(t)
        PROVE  UNCHANGED <<records, lastId>>
    BY <1>5 DEF ReadStep, FindFile, Verify, ReadFile, ReadRefused, Send, SendFails, EndRead,
       Crash, WebRequest, SchedulerJob, StartBackup, StartDelete, StartRead, StartRetention
  <1>6. ASSUME UNCHANGED vars \/ (\E n \in Name : Damage(n))
              \/ (\E c \in Config : SwitchActive(c))
        PROVE  UNCHANGED <<records, lastId>>
    BY <1>6 DEF vars, Damage, SwitchActive
  <1> QED
    BY <1>2, <1>3, <1>4, <1>5, <1>6 DEF Next, Step, Thread

LEMMA KeysInit ==
  ASSUME Init
  PROVE  IdsAreKeys
  BY DEF Init, StoreInit, IdsAreKeys, Ids

LEMMA KeysStep ==
  ASSUME TypeOK, IdsAreKeys, [Next]_vars
  PROVE  IdsAreKeys'
  <1> USE DEF IdsAreKeys, Ids
  <1>0. lastId \in Nat
    BY DEF TypeOK
  <1>1. CASE records' \subseteq records /\ lastId' = lastId
    BY <1>1
  <1>2. ASSUME NEW r, r.id = lastId + 1, records' = records \cup {r}, lastId' = lastId + 1
        PROVE  IdsAreKeys'
    <2>1. /\ \A s \in records' : s.id \in 1 .. lastId'
          /\ \A s, u \in records' : s.id = u.id => s = u
      BY <1>0, <1>2
    <2>2. ASSUME NEW ids \in SUBSET Ids(records)', ids # {}
          PROVE  Greatest(ids) # {}
      <3>1. \A i \in ids : i \in 1 .. lastId + 1
        BY <1>0, <1>2, <2>1
      <3>2. CASE lastId + 1 \in ids
        BY <1>0, <3>1, <3>2 DEF Greatest
      <3>3. CASE lastId + 1 \notin ids
        <4>1. ids \in SUBSET Ids(records)
          BY <1>2, <3>3
        <4> QED
          BY <2>2, <4>1
      <3> QED
        BY <3>2, <3>3
    <2> QED
      BY <2>1, <2>2
  <1> QED
    BY <1>1, <1>2, RecordsChange

\* The newest row of a set of rows is one of them.
LEMMA LatestIsThere ==
  ASSUME IdsAreKeys, NEW S \in SUBSET records, NEW c \in Config
  PROVE  \/ Latest(S)[c] = NoId
         \/ \E r \in S : r.id = Latest(S)[c]
  <1> DEFINE ids == {r.id : r \in {s \in S : s.config = c}}
  <1>1. CASE ids = {}
    BY <1>1 DEF Latest
  <1>2. CASE ids # {}
    <2>1. ids \in SUBSET Ids(records)
      BY DEF Ids
    <2>2. \E i \in ids : \A j \in ids : j <= i
      BY <1>2, <2>1 DEF IdsAreKeys, Greatest
    <2>3. Latest(S)[c] = CHOOSE i \in ids : \A j \in ids : j <= i
      BY <1>2 DEF Latest
    <2> HIDE DEF ids
    <2>4. Latest(S)[c] \in ids
      BY <2>2, <2>3
    <2> QED
      BY <2>4 DEF ids
  <1> QED
    BY <1>1, <1>2

-----------------------------------------------------------------------------
(* The gauges.                                                             *)

LEMMA GInit ==
  ASSUME MInit
  PROVE  GInv
  BY DEF MInit, MetricsInit, NoScrape, GInv, Stages, IsScrape, CurrentIsSeen, CountsWereTrue,
     TotalWasTrue, LatestSuccessWasTrue, LatestAnyWasTrue, MissingStaysMissing, HydratedLate

\* The other threads go on: what was seen stays seen, and no id is given again.
LEMMA OthersKeepGInv ==
  ASSUME TypeOK, GInv, [Next]_vars, UNCHANGED scrape,
         seen' = IF scrape.at = "idle" THEN seen ELSE seen \cup {Moment'}
  PROVE  GInv'
  <1> USE DEF GInv
  <1>1. seen \subseteq seen' /\ scrape' = scrape
    OBVIOUS
  <1>2. lastId \in Nat /\ lastId' \in Nat /\ lastId <= lastId'
    BY RecordsChange DEF TypeOK
  <1>3. \A r \in records' : r.id \in 0 .. lastId => r \in records
    BY <1>2, RecordsChange
  <1>4. (scrape.at \in Stages /\ IsScrape /\ HydratedLate)'
    BY <1>1 DEF IsScrape, HydratedLate, Stages
  <1>5. CurrentIsSeen'
    BY <1>1 DEF CurrentIsSeen
  <1>6. CountsWereTrue' /\ TotalWasTrue'
    BY <1>1 DEF CountsWereTrue, TotalWasTrue
  <1>7. LatestSuccessWasTrue'
    BY <1>1, <1>2 DEF LatestSuccessWasTrue
  <1>8. LatestAnyWasTrue'
    BY <1>1, <1>2, <1>3 DEF LatestAnyWasTrue, AgreesWith
  <1>9. MissingStaysMissing'
    <2> SUFFICES ASSUME scrape.at = "report", NEW r \in records', r.id \in Chosen
                 PROVE  r \in scrape.hydrated
      BY <1>1 DEF MissingStaysMissing, Chosen
    <2>1. r.id \in 0 .. lastId
      BY DEF Chosen, LatestSuccessWasTrue, LatestAnyWasTrue
    <2> QED
      BY <1>3, <2>1 DEF MissingStaysMissing
  <1> QED
    BY <1>4, <1>5, <1>6, <1>7, <1>8, <1>9

\* Each query finds what the current moment says.
LEMMA ScrapeKeepsGInv ==
  ASSUME TypeOK, IdsAreKeys, GInv, ScrapeStep, UNCHANGED vars
  PROVE  GInv'
  <1> USE DEF GInv, Stages, IsScrape, HydratedLate
  <1>1. /\ UNCHANGED <<records, lastId, Moment>>
        /\ lastId \in Nat
    BY DEF vars, tableVars, Moment, Counts, Successes, Latest, Ids, TypeOK
  <1>2. Successes \in SUBSET records /\ Latest(records)' = Latest(records)
    BY <1>1 DEF Successes, Latest
  <1>3. \A S \in SUBSET records, c \in Config : Latest(S)[c] \in 0 .. lastId
    BY <1>1, LatestIsThere DEF IdsAreKeys, NoId
  <1>4. CASE StartScrape
    BY <1>1, <1>4
    DEF StartScrape, NoScrape, CurrentIsSeen, CountsWereTrue, TotalWasTrue,
        LatestSuccessWasTrue, LatestAnyWasTrue, MissingStaysMissing
  <1>5. CASE QueryCounts
    BY <1>1, <1>5
    DEF QueryCounts, Moment, CurrentIsSeen, CountsWereTrue, TotalWasTrue,
        LatestSuccessWasTrue, LatestAnyWasTrue, MissingStaysMissing
  <1>6. CASE QueryTotal
    BY <1>1, <1>6
    DEF QueryTotal, Moment, CurrentIsSeen, CountsWereTrue, TotalWasTrue,
        LatestSuccessWasTrue, LatestAnyWasTrue, MissingStaysMissing
  <1>7. CASE QueryLatestSuccess
    BY <1>1, <1>2, <1>3, <1>7
    DEF QueryLatestSuccess, Moment, CurrentIsSeen, CountsWereTrue, TotalWasTrue,
        LatestSuccessWasTrue, LatestAnyWasTrue, MissingStaysMissing
  <1>8. CASE QueryLatestAny
    <2>1. /\ scrape.at = "latest_any" /\ scrape'.at = "hydrate"
          /\ scrape'.latest_any = Latest(records) /\ scrape'.hydrated = {}
          /\ UNCHANGED <<scrape.counts, scrape.total, scrape.latest_success, seen>>
          /\ IsScrape'
      BY <1>8 DEF QueryLatestAny
    <2>2. Moment.latest_any = Latest(records) /\ Moment.total = Ids(Successes)
      BY DEF Moment
    <2>3. \A r \in records : AgreesWith(Moment, r)
      BY <2>2 DEF AgreesWith, Ids, Successes, IdsAreKeys
    <2>4. LatestAnyWasTrue'
      <3>1. Moment \in seen'
        BY <2>1 DEF CurrentIsSeen
      <3>2. \A c \in Config : scrape'.latest_any[c] \in 0 .. lastId
        BY <1>3, <2>1
      <3>3. \A r \in records' \cup scrape'.hydrated : AgreesWith(Moment, r)
        BY <1>1, <2>1, <2>3
      <3> QED
        BY <1>1, <2>1, <2>2, <3>1, <3>2, <3>3 DEF LatestAnyWasTrue, AgreesWith
    <2>5. CurrentIsSeen' /\ CountsWereTrue' /\ TotalWasTrue'
      BY <1>1, <2>1 DEF CurrentIsSeen, CountsWereTrue, TotalWasTrue
    <2>6. LatestSuccessWasTrue'
      BY <1>1, <2>1 DEF LatestSuccessWasTrue
    <2> QED
      BY <2>1, <2>4, <2>5, <2>6 DEF MissingStaysMissing
  <1>9. CASE Hydrate
    <2>1. /\ scrape.at = "hydrate" /\ scrape'.at = "report"
          /\ scrape'.hydrated =
               {r \in records : \E c \in Config : r.id \in {scrape.latest_success[c],
                                                         scrape.latest_any[c]}}
          /\ UNCHANGED <<scrape.counts, scrape.total, scrape.latest_success,
                         scrape.latest_any, seen>>
          /\ IsScrape'
      BY <1>9 DEF Hydrate
    <2>2. scrape'.hydrated \in SUBSET records
      BY <2>1
    <2>3. CurrentIsSeen' /\ CountsWereTrue' /\ TotalWasTrue'
      BY <1>1, <2>1 DEF CurrentIsSeen, CountsWereTrue, TotalWasTrue
    <2>4. LatestSuccessWasTrue'
      BY <1>1, <2>1 DEF LatestSuccessWasTrue
    <2>5. LatestAnyWasTrue'
      BY <1>1, <2>1, <2>2 DEF LatestAnyWasTrue, AgreesWith
    <2>6. MissingStaysMissing'
      <3>1. scrape'.hydrated \in SUBSET BackupRecord
        BY <2>2 DEF TypeOK
      <3>2. \A r \in scrape'.hydrated : r.id # NoId
        BY <1>1, <2>2 DEF IdsAreKeys, NoId
      <3>3. \A r \in records' : r.id \in Chosen' => r \in scrape'.hydrated
        BY <1>1, <2>1 DEF Chosen
      <3> QED
        BY <3>1, <3>2, <3>3 DEF MissingStaysMissing
    <2> QED
      BY <2>1, <2>3, <2>4, <2>5, <2>6
  <1>10. CASE Respond
    BY <1>1, <1>10
    DEF Respond, NoScrape, CurrentIsSeen, CountsWereTrue, TotalWasTrue,
        LatestSuccessWasTrue, LatestAnyWasTrue, MissingStaysMissing
  <1> QED
    BY <1>4, <1>5, <1>6, <1>7, <1>8, <1>9, <1>10 DEF ScrapeStep

LEMMA GaugesInvariance == MSpec => [](TypeOK /\ IdsAreKeys /\ GInv)
  <1>1. MInit => IdsAreKeys /\ GInv
    BY GInit, KeysInit DEF MInit
  <1>2. TypeOK /\ (IdsAreKeys /\ GInv) /\ [MNext]_<<vars, metricsVars>> => (IdsAreKeys /\ GInv)'
    <2> SUFFICES ASSUME TypeOK, IdsAreKeys, GInv, [MNext]_<<vars, metricsVars>>
                 PROVE  IdsAreKeys' /\ GInv'
      OBVIOUS
    <2>1. CASE ScrapeStep /\ UNCHANGED vars
      <3>1. [Next]_vars
        BY <2>1
      <3> QED
        BY <2>1, <3>1, KeysStep, ScrapeKeepsGInv
    <2>2. CASE Next /\ UNCHANGED scrape
               /\ seen' = IF scrape.at = "idle" THEN seen ELSE seen \cup {Moment'}
      BY <2>2, KeysStep, OthersKeepGInv
    <2>3. CASE UNCHANGED <<vars, metricsVars>>
      <3>1. [Next]_vars
        BY <2>3
      <3>2. Moment' = Moment /\ UNCHANGED scrape /\ UNCHANGED seen
        BY <2>3
        DEF vars, tableVars, metricsVars, Moment, Counts, Successes, Latest, Ids
      <3>3. seen' = IF scrape.at = "idle" THEN seen ELSE seen \cup {Moment'}
        BY <3>2 DEF GInv, CurrentIsSeen
      <3> QED
        BY <3>1, <3>2, <3>3, KeysStep, OthersKeepGInv
    <2> QED
      BY <2>1, <2>2, <2>3 DEF MNext
  <1>3. MSpec => []TypeOK
    BY ScrapeIsPassive, TypeCorrect, PTL
  <1> QED
    BY <1>1, <1>2, <1>3, PTL DEF MSpec

\* However many backups are made, deleted and pruned while a scrape runs, each gauge
\* says what was true at some moment of it, or names no backup because the row chosen
\* for it went before it was fetched.
THEOREM GaugesWereTrue == MSpec => []GaugesAreOfTheScrape
  <1>1. TypeOK /\ IdsAreKeys /\ GInv => GaugesAreOfTheScrape
    <2> SUFFICES ASSUME TypeOK, IdsAreKeys, GInv, scrape.at = "report"
                 PROVE  GaugesAreOfTheScrape
      BY DEF GaugesAreOfTheScrape
    <2> DEFINE gone(id) == id # NoId /\ id \notin Ids(records)
    <2>1. /\ \E m \in seen : m.counts = scrape.counts
          /\ \E m \in seen : m.total = scrape.total
      BY DEF GInv, CountsWereTrue, TotalWasTrue
    <2>2. \A c \in Config : \A id :
            id \in {scrape.latest_success[c], scrape.latest_any[c]} /\ id # NoId
              /\ (\A r \in scrape.hydrated : r.id # id) => gone(id)
      BY DEF GInv, MissingStaysMissing, Chosen, Ids
    <2>3. ASSUME NEW c \in Config
          PROVE  \/ \E m \in seen : m.latest_success[c] = LastSize(c)
                 \/ LastSize(c) = NoId /\ gone(scrape.latest_success[c])
      <3>1. PICK m \in seen : m.latest_success = scrape.latest_success
        BY DEF GInv, LatestSuccessWasTrue
      <3>2. CASE scrape.latest_success[c] \in Ids(scrape.hydrated)
                 \/ scrape.latest_success[c] = NoId
        BY <3>1, <3>2 DEF LastSize
      <3>3. CASE scrape.latest_success[c] \notin Ids(scrape.hydrated)
                 /\ scrape.latest_success[c] # NoId
        BY <2>2, <3>3 DEF LastSize, Ids
      <3> QED
        BY <3>2, <3>3
    <2>4. ASSUME NEW c \in Config
          PROVE  \/ LastStatus(c) = "none" /\ \E m \in seen : m.latest_any[c] = NoId
                 \/ LastStatus(c) = "none" /\ gone(scrape.latest_any[c])
                 \/ LastStatus(c) # "none" /\ \E m \in seen :
                      /\ m.latest_any[c] = scrape.latest_any[c]
                      /\ LastStatus(c) = "success" <=> m.latest_any[c] \in m.total
      <3> DEFINE found == {r \in scrape.hydrated : r.id = scrape.latest_any[c]}
      <3>1. PICK m \in seen :
              /\ m.latest_any = scrape.latest_any
              /\ \A r \in scrape.hydrated :
                   r.id = scrape.latest_any[c] => AgreesWith(m, r)
        BY DEF GInv, LatestAnyWasTrue
      <3>2. CASE found = {}
        <4>1. LastStatus(c) = "none"
          BY <3>2 DEF LastStatus
        <4>2. scrape.latest_any[c] # NoId => gone(scrape.latest_any[c])
          BY <2>2, <3>2
        <4> QED
          BY <3>1, <4>1, <4>2
      <3>3. CASE found # {}
        <4>1. PICK r \in found : LastStatus(c) = r.status
          BY <3>3 DEF LastStatus
        <4>2. r.status \in {"success", "failed"}
          BY <4>1 DEF GInv, MissingStaysMissing, BackupRecord
        <4>3. r.status = "success" <=> m.latest_any[c] \in m.total
          BY <3>1, <4>1 DEF AgreesWith
        <4> QED
          BY <3>1, <4>1, <4>2, <4>3
      <3> QED
        BY <3>2, <3>3
    <2> HIDE DEF gone
    <2> QED
      BY <2>1, <2>3, <2>4 DEF GaugesAreOfTheScrape, gone
  <1> QED
    BY <1>1, GaugesInvariance, PTL
=============================================================================
