--------------------------- MODULE SearchPipeline ---------------------------
(***************************************************************************)
(* What a search run of one profile does between taking the search slot    *)
(* (SearchTasks) and its terminal status: the queries of the plan run as   *)
(* coroutines, refresh the shared catalogue with every observation, drop   *)
(* what the profile or the run already knows, and put the rest on a queue; *)
(* a consumer normalizes, filters, analyses and saves batch by batch       *)
(* while queries are still running.  Between two awaits nothing else of    *)
(* the event loop runs; runs of other accounts, the profile's siblings and  *)
(* accepted agent discoveries observe the same catalogue in between.       *)
(*                                                                         *)
(* A listing stands for its identity key, a content for everything its     *)
(* fingerprint covers, the description included; the url and fuzzy marks   *)
(* of the deduplication are those of the key.  An unexpected exception in  *)
(* a query, which leaves its siblings running, is in SearchTasks.          *)
(***************************************************************************)
EXTENDS Integers, FiniteSets, Sequences, SequencesExt

CONSTANTS
  Listings,      \* adverts, by provider and provider id
  Contents,      \* what an advert can say
  Queries,       \* the queries of the plan
  Concurrency,   \* SEARCH_CONCURRENCY, or 1 in sequential mode
  None,
  MaxFound,      \* bound: observations of one run
  MaxRuns,       \* bound: runs of the profile
  MaxChanges,    \* bound: observations made by others
  MaxFaults      \* bound: failing providers, rows, analyses and saves

ASSUME PipelineAssumption ==
  /\ Concurrency \in Nat \ {0} /\ None \notin Contents
  /\ {MaxFound, MaxRuns, MaxChanges, MaxFaults} \subseteq Nat

VARIABLES
  catalog,    \* ScrapedJob rows; revision 0 is an advert never seen
  job,        \* the revision the profile's Job of a listing is analysed for, or 0
  phase,      \* the run's state in search_status
  query,      \* the coroutines of execute_and_push
  queue,      \* job_queue; the empty batch is the end-of-stream None
  closed,     \* None has been put
  seen,       \* dedup_state: keys and description fingerprints
  past,       \* profile_history: the keys of the profile's Jobs at the start
  consumer,   \* _processing_consumer: where it waits, its batch, what is left of it
  tally,      \* the run's counters
  fate,       \* the observations behind the consumer's counters
  repeats,    \* observations dropped because the profile's history has them
  outside,    \* listings changed by others since the run began (history variable)
  runs, changes, faults

durable == <<catalog, job>>
producer == <<query, queue, closed, seen, past, repeats>>
vars == <<durable, producer, phase, consumer, tally, fate, outside, runs, changes, faults>>

Unseen == [rev |-> 0, content |-> None, normalized |-> 0]
Observations == [listing : Listings, rev : Nat \ {0}, content : Contents, changed : BOOLEAN]
NoTally == [found |-> 0, runtime |-> 0, history |-> 0, lost |-> 0, errors |-> 0,
            failures |-> 0, answers |-> 0]
NoFate == [filtered |-> {}, unanalysed |-> {}, saved |-> {}, unsaved |-> {}]
Waiting == [at |-> "get", batch |-> <<>>, left |-> {}, captured |-> [l \in Listings |-> 0]]

Rows == [rev : Nat, content : Contents \cup {None}, normalized : Nat]
Stages == {"get", "normalize", "analyze", "save", "end"}
Tallies == [found : Nat, runtime : Nat, history : Nat, lost : Nat, errors : Nat,
            failures : Nat, answers : Nat]
Fates == [filtered : SUBSET Observations, unanalysed : SUBSET Observations,
          saved : SUBSET Observations, unsaved : SUBSET Observations]

TypeOK ==
  /\ catalog \in [Listings -> Rows]
  /\ \A l \in Listings : catalog[l].rev = 0 <=> catalog[l] = Unseen
  /\ job \in [Listings -> Nat] /\ \A l \in Listings : job[l] <= catalog[l].rev
  /\ phase \in {"idle", "streaming", "done", "error", "stopped"}
  /\ query \in [Queries -> {"waiting", "active", "settled"}]
  /\ queue \in Seq(Seq(Observations)) /\ closed \in BOOLEAN
  /\ seen \in [keys : SUBSET Listings, bodies : SUBSET Contents]
  /\ past \subseteq Listings /\ outside \subseteq Listings
  /\ consumer \in [at : Stages, batch : Seq(Observations), left : SUBSET Observations,
                   captured : [Listings -> Nat]]
  /\ consumer.left \subseteq Range(consumer.batch)
  /\ tally \in Tallies /\ fate \in Fates
  /\ repeats \subseteq Observations
  /\ runs \in 0..MaxRuns /\ changes \in 0..MaxChanges /\ faults \in 0..MaxFaults

Init ==
  /\ catalog = [l \in Listings |-> Unseen] /\ job = [l \in Listings |-> 0]
  /\ phase = "idle" /\ query = [q \in Queries |-> "settled"]
  /\ queue = <<>> /\ closed = TRUE
  /\ seen = [keys |-> {}, bodies |-> {}] /\ past = {} /\ repeats = {}
  /\ consumer = [Waiting EXCEPT !.at = "end"]
  /\ tally = NoTally /\ fate = NoFate /\ outside = {}
  /\ runs = 0 /\ changes = 0 /\ faults = 0

\* n more failures, within the bound.
Fails(n) == faults' = faults + n /\ faults' <= MaxFaults

-----------------------------------------------------------------------------
(* The shared catalogue                                                    *)

Changed(row, c) == row.rev > 0 /\ row.content # c

\* One observation: a new row, a new revision that forgets its normalization,
\* or only a later last_seen_at.
Upsert(row, c) ==
  IF row.rev = 0 \/ Changed(row, c)
  THEN [rev |-> row.rev + 1, content |-> c, normalized |-> 0]
  ELSE row

\* An item upserted into what the items before it have left: its observation is
\* of the row's new revision.
Observed(b, item) ==
  LET l == item.listing
      row == Upsert(b.rows[l], item.content)
  IN [rows |-> [b.rows EXCEPT ![l] = row],
      captured |-> Append(b.captured,
        [listing |-> l, rev |-> row.rev, content |-> item.content,
         changed |-> Changed(b.rows[l], item.content)])]

\* The rows and the captured observations after the items numbered in ok have
\* been upserted in order, each in a savepoint of its own.
Catalogued(items, ok) ==
  LET After[n \in 0..Len(items)] ==
        IF n = 0 THEN [rows |-> catalog, captured |-> <<>>]
        ELSE IF n \in ok THEN Observed(After[n - 1], items[n])
        ELSE After[n - 1]
  IN After[Len(items)]

-----------------------------------------------------------------------------
(* The producer                                                            *)

\* _duplicate_reason, with what the run has recorded so far.
Reason(o, known) ==
  IF o.listing \in known.keys THEN "runtime"
  ELSE IF o.listing \in past THEN "history"
  ELSE IF o.content \in known.bodies THEN "runtime"
  ELSE "new"

\* Fault: what is known is dropped although its text has changed.
Repeated_Changed(o, known) == Reason(o, known) # "new"

\* A changed observation goes back into the pipeline whatever is known of it.
Repeated(o, known) == Reason(o, known) # "new" /\ ~o.changed

\* An observation is kept and marked as known, or counted as a duplicate.
Sifted(b, o) ==
  IF ~Repeated(o, b.known)
  THEN [b EXCEPT !.known = [keys |-> @.keys \cup {o.listing}, bodies |-> @.bodies \cup {o.content}],
                 !.kept = Append(@, o)]
  ELSE IF Reason(o, b.known) = "runtime" THEN [b EXCEPT !.runtime = @ + 1]
  ELSE [b EXCEPT !.history = @ \cup {o}, !.dropped = @ + 1]

\* What the deduplication makes of a query's observations, taken in order.
Deduplicated(observed) ==
  LET After[n \in 0..Len(observed)] ==
        IF n = 0 THEN [known |-> seen, kept |-> <<>>, runtime |-> 0, history |-> {}, dropped |-> 0]
        ELSE Sifted(After[n - 1], observed[n])
  IN After[Len(observed)]

\* run_search reached _run_pipeline: the plan, the profile's history, fresh
\* counters.  A plan without queries is done at once.
Begin(plan) ==
  /\ phase # "streaming" /\ runs < MaxRuns
  /\ phase' = IF plan = {} THEN "done" ELSE "streaming"
  /\ query' = [q \in Queries |-> IF q \in plan THEN "waiting" ELSE "settled"]
  /\ queue' = <<>> /\ closed' = (plan = {})
  /\ seen' = [keys |-> {}, bodies |-> {}]
  /\ past' = {l \in Listings : job[l] > 0} /\ repeats' = {}
  /\ consumer' = [Waiting EXCEPT !.at = IF plan = {} THEN "end" ELSE "get"]
  /\ tally' = NoTally /\ fate' = NoFate /\ outside' = {}
  /\ runs' = runs + 1
  /\ UNCHANGED <<durable, changes, faults>>

\* A query gets the semaphore and sends its requests.
StartQuery(q) ==
  /\ phase = "streaming" /\ query[q] = "waiting"
  /\ Cardinality({p \in Queries : query[p] = "active"}) < Concurrency
  /\ query' = [query EXCEPT ![q] = "active"]
  /\ UNCHANGED <<durable, queue, closed, seen, past, repeats, phase, consumer, tally, fate,
                 outside, runs, changes, faults>>

\* The providers of a query have answered: the catalogue is refreshed, the
\* observations deduplicated and the rest put on the queue without an await.
\* A provider that failed contributes nothing; no provider at all may serve it.
\* Rows the catalogue refuses leave the run; when it refuses all of them, or
\* the commit fails, the query is given up.
SettleQuery(q, items, ok, failures, answers) ==
  LET stored == Catalogued(items, ok)
      unique == Deduplicated(stored.captured)
      refused == Len(items) - Cardinality(ok)
  IN /\ phase = "streaming" /\ query[q] = "active"
     /\ ok \subseteq DOMAIN items /\ (items # <<>> => answers > 0)
     /\ Fails(failures + refused)
     /\ query' = [query EXCEPT ![q] = "settled"]
     /\ catalog' = stored.rows
     /\ seen' = unique.known
     /\ queue' = IF unique.kept = <<>> THEN queue ELSE Append(queue, unique.kept)
     /\ repeats' = repeats \cup unique.history
     /\ tally' = [tally EXCEPT !.found = @ + Len(items),
                               !.runtime = @ + unique.runtime,
                               !.history = @ + unique.dropped,
                               !.lost = @ + refused,
                               !.errors = @ + IF ok = {} /\ items # <<>> THEN 1 ELSE refused,
                               !.failures = @ + failures, !.answers = @ + answers]
     /\ UNCHANGED <<job, closed, past, phase, consumer, fate, outside, runs, changes>>

\* Fault: None is put only after queries that all went well.
CloseStream_NoFinally ==
  /\ phase = "streaming" /\ ~closed /\ tally.errors = 0
  /\ \A q \in Queries : query[q] = "settled"
  /\ queue' = Append(queue, <<>>) /\ closed' = TRUE
  /\ UNCHANGED <<durable, query, seen, past, repeats, phase, consumer, tally, fate, outside,
                 runs, changes, faults>>

\* The finally of _search_and_produce: None follows the last batch.
CloseStream ==
  /\ phase = "streaming" /\ ~closed
  /\ \A q \in Queries : query[q] = "settled"
  /\ queue' = Append(queue, <<>>) /\ closed' = TRUE
  /\ UNCHANGED <<durable, query, seen, past, repeats, phase, consumer, tally, fate, outside,
                 runs, changes, faults>>

-----------------------------------------------------------------------------
(* The consumer                                                            *)

\* The next batch; its rows that still need a normalization are captured as
\* they are now, for the model call that is awaited.
TakeBatch ==
  /\ phase = "streaming" /\ consumer.at = "get" /\ queue # <<>>
  /\ queue' = Tail(queue)
  /\ consumer' =
       IF Head(queue) = <<>> THEN [consumer EXCEPT !.at = "end"]
       ELSE [at |-> "normalize", batch |-> Head(queue), left |-> Range(Head(queue)),
             captured |-> [l \in Listings |->
               IF /\ \E i \in DOMAIN Head(queue) : Head(queue)[i].listing = l
                  /\ catalog[l].normalized = 0
               THEN catalog[l].rev ELSE 0]]
  /\ UNCHANGED <<durable, query, closed, seen, past, repeats, phase, tally, fate, outside,
                 runs, changes, faults>>

\* The captured rows that are still the captured revision get the result; a
\* failed call is recorded on them too.
Normalized(rows) ==
  [l \in Listings |->
     IF /\ consumer.captured[l] > 0 /\ rows[l].rev = consumer.captured[l]
        /\ rows[l].normalized = 0
     THEN [rows[l] EXCEPT !.normalized = consumer.captured[l]]
     ELSE rows[l]]

\* The consumer goes on with the part of its batch that is left, or with the
\* next batch when nothing is.
GoesOn(stage, left) ==
  IF left = {} THEN Waiting ELSE [Waiting EXCEPT !.at = stage, !.batch = consumer.batch, !.left = left]

\* Fault: only the analysed part of a batch is counted.
Filter_Uncounted(kept, normalizes, open) ==
  /\ phase = "streaming" /\ consumer.at = "normalize"
  /\ kept \subseteq consumer.left /\ ~open /\ normalizes
  /\ catalog' = Normalized(catalog)
  /\ consumer' = GoesOn("analyze", kept)
  /\ UNCHANGED <<job, producer, phase, tally, fate, outside, runs, changes, faults>>

\* Normalization returns (or has failed as a whole, which is only a warning);
\* the filters then keep some of the batch, and an open circuit gives up the rest.
Filter(kept, normalizes, open) ==
  /\ phase = "streaming" /\ consumer.at = "normalize"
  /\ kept \subseteq consumer.left /\ (open => kept # {})
  /\ Fails((IF normalizes THEN 0 ELSE 1) + (IF open THEN 1 ELSE 0))
  /\ catalog' = IF normalizes THEN Normalized(catalog) ELSE catalog
  /\ fate' = [fate EXCEPT !.filtered = @ \cup (consumer.left \ kept),
                          !.unanalysed = @ \cup IF open THEN kept ELSE {}]
  /\ tally' = [tally EXCEPT !.errors = @ + IF open THEN 1 ELSE 0]
  /\ consumer' = GoesOn("analyze", IF open THEN {} ELSE kept)
  /\ UNCHANGED <<job, producer, phase, outside, runs, changes>>

\* The model has analysed the batch; the parts whose call failed are missing.
Analyse(answered) ==
  LET missing == consumer.left \ answered
  IN /\ phase = "streaming" /\ consumer.at = "analyze"
     /\ answered \subseteq consumer.left
     /\ Fails(IF missing = {} THEN 0 ELSE 1)
     /\ fate' = [fate EXCEPT !.unanalysed = @ \cup missing]
     /\ tally' = [tally EXCEPT !.errors = @ + IF missing = {} THEN 0 ELSE 1]
     /\ consumer' = GoesOn("save", answered)
     /\ UNCHANGED <<durable, producer, phase, outside, runs, changes>>

\* Fault: an analysis is saved without looking at the row again.
Current_Trusted(o) == catalog[o.listing].rev > 0

\* The catalogue row is still the one that was analysed.
Current(o) == catalog[o.listing].rev = o.rev /\ catalog[o.listing].content = o.content

\* The analyses are saved in the order of the batch.
IsNext(o) ==
  \E i \in DOMAIN consumer.batch :
    /\ o = consumer.batch[i] /\ o \in consumer.left
    /\ \A j \in 1..(i - 1) : consumer.batch[j] \notin consumer.left

\* save_single_job for the next analysis of the batch, at its last check after
\* everything it awaits.  A stale one is skipped and not an error.
Save(o, fails) ==
  LET stale == ~Current(o)
  IN /\ phase = "streaming" /\ consumer.at = "save" /\ IsNext(o)
     /\ Fails(IF fails THEN 1 ELSE 0)
     /\ consumer' = GoesOn("save", consumer.left \ {o})
     /\ IF fails \/ stale
        THEN /\ fate' = [fate EXCEPT !.unsaved = @ \cup {o}]
             /\ UNCHANGED job
        ELSE /\ fate' = [fate EXCEPT !.saved = @ \cup {o}]
             /\ job' = [job EXCEPT ![o.listing] = o.rev]
     /\ tally' = [tally EXCEPT !.errors = @ + IF fails THEN 1 ELSE 0]
     /\ UNCHANGED <<catalog, producer, phase, outside, runs, changes>>

-----------------------------------------------------------------------------
(* The end of a run                                                        *)

Duplicates == tally.runtime + tally.history
Unique == tally.found - Duplicates
Analysed == Cardinality(fate.saved) + Cardinality(fate.unsaved)

\* The terminal classification, in the order of the code.
Outcome ==
  IF tally.found = 0 THEN IF tally.failures > 0 /\ tally.answers = 0 THEN "error" ELSE "done"
  ELSE IF Unique = 0 THEN "done"
  ELSE IF Analysed = 0
       THEN IF \/ Cardinality(fate.unanalysed) > 0
               \/ tally.errors > 0 /\ Unique > Cardinality(fate.filtered) + Cardinality(fate.unanalysed)
            THEN "error" ELSE "done"
  ELSE IF Cardinality(fate.unanalysed) > 0 THEN "error"
  ELSE IF Cardinality(fate.saved) = 0 /\ tally.errors > 0 THEN "error"
  ELSE "done"

\* Both coroutines of the gather have returned.
Finish ==
  /\ phase = "streaming" /\ closed /\ consumer.at = "end"
  /\ phase' = Outcome
  /\ UNCHANGED <<durable, producer, consumer, tally, fate, outside, runs, changes, faults>>

\* The user stops the run, the pipeline times out or the process dies; what the
\* cancelled coroutines held is gone.
Interrupt ==
  /\ phase = "streaming" /\ Fails(1)
  /\ phase' = "stopped"
  /\ query' = [q \in Queries |-> "settled"] /\ queue' = <<>> /\ closed' = TRUE
  /\ seen' = [keys |-> {}, bodies |-> {}] /\ past' = {} /\ repeats' = {}
  /\ consumer' = [Waiting EXCEPT !.at = "end"]
  /\ tally' = NoTally /\ fate' = NoFate /\ outside' = {}
  /\ UNCHANGED <<durable, runs, changes>>

\* A run of another profile or account, or an accepted discovery, observes a listing
\* that is new or has changed.
OtherObserves(l, c) ==
  /\ changes < MaxChanges /\ changes' = changes + 1
  /\ catalog[l].content # c
  /\ catalog' = [catalog EXCEPT ![l] = Upsert(@, c)]
  /\ outside' = outside \cup {l}
  /\ UNCHANGED <<job, producer, phase, consumer, tally, fate, runs, faults>>

-----------------------------------------------------------------------------
Items == SeqOf([listing : Listings, content : Contents], MaxFound - tally.found)

RunStep ==
  \/ \E q \in Queries : StartQuery(q)
  \/ \E q \in Queries, items \in Items, failures, answers \in 0..1 :
       \E ok \in SUBSET DOMAIN items : SettleQuery(q, items, ok, failures, answers)
  \/ CloseStream
  \/ TakeBatch
  \/ \E kept \in SUBSET consumer.left, normalizes, open \in BOOLEAN :
       Filter(kept, normalizes, open)
  \/ \E answered \in SUBSET consumer.left : Analyse(answered)
  \/ \E o \in consumer.left, fails \in BOOLEAN : Save(o, fails)
  \/ Finish

Next ==
  \/ \E plan \in {{}, Queries} : Begin(plan)
  \/ RunStep
  \/ Interrupt
  \/ \E l \in Listings, c \in Contents : OtherObserves(l, c)

Spec == Init /\ [][Next]_vars

-----------------------------------------------------------------------------
(* Properties                                                              *)

\* A row's normalization is of the text the row has now, and a Job never takes the
\* analysis of a text the catalogue no longer has, whatever was observed while the
\* model calls that produced them were awaited (normalize_persisted_jobs,
\* save_single_job).
ResultsAreCurrent ==
  /\ [](\A l \in Listings : catalog[l].normalized \in {0, catalog[l].rev})
  /\ [][\A l \in Listings : job'[l] # job[l] => job'[l] = catalog[l].rev]_vars

Queued == UNION {Range(queue[i]) : i \in DOMAIN queue}
InFlight == Cardinality(Queued) + Cardinality(consumer.left)

\* Every listing the providers returned is in exactly one place: dropped as a
\* duplicate, refused by the catalogue, on its way, or counted once as filtered,
\* not analysed, saved or not saved.  The counters a receipt shows add up.
Accounted ==
  tally.found = Duplicates + tally.lost + InFlight + Cardinality(fate.filtered)
                + Cardinality(fate.unanalysed) + Analysed

\* A run that is "done" without an error has dealt with every listing it took
\* in: the Job has the analysis of the current text, or the filters rejected
\* that text, or someone else has changed it meanwhile.
DoneIsWhole ==
  phase = "done" /\ tally.errors = 0 =>
    \A l \in seen.keys :
      \/ job[l] = catalog[l].rev
      \/ \E o \in fate.filtered : o.listing = l /\ o.rev = catalog[l].rev
      \/ l \in outside

\* Until it has its terminal status a run can go on by itself: the consumer is
\* never left waiting for an end of the stream that no query will send.
NeverStuck == phase = "streaming" => ENABLED RunStep

\* What the deduplication drops as known to the profile has been analysed in
\* that revision: a changed listing stays in the pipeline until a fresh result
\* replaces the old one.
HistoryIsAnalysed ==
  \A o \in repeats : job[o.listing] >= o.rev
=============================================================================
