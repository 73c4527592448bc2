------------------------------ MODULE Listing -------------------------------
(***************************************************************************)
(* Reading the store page by page while it changes: run, attempt, job,     *)
(* queue and secret lists, statistics by group, and captured output by     *)
(* slices.  A client asks for a first page and follows the continuation it *)
(* is given; between two pages runs start, end, are rescheduled, moved and *)
(* removed, and definitions come and go.  History and statistics keep the  *)
(* continuation in a bounded, expiring store of cursors that other clients *)
(* use too; the other lists are continued after the last key returned.     *)
(*                                                                         *)
(* A behaviour follows one list of one kind (of).  The rows it reads are   *)
(* table; identifiers and names are numbers, in the order of their bytes.  *)
(***************************************************************************)
EXTENDS Integers, Sequences, FiniteSets

LOCAL INSTANCE FiniteSetsExt

CONSTANTS
    ListIds,        \* identifiers of rows, 1 .. n
    MaxEntries,     \* maximum_entries of a cursor store
    Lifetime,       \* five minutes
    Budget,         \* bytes a page may take, in units of the smallest row
    Retained,       \* bytes of output that are kept
    MaxTrouble      \* ticks, changes, lists of others and lost answers during one walk

Unstated == 0         \* NULL, or no value given
NoKey == <<>>

VARIABLES
    of,             \* "runs", "attempts", "groups", "jobs", "queues", "secrets" or "output"
    table,          \* the table the list is read from
    entries,        \* _entries of the cursor store, least recently used first
    listClock, accepting,
    walk,           \* what the client has: where it stands, its query, continuation and items
    stable,         \* ids that have matched the query, under one key, since the first page
    since,          \* entries issued since the client's cursor was last issued or found
    changes, otherLists, lost

listVars == <<of, table, entries, listClock, accepting, walk, stable, since, changes, otherLists, lost>>

-----------------------------------------------------------------------------
(* Rows, and what the readers demand of them.                              *)

OverStates == {"succeeded", "failed", "interrupted", "cancelled"}
PendingStates == {"scheduled", "retry_wait"}

attempt(state, started, outcome, evidence, blob) ==
    [state |-> state, started |-> started, completed |-> state = "completed", outcome |-> outcome,
     evidence |-> evidence, blob |-> blob]

NoEvidence == [known |-> FALSE, total |-> 0, captured |-> 0, truncated |-> FALSE, lost |-> FALSE]
NoBlob == [row |-> FALSE, present |-> FALSE, length |-> 0, truncated |-> FALSE, lost |-> FALSE]

NewRun(planned, origin) ==
    [there |-> TRUE, planned |-> planned, queue |-> 1, type |-> "cli", origin |-> origin, state |-> "scheduled",
     started |-> Unstated, completed |-> Unstated, quality |-> "complete", open |-> TRUE, attempts |-> <<>>]

RunFieldsAgree(r) ==
    /\ r.state \in OverStates <=> r.completed # Unstated
    /\ r.state \notin {"scheduled", "cancelled"} => r.started # Unstated
    /\ r.state = "scheduled" => r.started = Unstated

AttemptFieldsAgree(a) ==
    \/ a.state = "pending" /\ ~a.started /\ ~a.completed /\ a.outcome = "none"
    \/ a.state = "running" /\ a.started /\ ~a.completed /\ a.outcome = "none"
    \/ a.state = "completed" /\ a.completed /\ a.outcome # "none" /\ (a.started \/ a.outcome = "cancelled")

\* The joined timing row: an interval is open only while the run waits and is measured.
TimingAgrees(r) == /\ r.open => r.state \in PendingStates
                   /\ r.quality = "unmeasured" => ~r.open

JobFieldsAgree(j) == /\ j.state = "deleted" <=> j.deleted
                     /\ j.state \in {"succeeded", "failed", "cancelled"} => j.once

QueueFieldsAgree(d) == d.state = "deleted" <=> d.deleted

-----------------------------------------------------------------------------
(* The lists: which rows a query selects, and the order they come in.       *)
(* A key is compared in ascending order; descending columns are negated.   *)

Less(a, b) == a[1] < b[1] \/ (a[1] = b[1] /\ a[2] < b[2])

InRange(v, from, to) == /\ from # Unstated => v # Unstated /\ v >= from
                        /\ to # Unstated => v # Unstated /\ v < to

RunMatches(q, r) ==
    /\ q.queue # Unstated => r.queue = q.queue
    /\ q.states # {} => r.state \in q.states
    /\ InRange(r.planned, q.from, q.to)
    /\ InRange(r.started, q.begun, Unstated)

There == {i \in ListIds : table[i].there}

list_runs(q) == {[id |-> i, key |-> <<-table[i].planned, -i>>] : i \in {i \in There : RunMatches(q, table[i])}}

list_attempts(q) == {[id |-> n, key |-> <<-n, 0>>] :
                       n \in IF table[q.run].there THEN DOMAIN table[q.run].attempts ELSE {}}

\* The text columns are in the order of their text.
GroupOrder == <<"cancelled", "cli", "failed", "http", "interrupted", "manual", "retry_wait", "running",
                "scheduled", "succeeded">>
group_column(by, r) == CASE by = "type" -> r.type [] by = "origin" -> r.origin [] by = "state" -> r.state
                         [] by = "queue" -> r.queue [] OTHER -> Unstated
GroupRank(by, k) == IF by \in {"queue", "none"} THEN k ELSE CHOOSE n \in DOMAIN GroupOrder : GroupOrder[n] = k

InWindow(q) == {i \in There : InRange(table[i].planned, q.from, q.to) /\ (q.queue # Unstated => table[i].queue = q.queue)}
GroupOf(q, k) == {i \in InWindow(q) : group_column(q.by, table[i]) = k}

\* Without a grouping there is one group, whatever the window holds.
list_groups(q) ==
    {[id |-> k, key |-> <<GroupRank(q.by, k), 0>>] :
       k \in IF q.by = "none" THEN {Unstated} ELSE {group_column(q.by, table[i]) : i \in InWindow(q)}}

list_jobs(q) ==
    {[id |-> i, key |-> <<i, 0>>] :
       i \in {i \in There : /\ q.queue # Unstated => table[i].queue = q.queue
                            /\ ~q.deleted => table[i].state # "deleted"
                            /\ q.states # {} => table[i].state \in q.states}}

list_queues(q) ==
    {[id |-> i, key |-> <<i, 0>>] :
       i \in {i \in There : /\ ~q.deleted => table[i].state # "deleted"
                            /\ q.states # {} => table[i].state \in q.states}}

list_metadata(q) == {[id |-> i, key |-> <<i, 0>>] : i \in There}

Listed(q) == CASE of = "runs" -> list_runs(q) [] of = "attempts" -> list_attempts(q)
               [] of = "groups" -> list_groups(q) [] of = "jobs" -> list_jobs(q)
               [] of = "queues" -> list_queues(q) [] of = "secrets" -> list_metadata(q)
               [] OTHER -> {}

AfterPlanned(q, after) == {x \in Listed(q) : after = NoKey \/ after[1] < x.key[1]}

\* Every list asks for one row more than the limit.
After(q, after) == {x \in Listed(q) : after = NoKey \/ Less(after, x.key)}
FirstOf(S, n) == {x \in S : Cardinality({y \in S : Less(y.key, x.key)}) < n}
InKeyOrder(S) == [n \in 1 .. Cardinality(S) |-> CHOOSE x \in S : Cardinality({y \in S : Less(y.key, x.key)}) = n - 1]
Fetched(q, after) == InKeyOrder(FirstOf(After(q, after), q.limit + 1))

Readable(q, x) ==
    CASE of = "runs" -> RunFieldsAgree(table[x.id])
      [] of = "attempts" -> AttemptFieldsAgree(table[q.run].attempts[x.id])
      [] of = "groups" -> \A i \in GroupOf(q, x.id) : /\ RunFieldsAgree(table[i]) /\ TimingAgrees(table[i])
                                                      /\ \A n \in DOMAIN table[i].attempts :
                                                            AttemptFieldsAgree(table[i].attempts[n])
      [] of = "jobs" -> JobFieldsAgree(table[x.id])
      [] of = "queues" -> QueueFieldsAgree(table[x.id])
      [] OTHER -> TRUE

\* Definitions differ in size; summaries, names and counts do not.
Size(x) == IF of \in {"jobs", "queues"} THEN table[x.id].size ELSE 1
PageBytes(fetched, n) == MapThenSumSet(LAMBDA m : Size(fetched[m]), 1 .. n)
FitsBudget(fetched, n) == of \in {"groups", "secrets"} \/ PageBytes(fetched, n) <= Budget

\* build_run_page, fitting_page_items and their like: how many of the rows fetched are returned.
fitting_page_items(fetched, limit) ==
    LET fits == {n \in 0 .. Len(fetched) : n <= limit /\ FitsBudget(fetched, n)} IN CHOOSE n \in fits : \A m \in fits : m <= n

-----------------------------------------------------------------------------
(* Statistics of one group: one scan of runs, one of their attempts.       *)

Of(G, P(_)) == Cardinality({i \in G : P(table[i])})
AttemptsOf(G) == UNION {{<<i, n>> : n \in DOMAIN table[i].attempts} : i \in G}
Tried(G, P(_)) == Cardinality({x \in AttemptsOf(G) : P(table[x[1]].attempts[x[2]])})

count_run(G) ==
    [total |-> Cardinality(G),
     byState |-> [s \in OverStates \cup PendingStates \cup {"running"} |-> Of(G, LAMBDA r : r.state = s)],
     cli |-> Of(G, LAMBDA r : r.type = "cli"), http |-> Of(G, LAMBDA r : r.type # "cli"),
     byScheduler |-> Of(G, LAMBDA r : r.origin = "scheduled"), manual |-> Of(G, LAMBDA r : r.origin # "scheduled"),
     late |-> Of(G, LAMBDA r : r.started # Unstated /\ r.started >= r.planned)]

count_wait(G) ==
    LET over(r) == r.state \in OverStates IN
    [unfinished |-> Of(G, LAMBDA r : ~over(r)), partial |-> Of(G, LAMBDA r : over(r) /\ r.quality = "partial"),
     unmeasured |-> Of(G, LAMBDA r : over(r) /\ r.quality = "unmeasured"),
     complete |-> Of(G, LAMBDA r : over(r) /\ r.quality = "complete")]

count_attempt(G) ==
    [total |-> Cardinality(AttemptsOf(G)), pending |-> Tried(G, LAMBDA a : a.state = "pending"),
     running |-> Tried(G, LAMBDA a : a.state = "running"), completed |-> Tried(G, LAMBDA a : a.state = "completed"),
     retries |-> Cardinality({x \in AttemptsOf(G) : x[2] > 1}),
     byOutcome |-> [o \in OverStates |-> Tried(G, LAMBDA a : a.outcome = o)]]

aggregate(q, k) ==
    [runs |-> count_run(GroupOf(q, k)), wait |-> count_wait(GroupOf(q, k)), attempts |-> count_attempt(GroupOf(q, k))]

\* resolve_request: an open window ends now and is a day long.
Day == 2
ResolvedWindow(from, to) == LET upper == IF to = Unstated THEN listClock + 3 ELSE to
                    IN <<IF from = Unstated THEN upper - Day ELSE from, upper>>

-----------------------------------------------------------------------------
(* Captured output.                                                        *)

Smaller(a, b) == IF a < b THEN a ELSE b

\* The runner's metadata must agree with itself and with the bytes kept.
capture_evidence(a) ==
    LET e == a.evidence IN
    e.known => /\ e.captured <= e.total
               /\ e.truncated <=> e.captured < e.total
               /\ a.blob.present => e.captured = a.blob.length /\ (e.truncated <=> a.blob.truncated)

\* A slice: what is kept of the program's bytes 1 .. total is a prefix.
read_output(a, offset, limit) ==
    LET kept == IF a.blob.present THEN a.blob.length ELSE 0
        known == a.evidence.known /\ a.evidence.total >= kept
        last == IF a.state = "completed" THEN Smaller(offset + limit, kept) ELSE offset
        gone == a.blob.lost \/ a.evidence.lost
    IN  [status |-> CASE a.state # "completed" -> "pending" [] gone -> "lost"
                      [] a.blob.present -> "available" [] OTHER -> "not_captured",
         data |-> [n \in 1 .. last - offset |-> offset + n],
         retained |-> kept, lost |-> gone, truncated |-> a.blob.truncated \/ a.evidence.truncated,
         known |-> known, total |-> IF known THEN a.evidence.total ELSE 0,
         omitted |-> IF known THEN a.evidence.total - kept ELSE 0,
         next |-> IF last < kept THEN last ELSE Unstated]

NoChunk == read_output(attempt("running", TRUE, "none", NoEvidence, NoBlob), 0, 1)
OutputIsReadable(a) == (a.state # "completed" => ~a.blob.row) /\ capture_evidence(a)

CapturedUncounted(mode, total, gone, outcome) ==
    attempt("completed", TRUE, outcome,
            [known |-> TRUE, total |-> total, captured |-> Smaller(total, Retained), truncated |-> FALSE, lost |-> gone],
            NoBlob)

\* map_cli_completion and to_storage_output: the metadata is written whether the bytes are kept or not.
Captured(mode, total, gone, outcome) ==
    LET kept == Smaller(total, Retained)
        told == IF mode = "none" THEN 0 ELSE kept
    IN  attempt("completed", TRUE, outcome,
                [known |-> TRUE, total |-> total, captured |-> told, truncated |-> total > told, lost |-> gone],
                IF mode = "always" \/ (mode = "on_error" /\ outcome # "succeeded")
                THEN [row |-> TRUE, present |-> TRUE, length |-> kept, truncated |-> total > kept, lost |-> gone]
                ELSE NoBlob)

InterruptedKept == attempt("completed", TRUE, "interrupted", NoEvidence,
                           [row |-> TRUE, present |-> TRUE, length |-> 0, truncated |-> FALSE, lost |-> FALSE])

\* interrupt_attempt: recovery cannot know what was written.
Interrupted == attempt("completed", TRUE, "interrupted", NoEvidence,
                       [row |-> TRUE, present |-> TRUE, length |-> 0, truncated |-> FALSE, lost |-> TRUE])

-----------------------------------------------------------------------------
(* The cursor stores.                                                      *)

cursors == <<entries, since>>
HasCursor == of \in {"runs", "attempts", "groups"}

evict_expired == SelectSeq(entries, LAMBDA e : e.expires > listClock)

\* Expired entries go first, then the least recently used; tokens are never issued twice.
Issued(live, e) == Append(IF Len(live) = MaxEntries THEN Tail(live) ELSE live, e)

find(token) == {n \in DOMAIN evict_expired : evict_expired[n].token = token}
SplicedInPlace(n) == evict_expired

Spliced(n) == LET live == evict_expired
              IN  SubSeq(live, 1, n - 1) \o SubSeq(live, n + 1, Len(live)) \o <<live[n]>>

\* start_run, start_attempt and start set the expiry; advance_... keeps it.
Entry(token, q, key, expires) == [token |-> token, q |-> q, after |-> key, expires |-> expires]
Fresh == walk.minted + otherLists + 1

-----------------------------------------------------------------------------
(* The client.                                                             *)

Trouble == listClock + changes + otherLists + lost < MaxTrouble
elsewhere == <<table, listClock, changes, otherLists>>
Ends(reason) == walk' = [walk EXCEPT !.at = reason]

\* invoke: a row the reader refuses stops the service and drops every cursor.
Fatal == /\ Ends("invariant")
         /\ accepting' = FALSE /\ entries' = <<>>
         /\ UNCHANGED <<stable, since, lost>>

\* One page of q after a key.  live is the store of cursors once the continuation has been looked up.
Page(q, after, live, expires, delivered) ==
    LET fetched == Fetched(q, after)
        n == fitting_page_items(fetched, q.limit)
        more == n < Len(fetched)
        key == fetched[n].key
        agree == \A m \in IF of = "groups" THEN 1 .. n ELSE DOMAIN fetched : Readable(q, fetched[m])
        issued == [walk EXCEPT !.minted = IF more /\ HasCursor THEN @ + 1 ELSE @]
    IN  \/ ~agree /\ Fatal
        \/ /\ agree /\ n = 0 /\ fetched # <<>>
           /\ Ends("too_large")
           /\ entries' = live
           /\ UNCHANGED <<accepting, stable, since, lost>>
        \/ /\ agree /\ more /\ HasCursor /\ n > 0    \* no token could be generated
           /\ Trouble /\ lost' = lost + 1
           /\ entries' = live /\ since' = 0
           /\ UNCHANGED <<accepting, walk, stable>>
        \/ /\ agree /\ (n > 0 \/ fetched = <<>>)
           /\ entries' = IF more /\ HasCursor THEN Issued(live, Entry(Fresh, q, key, expires)) ELSE live
           /\ since' = IF delivered \/ ~more THEN 0 ELSE 1
           /\ IF delivered
              THEN walk' = [issued EXCEPT !.at = IF more THEN "page" ELSE "done", !.q = q,
                                          !.token = IF more THEN Fresh ELSE Unstated,
                                          !.after = IF more THEN key ELSE NoKey,
                                          !.got = @ \o SubSeq(fetched, 1, n),
                                          !.last = listClock, !.expires = expires]
              ELSE walk' = issued
           /\ lost' = IF delivered THEN lost ELSE lost + 1
           /\ stable' = IF walk.at = "idle" THEN {x.id : x \in Listed(q)} ELSE stable
           /\ UNCHANGED accepting

\* The first page of a list.
List(q) ==
    /\ of # "output" /\ walk.at = "idle"
    /\ \/ accepting /\ Page(q, NoKey, evict_expired, listClock + Lifetime, TRUE)
       \/ ~accepting /\ Ends("stopping") /\ UNCHANGED <<entries, accepting, stable, since, lost>>
    /\ UNCHANGED <<of, elsewhere>>

\* The next page of history or statistics.  Its answer may be lost; the client then asks again with the same token.
ContinueCursor(delivered) ==
    /\ HasCursor /\ walk.at = "page"
    /\ delivered \/ Trouble
    /\ \/ ~accepting /\ Ends("stopping") /\ UNCHANGED <<entries, accepting, stable, since, lost>>
       \/ /\ accepting /\ find(walk.token) = {}
          /\ Ends("invalid_cursor")
          /\ entries' = evict_expired
          /\ UNCHANGED <<accepting, stable, since, lost>>
       \/ /\ accepting
          /\ \E n \in find(walk.token) :
                LET e == evict_expired[n] IN Page(e.q, e.after, Spliced(n), e.expires, delivered)
    /\ UNCHANGED <<of, elsewhere>>

\* The next page of jobs, queues or secrets.
ContinueAfter ==
    /\ ~HasCursor /\ of # "output" /\ walk.at = "page"
    /\ Page(walk.q, walk.after, entries, walk.expires, TRUE)
    /\ UNCHANGED <<of, elsewhere>>

\* A slice of output.  The attempt may be gone by now.
ReadSlice(q) ==
    LET run == table[q.run] IN
    /\ of = "output" /\ walk.at \in {"idle", "page"} /\ (walk.at = "page" => q = walk.q)
    /\ \/ ~accepting /\ Ends("stopping") /\ UNCHANGED accepting
       \/ /\ accepting /\ (~run.there \/ q.number \notin DOMAIN run.attempts)
          /\ Ends("not_found")
          /\ UNCHANGED accepting
       \/ /\ accepting /\ run.there /\ q.number \in DOMAIN run.attempts
          /\ LET a == run.attempts[q.number]
                 chunk == read_output(a, walk.offset, q.limit)
             IN  \/ /\ ~OutputIsReadable(a)
                    /\ Ends("invariant")
                    /\ accepting' = FALSE
                 \/ /\ OutputIsReadable(a) /\ walk.offset > chunk.retained
                    /\ Ends("invalid_request")
                    /\ UNCHANGED accepting
                 \/ /\ OutputIsReadable(a) /\ walk.offset <= chunk.retained
                    /\ walk' = [walk EXCEPT !.at = IF chunk.next = Unstated THEN "done" ELSE "page", !.q = q,
                                            !.offset = chunk.next, !.bytes = @ \o chunk.data, !.chunk = chunk]
                    /\ UNCHANGED accepting
    /\ UNCHANGED <<of, elsewhere, cursors, stable, lost>>

-----------------------------------------------------------------------------
(* Meanwhile.                                                              *)

Watching == walk.at \in {"idle", "page"}

\* Only what happens between pages can disturb a list; output may appear before it is first read.
Underway == walk.at = "page" \/ (of = "output" /\ walk.at = "idle")

\* Another client's list is given a cursor.
OthersList ==
    /\ HasCursor /\ accepting /\ Underway /\ Trouble
    /\ otherLists' = otherLists + 1
    /\ entries' = Issued(evict_expired, Entry(Fresh, walk.q, NoKey, listClock + Lifetime))
    /\ since' = since + 1
    /\ UNCHANGED <<of, table, listClock, accepting, walk, stable, changes, lost>>

ListTick ==
    /\ HasCursor /\ Underway /\ Trouble
    /\ listClock' = listClock + 1
    /\ UNCHANGED <<of, table, entries, accepting, walk, stable, since, changes, otherLists, lost>>

\* shutdown: reads are refused and every cursor is gone.
StopReads ==
    /\ accepting /\ Watching /\ of \notin {"jobs", "queues", "secrets"}
    /\ accepting' = FALSE /\ entries' = <<>>
    /\ UNCHANGED <<of, table, listClock, walk, stable, since, changes, otherLists, lost>>

\* What no longer matches, or matches under another key, need not be listed any more.
StillListed ==
    stable' = IF walk.at = "idle" THEN stable ELSE stable \cap {x.id : x \in Listed(walk.q) \cap Listed(walk.q)'}

\* A statement changes rows.
Become(new) ==
    /\ Underway /\ Trouble
    /\ changes' = changes + 1
    /\ table' = new
    /\ UNCHANGED <<of, entries, listClock, accepting, walk, since, otherLists, lost>>
    /\ StillListed

Changes(i, row) == Become([table EXCEPT ![i] = row])

OfRuns == of \in {"runs", "attempts", "groups", "output"}

\* insert_schedule_owned and insert_manual
InsertRun(i, planned, origin) == OfRuns /\ ~table[i].there /\ Changes(i, NewRun(planned, origin))

\* mark_dispatch_running and insert_attempt
DispatchListed(i) ==
    /\ OfRuns /\ table[i].there /\ table[i].state \in PendingStates
    /\ Changes(i, [table[i] EXCEPT !.state = "running", !.open = FALSE,
                                  !.started = IF @ = Unstated THEN listClock + 1 ELSE @,
                                  !.attempts = Append(@, attempt("running", TRUE, "none", NoEvidence, NoBlob))])

\* complete_attempt with insert_or_replace_output, then set_run_terminal or set_run_retry_wait
CompleteListed(i, done, retry) ==
    /\ OfRuns /\ table[i].there /\ table[i].state = "running"
    /\ retry => done.outcome = "failed"
    /\ Changes(i, [table[i] EXCEPT !.state = IF retry THEN "retry_wait" ELSE done.outcome, !.open = retry,
                                  !.completed = IF retry THEN Unstated ELSE listClock + 1,
                                  !.attempts[Len(table[i].attempts)] = done])

\* cancel_pending_run and cancel_pending
CancelWaiting(i) ==
    /\ OfRuns /\ table[i].there /\ table[i].state \in PendingStates
    /\ Changes(i, [table[i] EXCEPT !.state = "cancelled", !.open = FALSE, !.completed = listClock + 1])

\* refresh_unstarted_schedule_owned
RefreshRun(i, planned) ==
    /\ OfRuns /\ table[i].there /\ table[i].state = "scheduled" /\ table[i].origin = "scheduled"
    /\ planned # table[i].planned
    /\ Changes(i, [table[i] EXCEPT !.planned = planned])

\* move_non_terminal
MoveRun(i) ==
    /\ OfRuns /\ table[i].there /\ table[i].state \notin OverStates
    /\ Changes(i, [table[i] EXCEPT !.queue = 3 - @])

\* delete_selected_terminal: attempts and output go with the run.
PurgeRun(i) ==
    /\ OfRuns /\ table[i].there /\ table[i].state \in OverStates
    /\ Changes(i, [table[i] EXCEPT !.there = FALSE])

\* JobRepository: insert, update_definition, set_state, move, mark_deleted, and what retention removes
InsertJob(i, once) ==
    /\ of = "jobs" /\ ~table[i].there
    /\ Changes(i, [there |-> TRUE, queue |-> 1, state |-> "active", deleted |-> FALSE, once |-> once, size |-> 1])

UpdateDefinition(i, once, size) ==
    /\ of = "jobs" /\ table[i].there /\ table[i].state \in {"active", "suspended"}
    /\ Changes(i, [table[i] EXCEPT !.once = once, !.size = size])

JobMoves(once) == {<<"active", "suspended">>, <<"suspended", "active">>}
                    \cup IF once THEN {"active", "suspended"} \X {"succeeded", "failed", "cancelled"} ELSE {}

SetJobState(i, next) ==
    /\ of = "jobs" /\ table[i].there /\ <<table[i].state, next>> \in JobMoves(table[i].once)
    /\ Changes(i, [table[i] EXCEPT !.state = next])

MoveJob(i) ==
    /\ of = "jobs" /\ table[i].there /\ table[i].state = "suspended"
    /\ Changes(i, [table[i] EXCEPT !.queue = 3 - @])

DeleteJob(i) ==
    /\ of = "jobs" /\ table[i].there /\ table[i].state \in {"suspended", "succeeded", "failed", "cancelled"}
    /\ Changes(i, [table[i] EXCEPT !.state = "deleted", !.deleted = TRUE])

\* mark_all_in_queue_deleted
DeleteJobsOf(d) ==
    /\ of = "jobs"
    /\ Become([i \in ListIds |-> IF table[i].there /\ table[i].queue = d /\ ~table[i].deleted
                                 THEN [table[i] EXCEPT !.state = "deleted", !.deleted = TRUE] ELSE table[i]])

PurgeDeleted(i) ==
    /\ of \in {"jobs", "queues"} /\ table[i].there /\ table[i].deleted
    /\ Changes(i, [table[i] EXCEPT !.there = FALSE])

\* QueueRepository: insert, replace_mutable_fields, set_state, mark_deleted
InsertQueue(i) ==
    /\ of = "queues" /\ ~table[i].there
    /\ Changes(i, [there |-> TRUE, state |-> "active", deleted |-> FALSE, size |-> 1])

ReplaceMutableFields(i, size) ==
    /\ of = "queues" /\ table[i].there /\ table[i].state # "deleted"
    /\ Changes(i, [table[i] EXCEPT !.size = size])

SetQueueState(i) ==
    /\ of = "queues" /\ table[i].there /\ table[i].state # "deleted"
    /\ Changes(i, [table[i] EXCEPT !.state = IF @ = "active" THEN "suspended" ELSE "active"])

DeleteQueue(i) ==
    /\ of = "queues" /\ table[i].there /\ table[i].state = "suspended"
    /\ Changes(i, [table[i] EXCEPT !.state = "deleted", !.deleted = TRUE])

\* SecretRepository: a new name, or one that goes
SetOrErase(i) == of = "secrets" /\ Changes(i, [table[i] EXCEPT !.there = ~@])

\* A restart: cursors are gone; recovery ends, or retries, what was running.
RestartReads(retry) ==
    LET ended(r) == [r EXCEPT !.state = IF retry THEN "retry_wait" ELSE "interrupted",
                              !.completed = IF retry THEN Unstated ELSE listClock + 1, !.open = retry,
                              !.attempts[Len(r.attempts)] = Interrupted]
    IN  /\ OfRuns /\ ~accepting /\ Watching /\ Trouble
        /\ accepting' = TRUE /\ since' = MaxEntries
        /\ changes' = changes + 1
        /\ table' = [i \in ListIds |-> IF table[i].there /\ table[i].state = "running" THEN ended(table[i]) ELSE table[i]]
        /\ UNCHANGED <<of, entries, listClock, walk, otherLists, lost>>
        /\ StillListed

-----------------------------------------------------------------------------
(* Initially: a few rows in different states.                               *)

Failed(n) == [m \in 1 .. n |-> Captured("on_error", 1, FALSE, "failed")]
Started == attempt("running", TRUE, "none", NoEvidence, NoBlob)

RunRows ==
    <<NewRun(2, "scheduled"),
      [NewRun(2, "manual") EXCEPT !.state = "running", !.started = 1, !.open = FALSE, !.type = "http",
                                  !.attempts = Failed(2) \o <<Started>>],
      [NewRun(1, "scheduled") EXCEPT !.state = "failed", !.started = 1, !.completed = 1, !.open = FALSE,
                                     !.quality = "unmeasured", !.queue = 2, !.attempts = Failed(1)],
      [NewRun(1, "scheduled") EXCEPT !.there = FALSE]>>

JobRows ==
    LET job(state, once, size) == [there |-> TRUE, queue |-> 1, state |-> state, deleted |-> state = "deleted",
                                   once |-> once, size |-> size]
    IN  <<job("active", FALSE, 1), job("suspended", TRUE, Budget), job("deleted", FALSE, 1),
          [job("active", FALSE, 1) EXCEPT !.there = FALSE]>>

QueueRows ==
    LET queue(state) == [there |-> TRUE, state |-> state, deleted |-> state = "deleted", size |-> 1]
    IN  <<queue("suspended"), queue("active"), queue("deleted"), [queue("active") EXCEPT !.there = FALSE]>>

Rows(k) == CASE k = "jobs" -> JobRows [] k = "queues" -> QueueRows
             [] k = "secrets" -> [i \in ListIds |-> [there |-> i # 3]] [] OTHER -> RunRows

\* What the client asks for.
AllRuns == [limit |-> 1, queue |-> Unstated, states |-> {}, from |-> Unstated, to |-> Unstated, begun |-> Unstated]
Defs == [limit |-> 1, queue |-> Unstated, states |-> {}, deleted |-> FALSE]

Asks ==
    CASE of = "runs" -> {AllRuns, [AllRuns EXCEPT !.limit = 3], [AllRuns EXCEPT !.queue = 1, !.states = {"scheduled", "running"}],
                         [AllRuns EXCEPT !.from = 1, !.to = 3, !.begun = 1]}
      [] of = "attempts" -> {[limit |-> 1, run |-> 2]}
      [] of = "groups" -> {[limit |-> 1, by |-> b, queue |-> d, from |-> ResolvedWindow(f, Unstated)[1], to |-> ResolvedWindow(f, Unstated)[2]] :
                             b \in {"type", "origin", "state", "queue", "none"}, d \in {Unstated}, f \in {Unstated, 2}}
                              \cup {[limit |-> 1, by |-> "state", queue |-> 1, from |-> 1, to |-> 3]}
      [] of = "jobs" -> {Defs, [Defs EXCEPT !.limit = 3, !.queue = 1, !.deleted = TRUE],
                         [Defs EXCEPT !.states = {"active", "suspended"}]}
      [] of = "queues" -> {Defs, [Defs EXCEPT !.limit = 3, !.deleted = TRUE], [Defs EXCEPT !.states = {"active"}]}
      [] of = "secrets" -> {[limit |-> 1], [limit |-> 2]}
      [] OTHER -> {[limit |-> n, run |-> 2, number |-> 3] : n \in 1 .. 2} \cup {[limit |-> 1, run |-> 1, number |-> 1]}

Completions ==
    IF of = "output"
    THEN {Captured(mode, total, gone, outcome) : mode \in {"none", "on_error", "always"},
             total \in {0, Retained, Retained + 1}, gone \in BOOLEAN, outcome \in {"succeeded", "failed"}}
    ELSE {Captured("always", 1, FALSE, outcome) : outcome \in {"succeeded", "failed", "cancelled"}}

Idle == [at |-> "idle", q |-> [limit |-> 0], token |-> Unstated, after |-> NoKey, got |-> <<>>, minted |-> 0,
         last |-> 0, expires |-> Lifetime, offset |-> 0, bytes |-> <<>>, chunk |-> NoChunk]

ListInit ==
    /\ of \in {"runs", "attempts", "groups", "jobs", "queues", "secrets", "output"}
    /\ table = Rows(of)
    /\ entries = <<>> /\ listClock = 0 /\ accepting = TRUE
    /\ walk = Idle
    /\ stable = {} /\ since = 0 /\ changes = 0 /\ otherLists = 0 /\ lost = 0

ListNext ==
    \/ \E q \in Asks : List(q) \/ ReadSlice(q)
    \/ \E delivered \in BOOLEAN : ContinueCursor(delivered)
    \/ ContinueAfter
    \/ OthersList \/ ListTick \/ StopReads
    \/ \E retry \in BOOLEAN : RestartReads(retry)
    \/ \E i \in ListIds :
          \/ \E planned \in 1 .. 2 : RefreshRun(i, planned) \/ \E origin \in {"scheduled", "manual"} : InsertRun(i, planned, origin)
          \/ DispatchListed(i) \/ CancelWaiting(i) \/ MoveRun(i) \/ PurgeRun(i)
          \/ \E done \in Completions, retry \in BOOLEAN : CompleteListed(i, done, retry)
          \/ \E once \in BOOLEAN : InsertJob(i, once) \/ \E size \in {1, Budget + 1} : UpdateDefinition(i, once, size)
          \/ \E next \in {"active", "suspended", "succeeded", "failed", "cancelled"} : SetJobState(i, next)
          \/ MoveJob(i) \/ DeleteJob(i) \/ PurgeDeleted(i)
          \/ InsertQueue(i) \/ SetQueueState(i) \/ DeleteQueue(i)
          \/ \E size \in {1, Budget + 1} : ReplaceMutableFields(i, size)
          \/ SetOrErase(i)
    \/ \E d \in 1 .. 2 : DeleteJobsOf(d)

ListSpec == ListInit /\ [][ListNext]_listVars

-----------------------------------------------------------------------------
(* Properties.                                                             *)

\* Whatever matches from the first page on is returned, once and in order.
PagesAreComplete ==
    /\ \A m, n \in DOMAIN walk.got : m < n => Less(walk.got[m].key, walk.got[n].key)
    /\ walk.at \in {"page", "done"} =>
          \A x \in Listed(walk.q) :
             x.id \in stable /\ (walk.at = "done" \/ ~Less(walk.after, x.key)) => \E n \in DOMAIN walk.got : walk.got[n] = x

\* A continuation stays what it was issued for, works for its lifetime, and fails early only when crowded out.
CursorsKeepTheirWord ==
    /\ Len(entries) <= MaxEntries
    /\ \A n \in DOMAIN entries : entries[n].token = walk.token =>
          entries[n].q = walk.q /\ entries[n].after = walk.after /\ entries[n].expires = walk.expires
    /\ walk.got # <<>> /\ HasCursor => walk.last < walk.expires
    /\ walk.at = "invalid_cursor" => listClock >= walk.expires \/ since >= MaxEntries

\* Groups share out the runs of the window; inside one, each way of counting gives the same total.
CountsAddUp ==
    of = "groups" /\ walk.at = "page" =>
       LET parts == {x.id : x \in list_groups(walk.q)}
           sum(f) == MapThenSumSet(LAMBDA s : f[s], DOMAIN f)
           each(c) == /\ sum(c.runs.byState) = c.runs.total /\ c.runs.cli + c.runs.http = c.runs.total
                      /\ c.runs.byScheduler + c.runs.manual = c.runs.total /\ sum(c.wait) = c.runs.total
                      /\ c.attempts.pending + c.attempts.running + c.attempts.completed = c.attempts.total
                      /\ sum(c.attempts.byOutcome) = c.attempts.completed
       IN  /\ MapThenSumSet(LAMBDA k : aggregate(walk.q, k).runs.total, parts) = Cardinality(InWindow(walk.q))
           /\ \A k \in parts : each(aggregate(walk.q, k))
           /\ MapThenSumSet(LAMBDA k : aggregate(walk.q, k).attempts.total - aggregate(walk.q, k).attempts.retries, parts)
                = Cardinality({i \in InWindow(walk.q) : table[i].attempts # <<>>})

\* The slices of one read make up the bytes that were kept, and what was lost or left out is said to be.
SlicesAreWhole ==
    of = "output" /\ walk.at = "done" =>
       LET c == walk.chunk IN
       /\ c.status # "pending" => walk.bytes = [n \in 1 .. c.retained |-> n]
       /\ c.status = "pending" => walk.bytes = <<>>
       /\ c.status = "available" => ~c.lost /\ c.known /\ c.total = c.retained + c.omitted /\ (c.truncated <=> c.omitted > 0)
       /\ c.status = "lost" <=> c.lost

\* A client that follows continuations while the store changes sees every entry that stays, once and in order; its
\* cursor is its own and fails only when expired, crowded out or stopped; counts add up and output is whole.
\* No row the writers leave behind is refused by the readers.
ReadsAreTrue ==
    /\ PagesAreComplete
    /\ CursorsKeepTheirWord
    /\ CountsAddUp
    /\ SlicesAreWhole
    /\ walk.at # "invariant" /\ walk.at # "invalid_request"
    /\ walk.at = "too_large" => \E i \in There : table[i].size > Budget
    /\ walk.at = "stopping" => ~accepting
=============================================================================
