----------------------------- MODULE WireCodecs -----------------------------
(***************************************************************************)
(* The messages of the control protocol, usually written in one process    *)
(* and read in another, possibly of another version.  A codec joins the    *)
(* tables of WireTables with what its functions require of the whole       *)
(* message; control_client_methods, the register_*_methods and deliver_one *)
(* say which of them each side applies to each method.                     *)
(***************************************************************************)
EXTENDS WireTables

VARIABLES
    method,     \* the call being made, or "none" for a stored or nested document
    minor,      \* the peer's API minor version
    leg,        \* "idle", "request", "result", "stored"
    sender, receiver, \* the codecs that write and read this message
    value,      \* the sender's value: member -> program value
    edits,      \* the members that differ from the plain message
    tamper,     \* how the text was altered between the two
    wire,       \* the object in transit: member -> JSON value
    got,        \* what the receiver decoded
    stage,      \* "composed", "sent", "accepted", "done"
    report,     \* what the caller is told
    unknown,    \* ControlFailure::outcome_unknown
    applied     \* the service has committed a change

wireVars == <<method, minor, leg, sender, receiver, value, edits, tamper, wire, got, stage,
              report, unknown, applied>>

-----------------------------------------------------------------------------
(* What a message must satisfy besides its members.                        *)

Set(v, m) == v[m][1] = "val"
Unset == <<"unset">>
Null == <<"null">>
Exactly1(v, a, b) == Set(v, a) # Set(v, b)

valid_page(v, next) == Set(v, next) => v.items[2] # <<>> /\ v[next][2] = v.items[2][Len(v.items[2])]
CursorPage(v) == Set(v, "next_cursor") => v.items[2] # <<>>
StatisticsPage(v) ==
    /\ Set(v, "next_cursor") => v.groups[2] # <<>>
    /\ v.group_by[2] = "none" => Len(v.groups[2]) = 1 /\ ~Set(v, "next_cursor")
has_queue_update(v) == \E m \in DOMAIN v \ {"queue_id", "queue_name", "expected_revision"} : v[m] # Unset
has_job_update(v) ==
    \/ \E m \in {"name", "schedule", "priority", "payload"} : v[m] # Unset
    \/ v.attributes[2] # "{}"
TerminalJob(v) ==
    v.state[2] \in {"succeeded", "failed", "cancelled"} => v.schedule[2] = "once" /\ ~Set(v, "deleted_at")
valid_query(v) == ~(Set(v, "state") /\ Set(v, "states"))
valid_range(v) == Set(v, "from") /\ Set(v, "to") => Before(v.from[2], v.to[2])
ScheduleMembers(v, zoned) ==
    IF v.kind[2] = "once" THEN Set(v, "at") /\ ~Set(v, "expression") /\ ~Set(v, "timezone")
    ELSE Set(v, "expression") /\ ~Set(v, "at") /\ (zoned => Set(v, "timezone"))
Duration(v) == \A m \in {"average", "maximum"} : Set(v, m) <=> v.samples[2] # 0

valid_chunk(v) ==
    LET bytes == v.data[2][2]
        retained == v.retained_bytes[2]
        end == v.offset[2] + v.bytes_returned[2]
    IN  /\ v.bytes_returned[2] = Len(bytes) /\ Len(bytes) <= SliceMax
        /\ v.offset[2] <= retained /\ v.bytes_returned[2] <= retained - v.offset[2]
        /\ Set(v, "total_bytes") <=> Set(v, "omitted_bytes")
        /\ Set(v, "total_bytes") => /\ v.total_bytes[2] >= retained
                                    /\ v.omitted_bytes[2] = v.total_bytes[2] - retained
        /\ v.next_offset = IF end < retained THEN <<"val", end>> ELSE Unset
        /\ v.status[2] = "lost" <=> v.capture_lost[2]
        /\ v.status[2] \in {"pending", "not_captured"} => bytes = <<>> /\ retained = 0
        /\ v.data[2][1] = "utf8" => is_valid_utf8(bytes)

\* Counters are subtracted from what is left, so no sum can overflow into agreement.
Drains(total, counts) ==
    LET Left[i \in 0..Len(counts)] ==
            IF i = 0 THEN total
            ELSE IF Left[i - 1] < counts[i] THEN -1 ELSE Left[i - 1] - counts[i]
    IN  Left[Len(counts)] = 0
valid_wait_coverage(v) ==
    LET runs == v.runs[2]
        cover == v.runnable_wait_coverage[2]
    IN  /\ Drains(runs[1], cover)
        /\ Drains(cover[4], <<runs[2], runs[3], runs[4]>>)
        /\ Set(v, "runnable_wait_ms") => v.runnable_wait_ms[2] = cover[1]

-----------------------------------------------------------------------------
(* The codecs.  strict: unknown members are refused.  shapes: the          *)
(* alternatives of a variant, as the members they set.  together: members  *)
(* that a guard relates and that may differ from the plain message at once.*)

Codec(w, r, strict, shapes, together) ==
    [write |-> w, read |-> r, strict |-> strict, shapes |-> shapes, together |-> together]
Plain == {<<>>}
Request(w, r) == Codec(w, r, TRUE, Plain, {})
Reply(w, r) == Codec(w, r, FALSE, Plain, {})
Selector == {[queue_id |-> "u1"], [queue_name |-> "x"]}
Selecting(w, r) == Codec(w, r, TRUE, Selector, {})
ScheduleShapes == {[kind |-> "once", at |-> "t1"], [kind |-> "cron", expression |-> "x", timezone |-> "x"]}
InputShapes == ScheduleShapes \cup {[kind |-> "cron", expression |-> "x"]}
Cursor == {[cursor |-> "x"]}
Pages == {"items", "next_after_id", "next_after_name", "next_cursor", "groups", "group_by"}

ManagementCodecs == [
    queue |-> Reply(queue_to_json, queue_from_json),
    queue_page |-> Codec(queue_page_to_json, queue_page_from_json, FALSE, Plain, Pages),
    queue_selector |-> Selecting(queue_selector_to_json, queue_selector_from_json),
    queue_get_request |-> Selecting(queue_get_request_to_json, queue_get_request_from_json),
    create_queue_request |-> Request(create_queue_request_to_json, create_queue_request_from_json),
    queue_list_request |-> Request(queue_list_request_to_json, queue_list_request_from_json),
    update_queue_request |-> Codec(update_queue_request_to_json, update_queue_request_from_json, TRUE,
        Selector \cup {[queue_id |-> "u1", name |-> "x"]}, {}),
    job |-> Codec(job_to_json, job_from_json, FALSE, Plain, {"state", "schedule", "deleted_at"}),
    job_page |-> Codec(job_page_to_json, job_page_from_json, FALSE, Plain, Pages),
    job_id |-> Request(job_id_to_json, job_id_from_json),
    create_job_request |-> Selecting(create_job_request_to_json, create_job_request_from_json),
    job_list_request |-> Codec(job_list_request_to_json, job_list_request_from_json, TRUE, Selector \cup Plain, {}),
    update_job_request |-> Request(update_job_request_to_json, update_job_request_from_json),
    move_job_request |-> Codec(move_job_request_to_json, move_job_request_from_json, TRUE,
        {[target_queue_id |-> "u1"], [target_queue_name |-> "x"]}, {}),
    delete_job_request |-> Request(delete_job_request_to_json, delete_job_request_from_json)]

ReadingCodecs == [
    run_list_request |-> Codec(run_list_request_to_json, run_list_request_from_json, TRUE,
        Cursor \cup {[limit |-> 1], [limit |-> 1, states |-> <<"failed">>]}, {}),
    attempt_list_request |-> Codec(attempt_list_request_to_json, attempt_list_request_from_json, TRUE,
        Cursor \cup {[limit |-> 1, run_id |-> "u1"]}, {}),
    run_details |-> Reply(run_details_to_json, run_details_from_json),
    run_page |-> Codec(run_page_to_json, run_page_from_json, FALSE, Plain, Pages),
    run_get_request |-> Request(run_get_request_to_json, run_get_request_from_json),
    attempt_details |-> Reply(attempt_details_to_json, attempt_details_from_json),
    attempt_page |-> Codec(attempt_page_to_json, attempt_page_from_json, FALSE, Plain, Pages),
    attempt_get_request |-> Request(attempt_get_request_to_json, attempt_get_request_from_json),
    attempt_output_request |-> Request(attempt_output_request_to_json, attempt_output_request_from_json),
    attempt_output_chunk |-> Codec(attempt_output_chunk_to_json, attempt_output_chunk_from_json, FALSE,
        Plain \cup {[data |-> <<"utf8", <<65>>>>, bytes_returned |-> 1, retained_bytes |-> 2, next_offset |-> 1]},
        {"status", "offset", "bytes_returned", "next_offset", "retained_bytes", "total_bytes", "omitted_bytes",
         "capture_lost", "data"}),
    system_statistics_request |-> Codec(system_statistics_request_to_json, system_statistics_request_from_json,
        TRUE, Cursor \cup {[group_by |-> "none", limit |-> 1, planned |-> "{}"]}, {}),
    queue_statistics_request |-> Codec(queue_statistics_request_to_json, queue_statistics_request_from_json,
        TRUE, Cursor \cup {s @@ [group_by |-> "none", limit |-> 1, planned |-> "{}"] : s \in Selector}, {}),
    statistics_page |-> Codec(statistics_page_to_json, statistics_page_from_json, FALSE, Plain, Pages)]

ControlCodecs == [
    run_now_request |-> Request(run_now_request_to_json, run_now_request_from_json),
    cancel_run_request |-> Request(cancel_run_request_to_json, cancel_run_request_from_json),
    cancel_run_result |-> Reply(cancel_run_result_to_json, cancel_run_result_from_json),
    schedule_validate_request |-> Request(schedule_validate_request_to_json, schedule_validate_request_from_json),
    schedule_validate_result |-> Reply(schedule_validate_result_to_json, schedule_validate_result_from_json),
    schedule_next_request |-> Request(schedule_next_request_to_json, schedule_next_request_from_json),
    schedule_next_result |-> Reply(schedule_next_result_to_json, schedule_next_result_from_json),
    set_secret_request |-> Request(set_secret_request_to_json, set_secret_request_from_json),
    secret_list_request |-> Request(secret_list_request_to_json, secret_list_request_from_json),
    secret_delete_request |-> Request(secret_delete_request_to_json, secret_delete_request_from_json),
    secret_metadata |-> Reply(secret_metadata_to_json, secret_metadata_from_json),
    secret_page |-> Codec(secret_page_to_json, secret_page_from_json, FALSE, Plain, Pages),
    system_info |-> Reply(system_info_to_json, system_info_from_json),
    no_params |-> Reply(<<>>, <<>>),     \* ignored by the handler
    empty |-> Request(<<>>, <<>>)]          \* EmptyReply: null and nothing else

\* Documents inside others, and the daemon's idempotency records.
Nested == [
    schedule |-> Codec(schedule_to_json, schedule_from_json, FALSE, ScheduleShapes, {}),
    schedule_input |-> Codec(schedule_input_to_json, schedule_input_from_json, TRUE, InputShapes, {}),
    creation_schedule |-> Codec(creation_schedule_to_json, creation_schedule_from_json, TRUE, InputShapes, {}),
    cron_schedule_input |-> Request(cron_schedule_input_to_json, cron_schedule_input_from_json),
    range |-> Codec(append_range, decode_range, TRUE, Plain, {"from", "to"}),
    planned |-> Codec(encode_planned, decode_planned, TRUE, Plain, {"from", "to"}),
    window |-> Codec(encode_window, decode_window, FALSE, Plain, {"from", "to"}),
    measurement |-> Reply(encode_measurement, decode_measurement),
    run_counts |-> Reply(encode_run_counts, decode_run_counts),
    attempt_counts |-> Reply(encode_attempt_counts, decode_attempt_counts),
    duration |-> Codec(encode_duration, decode_duration, FALSE, Plain, {"samples", "average", "maximum"}),
    group |-> Codec(encode_group, decode_group, FALSE, Plain,
                    {"runs", "runnable_wait_ms", "runnable_wait_coverage"})]
Documents == [
    queue_create_record |-> Request(encode_queue_create_idempotency_request, validate_queue_create_idempotency_request),
    queue_record |-> Request(encode_queue_idempotency_result, decode_queue_idempotency_result),
    job_create_record |-> Request(encode_job_create_idempotency_request, decode_job_create_idempotency_scope),
    job_record |-> Request(encode_job_idempotency_result, decode_job_idempotency_result),
    run_now_record |-> Request(encode_run_now_idempotency_request, decode_run_now_idempotency_scope),
    run_record |-> Request(encode_run_now_idempotency_result, decode_run_now_idempotency_result)]
Codecs == ManagementCodecs @@ ReadingCodecs @@ ControlCodecs @@ Nested @@ Documents

Guard(c, v) ==
    CASE c \in {"queue_page", "job_page"} -> valid_page(v, "next_after_id")
      [] c = "secret_page" -> valid_page(v, "next_after_name")
      [] c \in {"run_page", "attempt_page"} -> CursorPage(v)
      [] c = "statistics_page" -> StatisticsPage(v)
      [] c \in {"queue_selector", "queue_get_request", "create_job_request"} -> Exactly1(v, "queue_id", "queue_name")
      [] c = "update_queue_request" -> Exactly1(v, "queue_id", "queue_name") /\ has_queue_update(v)
      [] c = "job_list_request" -> ~(Set(v, "queue_id") /\ Set(v, "queue_name"))
      [] c = "queue_statistics_request" -> Set(v, "cursor") \/ Exactly1(v, "queue_id", "queue_name")
      [] c = "move_job_request" -> Exactly1(v, "target_queue_id", "target_queue_name")
      [] c = "update_job_request" -> has_job_update(v)
      [] c = "job" -> TerminalJob(v)
      [] c = "run_list_request" -> valid_query(v)
      [] c = "attempt_output_chunk" -> valid_chunk(v)
      [] c \in {"range", "planned", "window"} -> valid_range(v)
      [] c = "schedule" -> ScheduleMembers(v, TRUE)
      [] c \in {"schedule_input", "creation_schedule"} -> ScheduleMembers(v, FALSE)
      [] c = "duration" -> Duration(v)
      [] c = "group" -> valid_wait_coverage(v)
      [] c \in {"queue_record", "job_record"} -> v.created_at = v.updated_at
      [] c = "run_record" -> v.planned_at = v.runnable_at
      [] OTHER -> TRUE

-----------------------------------------------------------------------------
(* Writing and reading by table.                                           *)

Members(c) == DOMAIN Codecs[c].write

\* A cursor selects the other alternative of a list request: nothing else may accompany it.
Alternative(table, present) ==
    IF "cursor" \notin DOMAIN table THEN table
    ELSE IF present THEN [cursor |-> table.cursor]
    ELSE [m \in DOMAIN table \ {"cursor"} |-> table[m]]

\* The number a JSON parser hands back is unsigned unless it is negative.
ToJson(t, x) ==
    CASE t.json = "int" -> IF x >= 0 THEN <<"uint", x>> ELSE <<"int", x>>
      [] t.json = "secret" -> <<"base64", encode_base64(x)>>
      [] t.json = "data" -> IF x[1] = "utf8" THEN x ELSE <<"base64", encode_base64(x[2])>>
      [] OTHER -> <<t.json, x>>

Fits(t, j) ==
    CASE t.json \in {"uint", "int"} -> j[1] \in {"uint", "int"} /\ j[2] \in t.allow
      [] t.json = "secret" -> \/ j[1] = "utf8" /\ is_valid_utf8(j[2]) /\ Len(j[2]) <= SecretMax
                              \/ j[1] = "base64" /\ DecodedSize(j[2]) <= SecretMax /\ Base64Accepts(j[2])
      [] t.json = "data" -> j[1] = "utf8" \/ (j[1] = "base64" /\ Base64Accepts(j[2]))
      [] OTHER -> j[1] = t.json /\ j[2] \in t.allow

FromJson(t, j) ==
    CASE t.json = "secret" -> IF j[1] = "utf8" THEN j[2] ELSE decode_base64(j[2])
      [] t.json = "data" -> IF j[1] = "utf8" THEN j ELSE <<"base64", decode_base64(j[2])>>
      [] OTHER -> j[2]

Permits(t, x) == IF t.json = "secret" THEN Len(x) <= SecretMax ELSE x \in t.allow

Encodes(c, v) ==
    LET t == Alternative(Codecs[c].write, "cursor" \in DOMAIN v /\ Set(v, "cursor"))
    IN  /\ \A m \in DOMAIN t : Set(v, m) => Permits(t[m].t, v[m][2])
        /\ Guard(c, v)

Written(e, x) ==
    CASE x = Unset -> e.form = "ornull"
      [] x = Null -> TRUE
      [] OTHER -> e.form # "nonempty" \/ x[2] # "{}"

Encode(c, v) ==
    LET t == Codecs[c].write
    IN  [m \in {n \in DOMAIN t : Written(t[n], v[n])} |->
            IF Set(v, m) THEN ToJson(t[m].t, v[m][2]) ELSE Null]

Absent(e) ==
    CASE e.form = "default" -> e.d
      [] OTHER -> Unset

MayBeAbsent == {"optional", "optnull", "change", "default"}
MayBeNull == {"nullable", "optnull", "change"}

Accepts(e, w, m) ==
    IF m \notin DOMAIN w THEN e.form \in MayBeAbsent
    ELSE IF w[m] = Null THEN e.form \in MayBeNull
    ELSE Fits(e.t, w[m])

Reading(c, w) == Alternative(Codecs[c].read, "cursor" \in DOMAIN w)

ReadMember(e, w, m) ==
    CASE m \notin DOMAIN w -> Absent(e)
      [] m \in DOMAIN w /\ w[m] = Null -> IF e.form = "change" THEN Null ELSE Unset
      [] OTHER -> <<"val", FromJson(e.t, w[m])>>

Decoded(c, w) ==
    LET t == Reading(c, w)
    IN  [m \in DOMAIN Codecs[c].read |-> 
            IF m \in DOMAIN t THEN ReadMember(t[m], w, m) ELSE Unset]

Decodes(c, w) ==
    LET t == Reading(c, w)
    IN  /\ Codecs[c].strict => DOMAIN w \subseteq DOMAIN t
        /\ \A m \in DOMAIN t : Accepts(t[m], w, m)
        /\ Guard(c, Decoded(c, w))

-----------------------------------------------------------------------------
(* Which functions each side applies to a method.                          *)

QueueAndJobCalls == [
    system_info |-> "no_params", system_stats |-> "system_statistics_request",
    queue_create |-> "create_queue_request", queue_get |-> "queue_get_request",
    queue_list |-> "queue_list_request", queue_update |-> "update_queue_request",
    queue_suspend |-> "queue_selector", queue_resume |-> "queue_selector", queue_delete |-> "queue_selector",
    queue_stats |-> "queue_statistics_request", job_create |-> "create_job_request", job_get |-> "job_id",
    job_list |-> "job_list_request", job_update |-> "update_job_request", job_suspend |-> "job_id",
    job_resume |-> "job_id", job_move |-> "move_job_request", job_delete |-> "delete_job_request"]
RunAndSecretCalls == [
    job_run_now |-> "run_now_request", run_get |-> "run_get_request", run_list |-> "run_list_request",
    run_cancel |-> "cancel_run_request", attempt_get |-> "attempt_get_request",
    attempt_list |-> "attempt_list_request", attempt_output |-> "attempt_output_request",
    secret_set |-> "set_secret_request", secret_list |-> "secret_list_request",
    secret_delete |-> "secret_delete_request", schedule_validate |-> "schedule_validate_request",
    schedule_next |-> "schedule_next_request"]
control_client_methods == QueueAndJobCalls @@ RunAndSecretCalls

\* deliver_one decodes the reply of the selected method only.
deliver_one == [
    system_info |-> "system_info", system_stats |-> "statistics_page", queue_stats |-> "statistics_page",
    queue_create |-> "queue", queue_get |-> "queue", queue_update |-> "queue", queue_suspend |-> "queue",
    queue_resume |-> "queue", queue_list |-> "queue_page", job_create |-> "job", job_get |-> "job",
    job_update |-> "job", job_suspend |-> "job", job_resume |-> "job", job_move |-> "job",
    job_list |-> "job_page", job_run_now |-> "run_details", run_get |-> "run_details", run_list |-> "run_page",
    run_cancel |-> "cancel_run_result", attempt_get |-> "attempt_details", attempt_list |-> "attempt_page",
    attempt_output |-> "attempt_output_chunk", secret_set |-> "secret_metadata", secret_list |-> "secret_page",
    schedule_validate |-> "schedule_validate_result", schedule_next |-> "schedule_next_result",
    queue_delete |-> "empty", job_delete |-> "empty", secret_delete |-> "empty"]

\* Mutant: a later method is not added to the switch.
is_mutation_without_secrets == {"queue_create", "queue_update", "queue_suspend", "queue_resume", "queue_delete",
    "job_create", "job_update", "job_suspend", "job_resume", "job_move", "job_delete", "job_run_now", "run_cancel"}
is_mutation == {"queue_create", "queue_update", "queue_suspend", "queue_resume", "queue_delete", "job_create",
    "job_update", "job_suspend", "job_resume", "job_move", "job_delete", "job_run_now", "run_cancel",
    "secret_set", "secret_delete"}

\* What the daemon registers: the reader of the parameters, the writer of the result, and whether
\* the service it calls commits a change.
Serves(request, result, mutates) == [request |-> request, result |-> result, mutates |-> mutates]
register_queue_methods == [
    queue_create |-> Serves("create_queue_request", "queue", TRUE),
    queue_get |-> Serves("queue_get_request", "queue", FALSE),
    queue_list |-> Serves("queue_list_request", "queue_page", FALSE),
    queue_update |-> Serves("update_queue_request", "queue", TRUE),
    queue_suspend |-> Serves("queue_selector", "queue", TRUE),
    queue_resume |-> Serves("queue_selector", "queue", TRUE),
    queue_delete |-> Serves("queue_selector", "empty", TRUE)]
register_job_methods == [
    job_create |-> Serves("create_job_request", "job", TRUE),
    job_get |-> Serves("job_id", "job", FALSE),
    job_list |-> Serves("job_list_request", "job_page", FALSE),
    job_update |-> Serves("update_job_request", "job", TRUE),
    job_suspend |-> Serves("job_id", "job", TRUE),
    job_resume |-> Serves("job_id", "job", TRUE),
    job_move |-> Serves("move_job_request", "job", TRUE),
    job_delete |-> Serves("delete_job_request", "empty", TRUE)]
register_control_methods == [
    job_run_now |-> Serves("run_now_request", "run_details", TRUE),
    run_cancel |-> Serves("cancel_run_request", "cancel_run_result", TRUE),
    schedule_validate |-> Serves("schedule_validate_request", "schedule_validate_result", FALSE),
    schedule_next |-> Serves("schedule_next_request", "schedule_next_result", FALSE)]
register_history_methods == [
    run_get |-> Serves("run_get_request", "run_details", FALSE),
    run_list |-> Serves("run_list_request", "run_page", FALSE),
    attempt_get |-> Serves("attempt_get_request", "attempt_details", FALSE),
    attempt_list |-> Serves("attempt_list_request", "attempt_page", FALSE),
    attempt_output |-> Serves("attempt_output_request", "attempt_output_chunk", FALSE)]
register_secret_methods == [
    secret_set |-> Serves("set_secret_request", "secret_metadata", TRUE),
    secret_list |-> Serves("secret_list_request", "secret_page", FALSE),
    secret_delete |-> Serves("secret_delete_request", "empty", TRUE)]
register_statistics_methods == [
    system_stats |-> Serves("system_statistics_request", "statistics_page", FALSE),
    queue_stats |-> Serves("queue_statistics_request", "statistics_page", FALSE)]
register_system_info_method == [system_info |-> Serves("no_params", "system_info", FALSE)]
Server == register_queue_methods @@ register_job_methods @@ register_control_methods @@ register_history_methods @@
          register_secret_methods @@ register_statistics_methods @@ register_system_info_method
Methods == DOMAIN control_client_methods

\* start_encoded_call: what an older daemon could not answer is refused before it is sent.
\* Mutant: replies are not gated by version.
SupportedRequests(m, n, v) == n < 5 /\ m = "run_list" => v.states = Unset
Supported(m, n, v) ==
    /\ n < 6 => m \notin {"queue_create", "queue_get", "queue_list", "queue_update", "queue_suspend", "queue_resume"}
    /\ n < 5 /\ m = "run_list" => v.states = Unset

\* Before 1.6 a queue had no revision; before 1.5 a run list had no state set.
OlderResult(c, n, w) ==
    IF n >= 6 THEN w
    ELSE IF c = "queue" THEN [m \in DOMAIN w \ {"revision"} |-> w[m]]
    ELSE IF c = "queue_page" THEN [w EXCEPT !.items = <<"old", 0>>]
    ELSE w
OlderReads(c, n, w) == Decodes(c, w) /\ (n < 5 => "states" \notin DOMAIN w)

-----------------------------------------------------------------------------
(* Messages in motion.                                                     *)

PlainMember(e) == IF e.form \in {"always", "nonempty"} THEN <<"val", e.t.base>> ELSE Unset
PlainValue(c, shape) ==
    [m \in Members(c) |->
        IF m \in DOMAIN shape THEN <<"val", shape[m]>>
        ELSE IF "cursor" \in DOMAIN shape THEN Unset
        ELSE PlainMember(Codecs[c].write[m])]

Compose(s, r, shape) ==
    /\ sender' = s /\ receiver' = r
    /\ value' = PlainValue(s, shape)
    /\ edits' = {} /\ tamper' = <<"none">> /\ wire' = <<>> /\ got' = <<>>
    /\ stage' = "composed"

Call(m) ==
    /\ leg = "idle"
    /\ \E n \in {4, 5, 6} : minor' = n
    /\ \E shape \in Codecs[control_client_methods[m]].shapes :
            Compose(control_client_methods[m], Server[m].request, shape)
    /\ method' = m /\ leg' = "request"
    /\ UNCHANGED <<report, unknown, applied>>

\* A nested document, or an idempotency record written in the transaction of its operation.
Store(c) ==
    /\ leg = "idle"
    /\ \E shape \in Codecs[c].shapes : Compose(c, c, shape)
    /\ leg' = "stored"
    /\ UNCHANGED <<method, minor, report, unknown, applied>>

\* Members that choose a variant's alternative stay as the shape has them.
VariantMembers(c) == UNION {DOMAIN s : s \in Codecs[c].shapes}
Values(c, m) ==
    LET e == Codecs[c].write[m]
        set == {<<"val", x>> : x \in e.t.tries}
    IN  IF m \in VariantMembers(c) THEN IF e.form = "always" \/ ~Set(value, m) THEN {} ELSE set
        ELSE IF "cursor" \in DOMAIN value /\ Set(value, "cursor") THEN {}
        ELSE set \cup (IF e.form \in {"ifset", "ornull", "change"} THEN {Unset} ELSE {})
                 \cup (IF e.form = "change" THEN {Null} ELSE {})

EditMember ==
    /\ stage = "composed" /\ minor = 6
    /\ \E m \in Members(sender) :
        /\ edits = {} \/ (m \notin edits /\ (edits \cup {m}) \subseteq Codecs[sender].together /\ Cardinality(edits) < 2)
        /\ \E x \in Values(sender, m) \ {value[m]} : value' = [value EXCEPT ![m] = x]
        /\ edits' = edits \cup {m}
    /\ UNCHANGED <<method, minor, leg, sender, receiver, tamper, wire, got, stage, report, unknown, applied>>

Finish(what, uncertain) ==
    /\ stage' = "done" /\ report' = what /\ unknown' = uncertain

\* The writer's half: an encoder that refuses ends the call on the client, or turns a served
\* result into an internal error.
Send ==
    /\ stage = "composed"
    /\ \/ /\ Encodes(sender, value)
          /\ leg = "request" => Supported(method, minor, value)
          /\ wire' = IF leg = "result" THEN OlderResult(sender, minor, Encode(sender, value))
                     ELSE Encode(sender, value)
          /\ stage' = "sent"
          /\ UNCHANGED <<report, unknown>>
       \/ /\ ~Encodes(sender, value)
          /\ Finish(IF leg = "result" THEN "internal_error" ELSE "refused", FALSE)
          /\ UNCHANGED wire
       \/ /\ leg = "request" /\ Encodes(sender, value) /\ ~Supported(method, minor, value)
          /\ Finish("unsupported", FALSE)
          /\ UNCHANGED wire
    /\ UNCHANGED <<method, minor, leg, sender, receiver, value, edits, tamper, got, applied>>

\* The result does not fit success_result_max_bytes.
TooLarge ==
    /\ stage = "composed" /\ leg = "result" /\ Encodes(sender, value)
    /\ Finish("too_large", FALSE)
    /\ UNCHANGED <<method, minor, leg, sender, receiver, value, edits, tamper, wire, got, applied>>

Others(w, m) == [n \in DOMAIN w \ {m} |-> w[n]]
Respellings == {<<"utf8", s>> : s \in {<<>>, <<65>>, <<255>>}}
               \cup {<<"base64", s>> : s \in [1..4 -> Symbols]}

\* The text another program, or a damaged store, puts in place of the encoder's.
Alter ==
    /\ stage = "sent" /\ edits = {} /\ tamper = <<"none">> /\ minor = 6
    /\ \/ tamper' = <<"add">> /\ wire' = wire @@ [unknown_member |-> <<"uint", 0>>]
       \/ \E m \in DOMAIN wire :
            \/ tamper' = <<"drop", m>> /\ wire' = Others(wire, m)
            \/ tamper' = <<"null", m>> /\ wire[m] # Null /\ wire' = [wire EXCEPT ![m] = Null]
            \/ tamper' = <<"retype", m>> /\ wire' = [wire EXCEPT ![m] = <<"other", 0>>]
            \/ /\ receiver \in DOMAIN Documents
               /\ tamper' = <<"swap", m>>
               /\ LET t == Codecs[receiver].read[m].t
                  IN  \E x \in t.tries : wire' = [wire EXCEPT ![m] = ToJson(t, x)]
            \/ /\ receiver = "set_secret_request" /\ m = "value"
               /\ tamper' = <<"swap", m>>
               /\ \E j \in Respellings : wire' = [wire EXCEPT ![m] = j]
    /\ UNCHANGED <<method, minor, leg, sender, receiver, value, edits, got, stage, report, unknown, applied>>

\* The reader's half: handle_value and handle_void answer invalid_params, deliver_one reports a
\* reply it cannot read as a local failure.
Receive ==
    /\ stage = "sent"
    /\ \/ /\ IF leg = "request" THEN OlderReads(receiver, minor, wire) ELSE Decodes(receiver, wire)
          /\ got' = Decoded(receiver, wire)
          /\ IF leg = "result" THEN Finish("reply", FALSE)
             ELSE stage' = "accepted" /\ UNCHANGED <<report, unknown>>
       \/ /\ ~(IF leg = "request" THEN OlderReads(receiver, minor, wire) ELSE Decodes(receiver, wire))
          /\ IF leg = "result" THEN Finish("invalid_response", method \in is_mutation)
             ELSE Finish("invalid_params", FALSE)
          /\ UNCHANGED got
    /\ UNCHANGED <<method, minor, leg, sender, receiver, value, edits, tamper, wire, applied>>

\* The handler invokes the service; only plain requests are followed up.
Serve ==
    /\ stage = "accepted" /\ leg = "request" /\ edits = {} /\ tamper = <<"none">>
    /\ \/ /\ \E shape \in Codecs[Server[method].result].shapes :
                Compose(Server[method].result, deliver_one[method], shape)
          /\ leg' = "result" /\ applied' = Server[method].mutates
          /\ UNCHANGED <<report, unknown>>
       \/ /\ Finish("application_error", FALSE)
          /\ UNCHANGED <<leg, sender, receiver, value, edits, tamper, wire, got, applied>>
    /\ UNCHANGED <<method, minor>>

NextMessage ==
    /\ stage \in {"done", "accepted"}
    /\ method' = "none" /\ minor' = 6 /\ leg' = "idle" /\ sender' = "empty" /\ receiver' = "empty" /\ value' = <<>>
    /\ edits' = {} /\ tamper' = <<"none">> /\ wire' = <<>> /\ got' = <<>> /\ stage' = "idle" /\ report' = "none"
    /\ unknown' = FALSE /\ applied' = FALSE

WireInit ==
    /\ method = "none" /\ minor = 6 /\ leg = "idle" /\ sender = "empty" /\ receiver = "empty" /\ value = <<>>
    /\ edits = {} /\ tamper = <<"none">> /\ wire = <<>> /\ got = <<>> /\ stage = "idle" /\ report = "none"
    /\ unknown = FALSE /\ applied = FALSE

WireNext ==
    \/ \E m \in Methods : Call(m)
    \/ \E c \in DOMAIN Nested \cup DOMAIN Documents : Store(c)
    \/ EditMember \/ Send \/ TooLarge \/ Alter \/ Receive \/ Serve \/ NextMessage

-----------------------------------------------------------------------------
(* Properties                                                              *)

\* The nil queue id is the one value queue.stats can write and its reader refuses.
NilSelector == receiver = "queue_statistics_request" /\ value.queue_id = <<"val", "nil">>

\* What one side writes the other reads back as the same value.  A request or a record with a
\* member its reader does not know is refused and a result with one is read as without it; a
\* result that lacks a member is refused; no member of the wrong type is taken or ignored; and
\* whatever is accepted from an altered text is a value its own writer could have sent, for a
\* record and a secret in base64 with exactly that text.  (The paired *_to_json and *_from_json.)
WireAgrees ==
    /\ stage # "idle" /\ got # <<>> =>
        CASE tamper[1] = "none" -> got = value
          [] tamper[1] = "add" -> ~Codecs[receiver].strict /\ got = value
          [] tamper[1] = "retype" -> FALSE
          [] tamper[1] = "swap" -> /\ Encodes(receiver, got)
                                   /\ wire[tamper[2]][1] # "utf8" => Encode(receiver, got) = wire
          [] OTHER -> /\ tamper[1] = "drop" => Codecs[receiver].strict
                      /\ Encodes(receiver, got)
                      /\ tamper[2] # "cursor" => \A n \in DOMAIN got \ {tamper[2]} : got[n] = value[n]
    /\ report \in {"invalid_params", "invalid_response"} => tamper # <<"none">> \/ NilSelector

\* A change the daemon has committed is never reported as certainly failed, unless the daemon
\* itself could not express the result; a call that only reads is never reported uncertain; and a
\* call whose reply or parameters this pair of versions cannot understand is refused before it is
\* sent.  (handle_value, start_encoded_call, deliver_one and is_mutation.)
OutcomeIsTruthful ==
    /\ applied /\ stage = "done" /\ report # "reply" => unknown \/ report \in {"too_large", "internal_error"}
    /\ unknown => Server[method].mutates
    /\ minor < 6 => report \notin {"invalid_params", "invalid_response", "internal_error"}
=============================================================================
