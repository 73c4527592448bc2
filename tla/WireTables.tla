----------------------------- MODULE WireTables -----------------------------
(***************************************************************************)
(* The members of the messages of the control protocol.  A message is an   *)
(* object written by one *_to_json function and read by a *_from_json      *)
(* function; the daemon's idempotency records are written and read back by *)
(* a third set.  Each of these functions is a table here: for a writer,    *)
(* what each member is written from and when it is left out; for a reader, *)
(* what the member must be and what its absence or null means.             *)
(*                                                                         *)
(* A member's value in the program is <<"unset">>, <<"null">> (an update   *)
(* that clears it) or <<"val", x>>.  A nested document is an object named  *)
(* by its content, and its codec is an entry of its own.  "far" is a time  *)
(* point that no timestamp can express.                                    *)
(***************************************************************************)
EXTENDS Integers, Sequences, FiniteSets, TLC

CONSTANTS
    I32Max, U32Max, I64Max, U64Max,   \* the integer widths, scaled down
    PageMax,                          \* maximum_page_size and the 200 of cursor pages
    SliceMax,                         \* maximum_slice_bytes
    SecretMax,                        \* kMaximumSecretValueBytes
    Bytes,                            \* byte values; 255 is not UTF-8
    Symbols                           \* base64 digits of altered texts; 64 is the padding

ASSUME WidthsAssumption ==
    /\ 0 < PageMax /\ PageMax < I32Max /\ I32Max < U32Max
    /\ U32Max < I64Max /\ I64Max < U64Max
    /\ Bytes \subseteq 0..255 /\ Symbols \subseteq 0..64

-----------------------------------------------------------------------------
(* Types: how a member is written (json), program values of its C++ type   *)
(* (tries), the ones the function lets through (allow), a plain one (base).*)

Type(json, tries, allow, base) == [json |-> json, tries |-> tries, allow |-> allow, base |-> base]
Num(json, tries, lo, hi, base) == Type(json, tries, lo..hi, base)

AnyU64 == Num("uint", {0, 1, I64Max + 1}, 0, U64Max, 1)
AnyU32 == Num("uint", {0, 1, U32Max}, 0, U32Max, 1)
PosU32 == Num("uint", {0, 1, U32Max}, 1, U32Max, 1)
AnySize == Num("uint", {0, 1, PageMax + 1}, 0, U64Max, 1)
Limit == Num("uint", {0, 1, PageMax, PageMax + 1}, 1, PageMax, 1)
Slice == Num("uint", {0, 1, SliceMax, SliceMax + 1}, 1, SliceMax, 1)
Offset == Num("uint", {0, I64Max - 1, I64Max}, 0, I64Max - 1, 0)
AttemptNo == Num("uint", {0, 1, I64Max, I64Max + 1}, 1, I64Max, 1)
QueueRev == Num("uint", {0, 1, I64Max, I64Max + 1}, 1, I64Max, 1)
JobRev == Num("uint", {0, 1, I64Max + 1}, 1, U64Max, 1)
AnyI64 == Num("int", {-1, 0, I64Max}, -I64Max - 1, I64Max, 0)
NatI64 == Num("int", {-1, 0, I64Max}, 0, I64Max, 0)
AnyI32 == Num("int", {-I32Max - 1, 0, I32Max}, -I32Max - 1, I32Max, 0)
Count(hi) == Num("uint", 0..hi, 0, U64Max, 0)
Flag == Type("bool", BOOLEAN, BOOLEAN, FALSE)
Constant(kind, c) == Type(kind, {c}, {c}, c)

Str(tries, allow, base) == Type("str", tries, allow, base)
AnyId == Str({"nil", "u1"}, {"nil", "u1"}, "u1")
RealId == Str({"nil", "u1"}, {"u1"}, "u1")
AnyText == Str({"", "x"}, {"", "x"}, "x")
FullText == Str({"", "x"}, {"x"}, "x")
Name == Constant("str", "x")          \* a name the service has validated
Time == Str({"t1", "t2", "far"}, {"t1", "t2"}, "t1")
Later == Str({"t1", "t2", "far"}, {"t1", "t2"}, "t2")
Before(a, b) == a = "t1" /\ b = "t2"
Enum(values, base) == Str(values, values, base)

Obj(tries, allow, base) == Type("obj", tries, allow, base)
Payload == Obj({"{}", "[]"}, {"{}"}, "{}")                   \* payload.is_object()
Attributes == Obj({"{}", "a", "bad"}, {"{}", "a"}, "{}")     \* "bad": refused by the attribute codec
Schedule == Obj({"once", "cron", "once-far"}, {"once", "cron"}, "once")
ScheduleInput == Obj({"once", "cron", "cron-local"}, {"once", "cron", "cron-local"}, "once")
CreationSchedule == Obj({"now", "once", "cron-local"}, {"now", "once", "cron-local"}, "now")
CronInput == Obj({"cron", "cron-local"}, {"cron", "cron-local"}, "cron")
TimeRange == Obj({"{}", "from", "both", "reversed"}, {"{}", "from", "both"}, "{}")

queue_state_text == Enum({"active", "suspending", "suspended", "deleted"}, "active")
queue_state_from_json == Enum({"active", "suspending", "suspended", "deleted"}, "active")
recovery_policy_text == Enum({"fail_interrupted", "retry_interrupted"}, "fail_interrupted")
recovery_policy_from_json == Enum({"fail_interrupted", "retry_interrupted"}, "fail_interrupted")
job_state_text == Enum({"active", "suspending", "suspended", "deleted",
                        "succeeded", "failed", "cancelled"}, "active")
job_state_from_json == Enum({"active", "suspending", "suspended", "deleted",
                             "succeeded", "failed", "cancelled"}, "active")
job_type_text == Enum({"cli", "http"}, "cli")
job_type_from_json == Enum({"cli", "http"}, "cli")
wire_text_type == Enum({"cli", "http"}, "cli")
parse_type == Enum({"cli", "http"}, "cli")
wire_text_origin == Str({"scheduled", "manual", "submitted"}, {"scheduled", "manual"}, "manual")
parse_origin == Enum({"scheduled", "manual"}, "manual")
wire_text_run_state == Enum({"scheduled", "running", "retry_wait", "succeeded", "failed",
                             "interrupted", "cancelled"}, "scheduled")
parse_run_state == Enum({"scheduled", "running", "retry_wait", "succeeded", "failed",
                         "interrupted", "cancelled"}, "scheduled")
wire_text_attempt_state == Enum({"pending", "running", "completed"}, "pending")
parse_attempt_state == Enum({"pending", "running", "completed"}, "pending")
wire_text_outcome == Enum({"succeeded", "failed", "interrupted", "cancelled"}, "failed")
parse_outcome == Enum({"succeeded", "failed", "interrupted", "cancelled"}, "failed")
group_text == Enum({"none", "queue", "job", "type", "origin", "state"}, "none")
parse_group == Enum({"none", "queue", "job", "type", "origin", "state"}, "none")
channel_text == Enum({"stdout", "stderr", "body", "headers"}, "stdout")
parse_channel == Enum({"stdout", "stderr", "body", "headers"}, "stdout")
status_text == Enum({"available", "pending", "not_captured", "lost"}, "available")
parse_status == Enum({"available", "pending", "not_captured", "lost"}, "available")

\* valid_run_state_selection and decode_run_states: a nonempty set without repetition.
StateSets == Type("arr", {<<>>, <<"failed">>, <<"failed", "running">>, <<"failed", "failed">>},
                  {<<"failed">>, <<"failed", "running">>}, <<"failed">>)
Items == Type("arr", {<<>>, <<1>>, <<1, 2>>, <<2, 1>>, <<1, 1>>, [i \in 1..PageMax + 1 |-> i]},
              {<<>>, <<1>>, <<1, 2>>}, <<1>>)
CursorItems == Type("arr", {<<>>, <<1>>, <<2, 1>>, [i \in 1..PageMax + 1 |-> i]}, {<<>>, <<1>>, <<2, 1>>}, <<1>>)
ItemId == Str({1, 2}, {1, 2}, 1)
Instants == Type("arr", {<<>>, <<1>>, <<1, 2>>, <<2, 1>>, <<1, 1>>, [i \in 1..PageMax + 1 |-> i]},
                 {<<1>>, <<1, 2>>}, <<1>>)

Always(t) == [form |-> "always", t |-> t]
IfSet(t) == [form |-> "ifset", t |-> t]
OrNull(t) == [form |-> "ornull", t |-> t]
Change(t) == [form |-> "change", t |-> t]       \* on both sides: absent, null or a value
NonEmpty(t) == [form |-> "nonempty", t |-> t]
Required(t) == [form |-> "required", t |-> t]
Nullable(t) == [form |-> "nullable", t |-> t]
Optional(t) == [form |-> "optional", t |-> t]
OptNull(t) == [form |-> "optnull", t |-> t]
Default(t, d) == [form |-> "default", t |-> t, d |-> <<"val", d>>]

-----------------------------------------------------------------------------
(* management_json.cpp                                                     *)

queue_to_json == [id |-> Always(AnyId), revision |-> Always(QueueRev), name |-> Always(AnyText),
    state |-> Always(queue_state_text), weight |-> Always(PosU32), concurrency_limit |-> Always(PosU32),
    recovery_policy |-> Always(recovery_policy_text), defaults |-> Always(Attributes),
    history_retention_seconds |-> OrNull(NatI64), runnable_wait_warning_ms |-> Always(NatI64),
    created_at |-> Always(Time), updated_at |-> Always(Time), deleted_at |-> OrNull(Time)]
queue_from_json == [id |-> Required(AnyId), revision |-> Required(QueueRev), name |-> Required(AnyText),
    state |-> Required(queue_state_from_json), weight |-> Required(PosU32), concurrency_limit |-> Required(PosU32),
    recovery_policy |-> Required(recovery_policy_from_json), defaults |-> Required(Attributes),
    history_retention_seconds |-> Nullable(NatI64), runnable_wait_warning_ms |-> Required(NatI64),
    created_at |-> Required(Time), updated_at |-> Required(Time), deleted_at |-> Nullable(Time)]

queue_page_to_json == [items |-> Always(Items), next_after_id |-> OrNull(ItemId)]
queue_page_from_json == [items |-> Required(Items), next_after_id |-> Nullable(ItemId)]

add_selector_members == [queue_id |-> IfSet(AnyId), queue_name |-> IfSet(AnyText)]
decode_selector == [queue_id |-> Optional(AnyId), queue_name |-> Optional(AnyText)]
queue_selector_to_json == add_selector_members
queue_selector_from_json == decode_selector
queue_get_request_to_json == add_selector_members @@ [include_deleted |-> Always(Flag)]
queue_get_request_from_json == decode_selector @@ [include_deleted |-> Default(Flag, FALSE)]

create_queue_request_to_json == [name |-> Always(AnyText), weight |-> Always(AnyU32),
    concurrency_limit |-> Always(AnyU32), recovery_policy |-> Always(recovery_policy_text),
    defaults |-> Always(Attributes), history_retention_seconds |-> OrNull(AnyI64),
    runnable_wait_warning_ms |-> Always(AnyI64), idempotency_key |-> IfSet(AnyText)]
create_queue_request_from_json == [name |-> Required(AnyText), weight |-> Default(AnyU32, 1),
    concurrency_limit |-> Default(AnyU32, 1),
    recovery_policy |-> Default(recovery_policy_from_json, "fail_interrupted"),
    defaults |-> Default(Attributes, "{}"), history_retention_seconds |-> OptNull(AnyI64),
    runnable_wait_warning_ms |-> Default(AnyI64, 2), idempotency_key |-> Optional(AnyText)]

queue_list_request_to_json == [include_deleted |-> Always(Flag), limit |-> Always(Limit),
    state |-> IfSet(queue_state_text), after_id |-> IfSet(AnyId)]
queue_list_request_from_json == [include_deleted |-> Default(Flag, FALSE), limit |-> Default(Limit, 1),
    state |-> Optional(queue_state_from_json), after_id |-> Optional(AnyId)]

update_queue_request_to_json == add_selector_members @@ [expected_revision |-> Always(QueueRev),
    name |-> IfSet(AnyText), weight |-> IfSet(AnyU32), concurrency_limit |-> IfSet(AnyU32),
    recovery_policy |-> IfSet(recovery_policy_text), defaults |-> IfSet(Attributes),
    history_retention_seconds |-> Change(AnyI64), runnable_wait_warning_ms |-> IfSet(AnyI64)]
\* Mutant: the retention can be set and not cleared.
UpdateQueueNeverClearing == decode_selector @@ [expected_revision |-> Required(QueueRev),
    name |-> Optional(AnyText), weight |-> Optional(AnyU32), concurrency_limit |-> Optional(AnyU32),
    recovery_policy |-> Optional(recovery_policy_from_json), defaults |-> Optional(Attributes),
    history_retention_seconds |-> Optional(AnyI64), runnable_wait_warning_ms |-> Optional(AnyI64)]
update_queue_request_from_json == decode_selector @@ [expected_revision |-> Required(QueueRev),
    name |-> Optional(AnyText), weight |-> Optional(AnyU32), concurrency_limit |-> Optional(AnyU32),
    recovery_policy |-> Optional(recovery_policy_from_json), defaults |-> Optional(Attributes),
    history_retention_seconds |-> Change(AnyI64), runnable_wait_warning_ms |-> Optional(AnyI64)]

job_to_json == [id |-> Always(AnyId), queue_id |-> Always(AnyId), revision |-> Always(JobRev),
    name |-> OrNull(AnyText), state |-> Always(job_state_text), type |-> Always(job_type_text),
    schedule |-> Always(Schedule), priority |-> Always(AnyI32), attributes |-> Always(Attributes),
    payload |-> Always(Payload), created_at |-> Always(Time), updated_at |-> Always(Time),
    deleted_at |-> OrNull(Time)]
job_from_json == [id |-> Required(AnyId), queue_id |-> Required(AnyId), revision |-> Required(JobRev),
    name |-> Nullable(AnyText), state |-> Required(job_state_from_json), type |-> Required(job_type_from_json),
    schedule |-> Required(Schedule), priority |-> Required(AnyI32), attributes |-> Required(Attributes),
    payload |-> Required(Payload), created_at |-> Required(Time), updated_at |-> Required(Time),
    deleted_at |-> Nullable(Time)]
job_page_to_json == [items |-> Always(Items), next_after_id |-> OrNull(ItemId)]
job_page_from_json == [items |-> Required(Items), next_after_id |-> Nullable(ItemId)]

job_id_to_json == [job_id |-> Always(AnyId)]
job_id_from_json == [job_id |-> Required(AnyId)]

create_job_request_to_json == add_selector_members @@ [schedule |-> Always(CreationSchedule),
    payload |-> Always(Payload), type |-> Always(job_type_text), priority |-> Always(AnyI32),
    attributes |-> Always(Attributes), name |-> IfSet(AnyText), idempotency_key |-> IfSet(AnyText)]
create_job_request_from_json == decode_selector @@ [schedule |-> Required(CreationSchedule),
    payload |-> Required(Payload), type |-> Default(job_type_from_json, "cli"),
    priority |-> Default(AnyI32, 0), attributes |-> Default(Attributes, "{}"),
    name |-> Optional(AnyText), idempotency_key |-> Optional(AnyText)]

job_list_request_to_json == add_selector_members @@ [include_deleted |-> Always(Flag),
    limit |-> Always(Limit), state |-> IfSet(job_state_text), type |-> IfSet(job_type_text),
    after_id |-> IfSet(AnyId)]
job_list_request_from_json == decode_selector @@ [include_deleted |-> Default(Flag, FALSE),
    limit |-> Default(Limit, 1), state |-> Optional(job_state_from_json),
    type |-> Optional(job_type_from_json), after_id |-> Optional(AnyId)]

update_job_request_to_json == [job_id |-> Always(AnyId), expected_revision |-> Always(AnyU64),
    name |-> Change(AnyText), schedule |-> IfSet(ScheduleInput), priority |-> IfSet(AnyI32),
    attributes |-> NonEmpty(Attributes), payload |-> IfSet(Payload)]
update_job_request_from_json == [job_id |-> Required(AnyId), expected_revision |-> Required(AnyU64),
    name |-> Change(AnyText), schedule |-> Optional(ScheduleInput), priority |-> Optional(AnyI32),
    attributes |-> Default(Attributes, "{}"), payload |-> Optional(Payload)]

move_job_request_to_json == [job_id |-> Always(AnyId), expected_revision |-> Always(AnyU64),
    target_queue_id |-> IfSet(AnyId), target_queue_name |-> IfSet(AnyText)]
move_job_request_from_json == [job_id |-> Required(AnyId), expected_revision |-> Required(AnyU64),
    target_queue_id |-> Optional(AnyId), target_queue_name |-> Optional(AnyText)]
delete_job_request_to_json == [job_id |-> Always(AnyId), expected_revision |-> Always(AnyU64)]
delete_job_request_from_json == [job_id |-> Required(AnyId), expected_revision |-> Required(AnyU64)]

\* The schedule documents: kind selects the other members.
schedule_to_json == [kind |-> Always(Enum({"once", "cron"}, "once")), at |-> IfSet(Time),
    expression |-> IfSet(AnyText), timezone |-> IfSet(FullText)]
schedule_from_json == [kind |-> Required(Enum({"once", "cron"}, "once")), at |-> Optional(Time),
    expression |-> Optional(AnyText), timezone |-> Optional(FullText)]
schedule_input_to_json == schedule_to_json
schedule_input_from_json == schedule_from_json
NowOrTime == Str({"now", "t1", "far"}, {"now", "t1"}, "now")
creation_schedule_to_json == [schedule_to_json EXCEPT !.at = IfSet(NowOrTime)]
creation_schedule_from_json == [schedule_from_json EXCEPT !.at = Optional(NowOrTime)]
cron_schedule_input_to_json == [kind |-> Always(Constant("str", "cron")), expression |-> Always(AnyText),
    timezone |-> IfSet(FullText)]
cron_schedule_input_from_json == [kind |-> Required(Constant("str", "cron")),
    expression |-> Required(AnyText), timezone |-> Optional(FullText)]

(* history_json.cpp, history_page_json.cpp, history_output_json.cpp        *)

CursorText == [cursor |-> IfSet(AnyText)]
CursorOnly == [cursor |-> Optional(AnyText)]

run_list_request_to_json == CursorText @@ [limit |-> IfSet(Limit), queue_id |-> IfSet(AnyId),
    job_id |-> IfSet(AnyId), state |-> IfSet(wire_text_run_state), states |-> IfSet(StateSets),
    origin |-> IfSet(wire_text_origin), type |-> IfSet(wire_text_type), planned |-> NonEmpty(TimeRange),
    started |-> NonEmpty(TimeRange), completed |-> NonEmpty(TimeRange)]
run_list_request_from_json == CursorOnly @@ [limit |-> Default(Limit, 1), queue_id |-> Optional(AnyId),
    job_id |-> Optional(AnyId), state |-> Optional(parse_run_state), states |-> Optional(StateSets),
    origin |-> Optional(parse_origin), type |-> Optional(parse_type), planned |-> Default(TimeRange, "{}"),
    started |-> Default(TimeRange, "{}"), completed |-> Default(TimeRange, "{}")]
append_range == [from |-> IfSet(Time), to |-> IfSet(Later)]
decode_range == [from |-> Optional(Time), to |-> Optional(Later)]

attempt_list_request_to_json == CursorText @@ [run_id |-> IfSet(AnyId), limit |-> IfSet(Limit)]
attempt_list_request_from_json == CursorOnly @@ [run_id |-> Required(AnyId), limit |-> Default(Limit, 1)]

run_summary_to_json == [id |-> Always(AnyId), job_id |-> Always(AnyId), queue_id |-> Always(AnyId),
    job_revision |-> Always(JobRev), origin |-> Always(wire_text_origin), type |-> Always(wire_text_type),
    state |-> Always(wire_text_run_state), schedule_owned |-> Always(Flag), priority |-> Always(AnyI32),
    planned_at |-> Always(Time), runnable_at |-> Always(Time), started_at |-> OrNull(Time),
    completed_at |-> OrNull(Time)]
run_summary_from_json == [id |-> Required(AnyId), job_id |-> Required(AnyId), queue_id |-> Required(AnyId),
    job_revision |-> Required(JobRev), origin |-> Required(parse_origin), type |-> Required(parse_type),
    state |-> Required(parse_run_state), schedule_owned |-> Required(Flag), priority |-> Required(AnyI32),
    planned_at |-> Required(Time), runnable_at |-> Required(Time), started_at |-> Nullable(Time),
    completed_at |-> Nullable(Time)]
run_details_to_json == run_summary_to_json @@ [attributes |-> Always(Attributes),
    payload |-> Always(Payload), result |-> OrNull(Payload)]
run_details_from_json == run_summary_from_json @@ [attributes |-> Required(Attributes),
    payload |-> Required(Payload), result |-> Nullable(Payload)]
run_page_to_json == [items |-> Always(CursorItems), next_cursor |-> OrNull(FullText)]
run_page_from_json == [items |-> Required(CursorItems), next_cursor |-> Nullable(FullText)]
run_get_request_to_json == [run_id |-> Always(RealId)]
run_get_request_from_json == [run_id |-> Required(RealId)]

attempt_summary_to_json == [run_id |-> Always(AnyId), attempt_number |-> Always(AttemptNo),
    due_at |-> Always(Time), started_at |-> OrNull(Time), completed_at |-> OrNull(Time),
    state |-> Always(wire_text_attempt_state), outcome |-> OrNull(wire_text_outcome)]
attempt_summary_from_json == [run_id |-> Required(AnyId), attempt_number |-> Required(AttemptNo),
    due_at |-> Required(Time), started_at |-> Nullable(Time), completed_at |-> Nullable(Time),
    state |-> Required(parse_attempt_state), outcome |-> Nullable(parse_outcome)]
attempt_details_to_json == attempt_summary_to_json @@ [result |-> OrNull(Payload)]
attempt_details_from_json == attempt_summary_from_json @@ [result |-> Nullable(Payload)]
attempt_page_to_json == [items |-> Always(CursorItems), next_cursor |-> OrNull(FullText)]
attempt_page_from_json == [items |-> Required(CursorItems), next_cursor |-> Nullable(FullText)]
attempt_get_request_to_json == [run_id |-> Always(RealId), attempt_number |-> Always(AttemptNo)]
attempt_get_request_from_json == [run_id |-> Required(RealId), attempt_number |-> Required(AttemptNo)]

attempt_output_request_to_json == [run_id |-> Always(AnyId), attempt_number |-> Always(AttemptNo),
    channel |-> Always(channel_text), offset |-> Always(Offset), limit |-> Always(Slice)]
attempt_output_request_from_json == [run_id |-> Required(AnyId), attempt_number |-> Required(AttemptNo),
    channel |-> Required(parse_channel), offset |-> Default(Offset, 0), limit |-> Default(Slice, 1)]
\* data carries its encoding: the sender chooses it, the text depends on it.
Data == Type("data", {<<"utf8", <<>>>>, <<"utf8", <<65>>>>, <<"utf8", <<255>>>>, <<"base64", <<255>>>>},
             {<<e, d>> : e \in {"utf8", "base64"}, d \in {<<>>, <<65>>, <<255>>}}, <<"utf8", <<>>>>)
attempt_output_chunk_to_json == [run_id |-> Always(AnyId), attempt_number |-> Always(AttemptNo),
    channel |-> Always(channel_text), status |-> Always(status_text), offset |-> Always(Count(1)),
    bytes_returned |-> Always(Count(1)), next_offset |-> OrNull(Count(1)), retained_bytes |-> Always(Count(2)),
    total_bytes |-> OrNull(Count(2)), omitted_bytes |-> OrNull(Count(1)), truncated |-> Always(Flag),
    capture_lost |-> Always(Flag), data |-> Always(Data)]
attempt_output_chunk_from_json == [run_id |-> Required(AnyId), attempt_number |-> Required(AttemptNo),
    channel |-> Required(parse_channel), status |-> Required(parse_status), offset |-> Required(Count(1)),
    bytes_returned |-> Required(Count(1)), next_offset |-> Nullable(Count(1)),
    retained_bytes |-> Required(Count(2)), total_bytes |-> Nullable(Count(2)),
    omitted_bytes |-> Nullable(Count(1)), truncated |-> Required(Flag), capture_lost |-> Required(Flag),
    data |-> Required(Data)]

(* control_json.cpp, secret_json.cpp, system_info.cpp                      *)

run_now_request_to_json == [job_id |-> Always(AnyId), idempotency_key |-> IfSet(AnyText)]
run_now_request_from_json == [job_id |-> Required(AnyId), idempotency_key |-> Optional(AnyText)]
cancel_run_request_to_json == [run_id |-> Always(AnyId)]
cancel_run_request_from_json == [run_id |-> Required(AnyId)]
RunView == Obj({"{}", "bad"}, {"{}"}, "{}")      \* a run_details document
cancel_run_result_to_json == [disposition |-> Always(Enum({"completed", "requested"}, "requested")),
    run |-> Always(RunView)]
cancel_run_result_from_json == [disposition |-> Required(Enum({"completed", "requested"}, "requested")),
    run |-> Required(RunView)]
schedule_validate_request_to_json == [schedule |-> Always(CronInput)]
schedule_validate_request_from_json == [schedule |-> Required(CronInput)]
schedule_validate_result_to_json == [valid |-> Always(Constant("bool", TRUE))]
schedule_validate_result_from_json == [valid |-> Required(Constant("bool", TRUE))]
schedule_next_request_to_json == [schedule |-> Always(CronInput), after |-> Always(Time), count |-> Always(AnySize)]
schedule_next_request_from_json == [schedule |-> Required(CronInput), after |-> Required(Time),
    count |-> Default(AnySize, 5)]
schedule_next_result_to_json == [occurrences |-> Always(Instants)]
schedule_next_result_from_json == [occurrences |-> Required(Instants)]

\* A secret travels in base64; the reader also takes UTF-8 text.
SecretBytes == UNION {[1..n -> Bytes] : n \in 0..SecretMax + 1}
SecretValue == Type("secret", SecretBytes, {}, <<>>)
set_secret_request_to_json == [name |-> Always(AnyText), value |-> Always(SecretValue)]
set_secret_request_from_json == [name |-> Required(AnyText), value |-> Required(SecretValue)]
secret_list_request_to_json == [limit |-> Always(AnySize), after_name |-> IfSet(AnyText)]
secret_list_request_from_json == [limit |-> Default(AnySize, 1), after_name |-> Optional(AnyText)]
secret_delete_request_to_json == [name |-> Always(AnyText)]
secret_delete_request_from_json == [name |-> Required(AnyText)]
secret_metadata_to_json == [name |-> Always(FullText), created_at |-> Always(Time), updated_at |-> Always(Time)]
secret_metadata_from_json == [name |-> Required(FullText), created_at |-> Required(Time),
    updated_at |-> Required(Time)]
secret_page_to_json == [items |-> Always(Items), next_after_name |-> OrNull(ItemId)]
secret_page_from_json == [items |-> Required(Items), next_after_name |-> Nullable(ItemId)]

\* canonical_capabilities sorts and removes duplicates on both sides.
Capabilities == Type("arr", {<<>>, <<"a">>, <<"a", "b">>}, {<<>>, <<"a">>, <<"a", "b">>}, <<>>)
system_info_to_json == [major |-> Always(AnyU32), minor |-> Always(AnyU32),
    capabilities |-> Always(Capabilities), daemon_version |-> Always(AnyText)]
system_info_from_json == [major |-> Required(AnyU32), minor |-> Required(AnyU32),
    capabilities |-> Required(Capabilities), daemon_version |-> Required(AnyText)]

(* statistics_request_json.cpp, statistics_result_json.cpp                 *)

encode_query == [group_by |-> IfSet(group_text), limit |-> IfSet(Limit), planned |-> IfSet(TimeRange),
    job_id |-> IfSet(RealId), type |-> IfSet(wire_text_type), origin |-> IfSet(wire_text_origin)]
decode_query == [group_by |-> Default(parse_group, "none"), limit |-> Default(Limit, 1),
    planned |-> Default(TimeRange, "{}"), job_id |-> Optional(RealId), type |-> Optional(parse_type),
    origin |-> Optional(parse_origin)]
encode_planned == [from |-> IfSet(Time), to |-> IfSet(Later)]
decode_planned == [from |-> Optional(Time), to |-> Optional(Later)]
cursor_request == [cursor |-> Optional(FullText)]
system_statistics_request_to_json == [cursor |-> IfSet(FullText), queue_id |-> IfSet(RealId)] @@ encode_query
system_statistics_request_from_json == cursor_request @@ [queue_id |-> Optional(RealId)] @@ decode_query
queue_statistics_request_to_json == [cursor |-> IfSet(FullText)] @@ queue_selector_to_json @@ encode_query
\* decode_query checks a queue_id that is the selector with its own, stricter decode_uuid.
queue_statistics_request_from_json ==
    cursor_request @@ [queue_selector_from_json EXCEPT !.queue_id = Optional(RealId)] @@ decode_query

encode_window == [from |-> Always(Time), to |-> Always(Later)]
decode_window == [from |-> Required(Time), to |-> Required(Later)]
encode_measurement == [timing |-> Always(AnyText), runnable_wait |-> Always(AnyText), capture |-> Always(AnyText)]
decode_measurement == [timing |-> Required(AnyText), runnable_wait |-> Required(AnyText),
    capture |-> Required(AnyText)]
encode_run_counts == [total |-> Always(AnyU64), states |-> Always(Payload), types |-> Always(Payload),
    origins |-> Always(Payload)]
decode_run_counts == [total |-> Required(AnyU64), states |-> Required(Payload), types |-> Required(Payload),
    origins |-> Required(Payload)]
encode_attempt_counts == [total |-> Always(AnyU64), states |-> Always(Payload), outcomes |-> Always(Payload),
    retries |-> Always(AnyU64)]
decode_attempt_counts == [total |-> Required(AnyU64), states |-> Required(Payload),
    outcomes |-> Required(Payload), retries |-> Required(AnyU64)]
Average == Type("double", {-1, 0, 1}, {0, 1}, 1)
encode_duration == [samples |-> Always(Count(1)), average |-> OrNull(Average), maximum |-> OrNull(Average)]
decode_duration == [samples |-> Required(Count(1)), average |-> Nullable(Average), maximum |-> Nullable(Average)]

\* A group on a page grouped by queue; runs is <<total, scheduled, running, retry_wait>> and the
\* coverage <<complete, partial, unmeasured, unfinished>>; a wait is its number of samples.
RunCounts == Type("obj", {<<0, 0, 0, 0>>, <<1, 0, 0, 0>>, <<1, 1, 0, 0>>, <<1, 0, 1, 0>>, <<2, 1, 0, 1>>},
                  (0..2) \X (0..1) \X (0..1) \X (0..1), <<0, 0, 0, 0>>)
Coverage == Type("obj", {<<0, 0, 0, 0>>, <<1, 0, 0, 0>>, <<0, 1, 0, 0>>, <<0, 0, 0, 1>>, <<1, 0, 0, 1>>, <<0, 0, 0, 2>>},
                 (0..1) \X (0..1) \X (0..1) \X (0..2), <<0, 0, 0, 0>>)
Wait == Type("obj", {0, 1}, {0, 1}, 0)
encode_group == [key |-> Always(RealId), runs |-> Always(RunCounts), attempts |-> Always(Payload),
    capture |-> Always(Payload), schedule_lateness_ms |-> Always(Payload),
    execution_wall_duration_ms |-> Always(Payload), runnable_wait_ms |-> OrNull(Wait),
    runnable_wait_coverage |-> Always(Coverage)]
decode_group == [key |-> Required(RealId), runs |-> Required(RunCounts), attempts |-> Required(Payload),
    capture |-> Required(Payload), schedule_lateness_ms |-> Required(Payload),
    execution_wall_duration_ms |-> Required(Payload), runnable_wait_ms |-> Nullable(Wait),
    runnable_wait_coverage |-> Required(Coverage)]
Window == Obj({"both", "from", "reversed"}, {"both"}, "both")
statistics_page_to_json == [window |-> Always(Window), group_by |-> Always(group_text),
    groups |-> Always(CursorItems), next_cursor |-> OrNull(FullText), measurement |-> Always(Payload)]
statistics_page_from_json == [window |-> Required(Window), group_by |-> Required(parse_group),
    groups |-> Required(CursorItems), next_cursor |-> Nullable(FullText), measurement |-> Required(Payload)]

(* idempotency_codec_priv.cpp: the writers get what a service has just     *)
(* validated and committed.                                                *)

Committed == Constant("str", "t1")
Nothing(kind) == Type(kind, {}, {}, "none")
FreshState == Constant("str", "active")
encode_queue_create_idempotency_request == [concurrency_limit |-> Always(PosU32), defaults |-> Always(Attributes),
    history_retention_seconds |-> OrNull(NatI64), name |-> Always(Name),
    recovery_policy |-> Always(recovery_policy_text), runnable_wait_warning_ms |-> Always(NatI64),
    weight |-> Always(PosU32)]
validate_queue_create_idempotency_request == [concurrency_limit |-> Required(PosU32),
    defaults |-> Required(Attributes), history_retention_seconds |-> Nullable(NatI64), name |-> Required(Name),
    recovery_policy |-> Required(recovery_policy_from_json), runnable_wait_warning_ms |-> Required(NatI64),
    weight |-> Required(PosU32)]
encode_queue_idempotency_result == encode_queue_create_idempotency_request @@ [created_at |-> Always(Committed),
    updated_at |-> Always(Committed), deleted_at |-> OrNull(Nothing("str")), id |-> Always(AnyId),
    revision |-> Always(Constant("uint", 1)), state |-> Always(FreshState)]
\* Mutant: a record of a later state of the queue is replayed.
DecodeAnyQueueState == validate_queue_create_idempotency_request @@ [created_at |-> Required(Time),
    updated_at |-> Required(Time), deleted_at |-> Nullable(Time), id |-> Required(AnyId),
    revision |-> Required(AnyU64), state |-> Required(queue_state_from_json)]
decode_queue_idempotency_result == validate_queue_create_idempotency_request @@ [created_at |-> Required(Time),
    updated_at |-> Required(Time), deleted_at |-> Nullable(Nothing("str")), id |-> Required(AnyId),
    revision |-> Required(Constant("uint", 1)), state |-> Required(FreshState)]
encode_job_create_idempotency_request == [attributes |-> Always(Attributes), name |-> OrNull(Name),
    payload |-> Always(Constant("obj", "{}")), priority |-> Always(AnyI32), queue_id |-> Always(AnyId),
    schedule |-> Always(CreationSchedule), type |-> Always(job_type_text)]
decode_job_create_idempotency_scope == [attributes |-> Required(Attributes), name |-> Nullable(Name),
    payload |-> Required(Payload), priority |-> Required(AnyI32), queue_id |-> Required(AnyId),
    schedule |-> Required(CreationSchedule), type |-> Required(job_type_from_json)]
Materialized == Constant("obj", "a")     \* require_materialized
encode_job_idempotency_result == [attributes |-> Always(Materialized), created_at |-> Always(Committed),
    deleted_at |-> OrNull(Nothing("str")), id |-> Always(AnyId), name |-> OrNull(Name),
    payload |-> Always(Constant("obj", "{}")), priority |-> Always(AnyI32), queue_id |-> Always(AnyId),
    revision |-> Always(Constant("uint", 1)), schedule |-> Always(Schedule), state |-> Always(FreshState),
    type |-> Always(job_type_text), updated_at |-> Always(Committed)]
decode_job_idempotency_result == [attributes |-> Required(Materialized), created_at |-> Required(Time),
    deleted_at |-> Nullable(Nothing("str")), id |-> Required(AnyId), name |-> Nullable(Name),
    payload |-> Required(Payload), priority |-> Required(AnyI32), queue_id |-> Required(AnyId),
    revision |-> Required(Constant("uint", 1)), schedule |-> Required(Schedule), state |-> Required(FreshState),
    type |-> Required(job_type_from_json), updated_at |-> Required(Time)]
encode_run_now_idempotency_request == [job_id |-> Always(AnyId)]
decode_run_now_idempotency_scope == [job_id |-> Required(AnyId)]
encode_run_now_idempotency_result == [attributes |-> Always(Materialized), completed_at |-> OrNull(Nothing("str")),
    id |-> Always(AnyId), job_id |-> Always(AnyId), job_revision |-> Always(QueueRev),
    origin |-> Always(Constant("str", "manual")), payload |-> Always(Payload), planned_at |-> Always(Time),
    priority |-> Always(AnyI32), queue_id |-> Always(AnyId), result |-> OrNull(Nothing("obj")),
    runnable_at |-> Always(Time), schedule_owned |-> Always(Constant("bool", FALSE)),
    started_at |-> OrNull(Nothing("str")), state |-> Always(Constant("str", "scheduled")),
    type |-> Always(job_type_text)]
decode_run_now_idempotency_result == [attributes |-> Required(Materialized),
    completed_at |-> Nullable(Nothing("str")), id |-> Required(AnyId), job_id |-> Required(AnyId),
    job_revision |-> Required(QueueRev), origin |-> Required(Constant("str", "manual")),
    payload |-> Required(Payload), planned_at |-> Required(Time), priority |-> Required(AnyI32),
    queue_id |-> Required(AnyId), result |-> Nullable(Nothing("obj")), runnable_at |-> Required(Time),
    schedule_owned |-> Required(Constant("bool", FALSE)), started_at |-> Nullable(Nothing("str")),
    state |-> Required(Constant("str", "scheduled")), type |-> Required(job_type_from_json)]

-----------------------------------------------------------------------------
(* Base64 with canonical padding.                                          *)

Pad == 64
encode_base64(s) ==
    LET B(j) == IF j <= Len(s) THEN s[j] ELSE 0
        Digit(q, k) ==
            CASE k = 0 -> B(3 * q + 1) \div 4
              [] k = 1 -> (B(3 * q + 1) % 4) * 16 + B(3 * q + 2) \div 16
              [] k = 2 -> IF 3 * q + 2 <= Len(s) THEN (B(3 * q + 2) % 16) * 4 + B(3 * q + 3) \div 64 ELSE Pad
              [] k = 3 -> IF 3 * q + 3 <= Len(s) THEN B(3 * q + 3) % 64 ELSE Pad
    IN  [i \in 1..4 * ((Len(s) + 2) \div 3) |-> Digit((i - 1) \div 4, (i - 1) % 4)]

\* Padding only in the last quantum, and the bits it leaves over are zero.
\* Mutant: left-over bits are dropped.
Base64AcceptsLoose(e) ==
    /\ Len(e) % 4 = 0
    /\ \A q \in 0..(Len(e) \div 4) - 1 :
        /\ e[4 * q + 1] # Pad /\ e[4 * q + 2] # Pad
        /\ e[4 * q + 3] = Pad => 4 * q + 4 = Len(e) /\ e[4 * q + 4] = Pad
Base64Accepts(e) ==
    /\ Len(e) % 4 = 0
    /\ \A q \in 0..(Len(e) \div 4) - 1 :
        LET d(k) == e[4 * q + k]
            final == 4 * q + 4 = Len(e)
        IN  /\ d(1) # Pad /\ d(2) # Pad
            /\ d(3) = Pad => final /\ d(4) = Pad /\ d(2) % 16 = 0
            /\ d(3) # Pad /\ d(4) = Pad => final /\ d(3) % 4 = 0
Padding(e) == Cardinality({i \in {Len(e), Len(e) - 1} \cap DOMAIN e : e[i] = Pad})
DecodedSize(e) == 3 * (Len(e) \div 4) - Padding(e)
decode_base64(e) ==
    LET d(q, k) == e[4 * q + k]
        Byte(q, k) ==
            CASE k = 0 -> d(q, 1) * 4 + d(q, 2) \div 16
              [] k = 1 -> (d(q, 2) % 16) * 16 + d(q, 3) \div 4
              [] k = 2 -> (d(q, 3) % 4) * 64 + d(q, 4)
    IN  [i \in 1..DecodedSize(e) |-> Byte((i - 1) \div 3, (i - 1) % 3)]
is_valid_utf8(s) == \A i \in DOMAIN s : s[i] # 255

=============================================================================
