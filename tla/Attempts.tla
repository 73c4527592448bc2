------------------------------- MODULE Attempts -------------------------------
(***************************************************************************)
(* What a finished transfer or process means for its run: the executors'   *)
(* verdict under the run's retry lists, the output they keep, the          *)
(* scheduler's validation of the completion and its retry decision.  The   *)
(* module follows one run through all of its attempts.                     *)
(***************************************************************************)
EXTENDS Integers, Sequences, SequencesExt, FiniteSetsExt

CONSTANTS
    Policies,           \* the snapshots a run may have: attributes and payload lists
    FractionOf,         \* stable_fraction of the run's attempts, in quarters
    Transfers,          \* what an HTTP transfer may end with
    Exits,              \* what a process may end with
    Chunks,             \* sizes of the pieces of output a process writes
    MaxWrites,          \* bound: pieces of the whole run
    MaxCounted,           \* the largest value of the byte counters: 2^64 - 1
    MaxCode, MaxStatus, \* exit codes are 0 .. 255, statuses 100 .. 599
    HintStatuses,       \* statuses whose Retry-After counts: 429 and 503
    SecondTicks,        \* ticks of the clock in a second
    MaxClock,           \* bound on the wall clock
    MaxTime             \* UtcTimePoint::max()

ASSUME AttemptsAssumption == SecondTicks \in Nat \ {0} /\ MaxClock <= MaxTime

VARIABLES
    policy,             \* the snapshot of the run
    attempt,            \* the run and its current attempt
    buffer,             \* the CliCaptureBuffer or CaptureBuffer of the output
    wall                \* the UTC clock, which may be set back

attemptsVars == <<policy, attempt, buffer, wall>>

-----------------------------------------------------------------------------
(* Lists of selectors: a single value or, if ranged, first to last.        *)

SelectorIsValid(s, lo, hi, strict) ==
    /\ {s.first, s.last} \subseteq lo .. hi
    /\ s.first <= s.last
    /\ s.ranged /\ strict => s.first < s.last

ByFirst(selectors) == SortSeq(selectors, LAMBDA a, b : a.first < b.first)

Pushed(ranges, s) == Append(ranges, [first |-> s.first, last |-> s.last])
Widened(ranges, to) == [ranges EXCEPT ![Len(ranges)].last = to]

\* decode_cli_retry_exit_codes: refuses what overlaps and joins what is adjacent.
NormalizedCodes(selectors) ==
    LET sorted == ByFirst(selectors)
        upTo[k \in 0 .. Len(sorted)] ==
            IF k = 0 THEN [valid |-> TRUE, ranges |-> << >>]
            ELSE LET before == upTo[k - 1]
                     s == sorted[k]
                 IN  IF before.ranges = << >> \/ ~before.valid
                         THEN [before EXCEPT !.ranges = Pushed(@, s)]
                     ELSE IF s.first <= Last(before.ranges).last THEN [before EXCEPT !.valid = FALSE]
                     ELSE IF s.first = Last(before.ranges).last + 1
                         THEN [before EXCEPT !.ranges = Widened(@, s.last)]
                     ELSE [before EXCEPT !.ranges = Pushed(@, s)]
    IN  upTo[Len(sorted)]

CodesAreValid(selectors) ==
    /\ \A k \in DOMAIN selectors : SelectorIsValid(selectors[k], 0, MaxCode, TRUE)
    /\ NormalizedCodes(selectors).valid

CodeSetContainsUpper(ranges, code) ==
    LET k == SelectInSeq(ranges, LAMBDA r : code < r.last)
    IN  k # 0 /\ ranges[k].first <= code

\* CliExitCodeSet::contains stops at the first range that does not end before the
\* code.
CodeSetContains(ranges, code) ==
    LET k == SelectInSeq(ranges, LAMBDA r : code <= r.last)
    IN  k # 0 /\ ranges[k].first <= code

\* decode_expected_statuses joins what overlaps or is adjacent.
NormalizedStatuses(selectors) ==
    LET sorted == ByFirst(selectors)
        upTo[k \in 0 .. Len(sorted)] ==
            IF k = 0 THEN << >>
            ELSE LET before == upTo[k - 1]
                     s == sorted[k]
                 IN  IF before = << >> \/ s.first > Last(before).last + 1 THEN Pushed(before, s)
                     ELSE Widened(before, IF s.last > Last(before).last THEN s.last ELSE Last(before).last)
    IN  upTo[Len(sorted)]

StatusSetContains(ranges, status) ==
    \E k \in DOMAIN ranges : status \in ranges[k].first .. ranges[k].last

StatusesAreValid(selectors) ==
    \A k \in DOMAIN selectors : SelectorIsValid(selectors[k], 1, MaxStatus, FALSE)

\* decode_status_ranges refuses a selector that is written twice.
RetryStatusesAreValid(selectors) == StatusesAreValid(selectors) /\ IsInjective(selectors)

Configurable == {"connect", "timeout", "receive"}

RetryErrorsAreValid(errors) == IsInjective(errors) /\ Range(errors) \subseteq Configurable

-----------------------------------------------------------------------------
(* The retry policy of the snapshot.                                       *)

\* retry_policy_from_attributes and validate_policy.
DelaysAreValid(p) ==
    /\ p.max >= 1 /\ p.strategy \in {"fixed", "exponential"}
    /\ 0 <= p.initial /\ p.initial <= p.maxDelay
    /\ p.multiplier >= 1 /\ p.jitter \in 0 .. 4

SnapshotIsValid(p) ==
    /\ DelaysAreValid(p)
    /\ p.type = "http" => /\ RetryStatusesAreValid(p.retry) /\ RetryErrorsAreValid(p.errors)
                          /\ p.expected # << >> /\ StatusesAreValid(p.expected)
    /\ p.type = "cli" => /\ CodesAreValid(p.retry)
                         /\ IsInjective(p.expected) /\ Range(p.expected) \subseteq 0 .. MaxCode

CappedProduct(value, numerator, denominator, limit) ==
    IF value = 0 \/ numerator <= 0 \/ limit = 0 THEN 0
    ELSE IF numerator * value >= limit * denominator THEN limit
    ELSE (value * numerator) \div denominator

RetryDelayUncapped(p, next) ==
    p.initial * (IF p.strategy = "exponential" THEN p.multiplier^(next - 2) ELSE 1)

\* retry_delay.  The jitter is in quarters, as the fraction, so the factor is in
\* sixteenths.
RetryDelay(p, next) ==
    LET base[k \in 2 .. next] ==
            IF k = 2 \/ p.strategy = "fixed" THEN p.initial
            ELSE IF base[k - 1] < p.maxDelay THEN CappedProduct(base[k - 1], p.multiplier, 1, p.maxDelay)
            ELSE base[k - 1]
    IN  CappedProduct(base[next], 16 - 4 * p.jitter + 2 * p.jitter * FractionOf[next], 16, p.maxDelay)

\* retry_decision: no retry, the time of one, or out of range.
RetryDecision(p, number, retryable, at, notBefore) ==
    IF ~retryable \/ number >= p.max THEN [kind |-> "none"]
    ELSE LET due == at + RetryDelay(p, number + 1) IN
         IF due > MaxTime THEN [kind |-> "out_of_range"]
         ELSE [kind |-> "retry", due |-> IF notBefore # {} /\ due < Max(notBefore) THEN Max(notBefore) ELSE due]

-----------------------------------------------------------------------------
(* Retry-After.                                                            *)

AddSaturating(t, delay) == IF t > MaxTime - delay THEN MaxTime ELSE t + delay

\* retry_after_policy: the hint, not beyond the policy's own limit, if there is one
\* that can be read.
RetryAfter(hint, at, maxDelay) ==
    CASE hint.kind = "seconds" ->
             {AddSaturating(at, IF hint.value > maxDelay \div SecondTicks THEN maxDelay
                                ELSE hint.value * SecondTicks)}
      [] hint.kind = "date" ->
             IF hint.value <= at THEN {}
             ELSE {IF hint.value > AddSaturating(at, maxDelay) THEN AddSaturating(at, maxDelay) ELSE hint.value}
      [] hint.kind \in {"absent", "twice", "unreadable"} -> {}

-----------------------------------------------------------------------------
(* Captured output.  The bytes of a stream are numbered, so that a buffer  *)
(* shows which it kept.                                                    *)

Empty(limit) ==
    [limit |-> limit, prefix |-> << >>, suffix |-> << >>, start |-> 0, total |-> 0, disabled |-> FALSE]

\* append_suffix, the same for both executors: a ring once it is full.
WithSuffix(b, bytes) ==
    LET room == b.limit \div 2
        some == Len(b.suffix) + Len(bytes) <= room
        filled == b.suffix \o SubSeq(bytes, 1, room - Len(b.suffix))
        rest == SubSeq(bytes, room - Len(b.suffix) + 1, Len(bytes))
        ring == [k \in 1 .. room |->
                    LET place == (k - 1 - b.start) % room
                    IN  IF place < Len(rest) THEN rest[place + 1] ELSE filled[k]]
    IN  CASE room = 0 -> b
          [] room > 0 /\ some -> [b EXCEPT !.suffix = @ \o bytes]
          [] room > 0 /\ ~some /\ Len(rest) >= room ->
                 [b EXCEPT !.suffix = SubSeq(rest, Len(rest) - room + 1, Len(rest)), !.start = 0]
          [] room > 0 /\ ~some /\ Len(rest) < room ->
                 [b EXCEPT !.suffix = ring, !.start = (@ + Len(rest)) % room]

\* append, and append_output on its failure.
Appended(b, count) ==
    LET bytes == [k \in 1 .. count |-> b.total + k]
        head == Min({(b.limit + 1) \div 2 - Len(b.prefix), count})
    IN  IF b.disabled THEN b
        ELSE IF b.total + count > MaxCounted THEN [b EXCEPT !.disabled = TRUE]
        ELSE [WithSuffix([b EXCEPT !.prefix = @ \o SubSeq(bytes, 1, head)], SubSeq(bytes, head + 1, count))
                 EXCEPT !.total = b.total + count]

TakenUnrotated(b) ==
    [bytes |-> b.prefix \o b.suffix, total |-> b.total, truncated |-> b.total > Len(b.prefix \o b.suffix)]

\* take of both buffers.
Taken(b) ==
    LET whole == Len(b.suffix) < b.limit \div 2 \/ b.start = 0
        tail == IF whole THEN b.suffix
                ELSE SubSeq(b.suffix, b.start + 1, Len(b.suffix)) \o SubSeq(b.suffix, 1, b.start)
        bytes == b.prefix \o tail
    IN  [bytes |-> bytes, total |-> b.total, truncated |-> b.total > Len(bytes)]

KeepsOutput(mode, outcome) == mode = "always" \/ (mode = "on_error" /\ outcome # "succeeded")

-----------------------------------------------------------------------------
(* The executors' verdicts.                                                *)

CompletionOf(outcome, retryable, notBefore, output) ==
    [outcome |-> outcome, retryable |-> retryable, notBefore |-> notBefore, output |-> output]

InternalVerdict == CompletionOf("failed", FALSE, {}, {})

\* map_response and map_error, with captured_output and should_capture.
HttpVerdict(p, transfer, body, at) ==
    LET expected == StatusSetContains(NormalizedStatuses(p.expected), transfer.status)
        output(outcome) == IF KeepsOutput(p.capture, outcome) THEN {[primary |-> body, lost |-> FALSE]} ELSE {}
        retryStatus == ~expected /\ StatusSetContains(p.retry, transfer.status)
        hint == IF retryStatus /\ transfer.status \in HintStatuses
                    THEN RetryAfter(transfer.hint, at, p.maxDelay) ELSE {}
    IN  CASE transfer.kind = "response" /\ expected -> CompletionOf("succeeded", FALSE, {}, output("succeeded"))
          [] transfer.kind = "response" /\ ~expected -> CompletionOf("failed", retryStatus, hint, output("failed"))
          [] transfer.kind = "cancelled" -> CompletionOf("cancelled", FALSE, {}, output("cancelled"))
          [] OTHER -> CompletionOf("failed", transfer.kind \in Configurable \cap Range(p.errors), {}, output("failed"))

\* validate_process_exit.
ExitIsValid(e) ==
    CASE e.kind = "exited" -> e.seen = "code" /\ e.code \in 0 .. MaxCode
      [] e.kind = "signaled" -> e.seen = "signal"
      [] e.kind \in {"timed_out", "cancelled"} -> e.seen \in {"code", "signal"}
      [] e.kind = "start_failed" -> e.seen = "error"
      [] e.kind = "interrupted" -> FALSE

\* map_cli_completion.
CliVerdict(p, e, out, lost) ==
    LET output(outcome) == IF KeepsOutput(p.capture, outcome) THEN {[primary |-> out, lost |-> lost]} ELSE {}
        expected == e.code \in Range(p.expected)
    IN  CASE ~ExitIsValid(e) -> InternalVerdict
          [] ExitIsValid(e) /\ e.kind = "exited" ->
                 IF expected THEN CompletionOf("succeeded", FALSE, {}, output("succeeded"))
                 ELSE CompletionOf("failed", CodeSetContains(NormalizedCodes(p.retry).ranges, e.code), {}, output("failed"))
          [] ExitIsValid(e) /\ e.kind \in {"signaled", "timed_out"} -> CompletionOf("failed", TRUE, {}, output("failed"))
          [] ExitIsValid(e) /\ e.kind = "cancelled" -> CompletionOf("cancelled", FALSE, {}, output("cancelled"))
          [] ExitIsValid(e) /\ e.kind = "start_failed" -> CompletionOf("failed", FALSE, {}, output("failed"))

-----------------------------------------------------------------------------
(* The scheduler's side.                                                   *)

\* validate_completion, validate_output and validate_output_capture.
CompletionIsValid(p, v, outcome) ==
    /\ v.outcome # "failed" => ~v.retryable /\ v.notBefore = {}
    /\ v.notBefore # {} => v.retryable
    /\ \A o \in v.output :
          /\ Len(o.primary.bytes) <= o.primary.total
          /\ o.primary.truncated = (o.primary.total > Len(o.primary.bytes))
          /\ p.capture # "none" /\ (p.capture = "on_error" => outcome # "succeeded")

Begin ==
    /\ attempt.state = "due" /\ wall >= attempt.due
    /\ attempt' = [attempt EXCEPT !.state = IF SnapshotIsValid(policy) THEN "running" ELSE "refused"]
    /\ buffer' = Empty(IF policy.capture = "none" THEN 0 ELSE policy.limit)
    /\ UNCHANGED <<policy, wall>>

WriteOutput ==
    /\ attempt.state = "running" /\ attempt.writes < MaxWrites
    /\ \E c \in Chunks : buffer' = Appended(buffer, c)
    /\ attempt' = [attempt EXCEPT !.writes = @ + 1]
    /\ UNCHANGED <<policy, wall>>

\* take leaves the buffer empty.
Reported(verdict, cause) ==
    /\ attempt' = [attempt EXCEPT !.state = "reported", !.verdict = verdict, !.cause = cause, !.mapped = wall]
    /\ buffer' = Empty(0)

\* HttpAttemptExecutor::complete.  A transfer whose output cannot be counted ends
\* with an internal error.
FinishTransfer ==
    /\ attempt.state = "running" /\ policy.type = "http"
    /\ \E t \in Transfers :
          /\ t.kind = "internal" <=> buffer.disabled
          /\ Reported(HttpVerdict(policy, t, Taken(buffer), wall), t)
    /\ UNCHANGED <<policy, wall>>

\* CliAttemptExecutor::finish.
FinishProcess ==
    /\ attempt.state = "running" /\ policy.type = "cli"
    /\ \E e \in Exits :
          Reported(CliVerdict(policy, e, Taken(buffer), buffer.disabled \/ e.lost), e)
    /\ UNCHANGED <<policy, wall>>

Settled(decision) ==
    [attempt EXCEPT !.at = wall, !.verdict.output = {},
        !.number = IF decision.kind = "retry" THEN @ + 1 ELSE @,
        !.due = IF decision.kind = "retry" THEN decision.due ELSE @,
        !.state = CASE decision.kind = "retry" -> "due" [] decision.kind = "none" -> "ended"
                    [] decision.kind = "out_of_range" -> "latched"]

CompleteUncancelled ==
    /\ attempt.state = "reported"
    /\ LET v == attempt.verdict
           decision == RetryDecision(policy, attempt.number, v.retryable, wall, v.notBefore)
       IN  attempt' = IF CompletionIsValid(policy, v, v.outcome) THEN Settled(decision)
                      ELSE [attempt EXCEPT !.state = "invalid"]
    /\ UNCHANGED <<policy, buffer, wall>>

\* process_completion, up to the state of the run.
ProcessCompletion ==
    /\ attempt.state = "reported"
    /\ LET v == attempt.verdict
           outcome == IF attempt.cancel THEN "cancelled" ELSE v.outcome
           retryable == ~attempt.cancel /\ ~attempt.deleted /\ v.retryable
           notBefore == IF attempt.cancel THEN {} ELSE v.notBefore
           decision == RetryDecision(policy, attempt.number, retryable, wall, notBefore)
       IN  attempt' = IF CompletionIsValid(policy, v, outcome) THEN Settled(decision)
                      ELSE [attempt EXCEPT !.state = "invalid"]
    /\ UNCHANGED <<policy, buffer, wall>>

\* The daemon died during the attempt; recovery_retry_decision takes the place of
\* a verdict.
Interrupt ==
    /\ attempt.state \in {"running", "reported"}
    /\ attempt' = [Settled(RetryDecision(policy, attempt.number,
                                         policy.recovery = "retry" /\ ~attempt.deleted, wall, {}))
                      EXCEPT !.verdict = InternalVerdict, !.cause = [kind |-> "crash"], !.cancel = FALSE]
    /\ buffer' = Empty(0)
    /\ UNCHANGED <<policy, wall>>

\* Earlier requests have the same effect.
Cancel ==
    /\ attempt.state = "reported" /\ ~attempt.cancel
    /\ attempt' = [attempt EXCEPT !.cancel = TRUE]
    /\ UNCHANGED <<policy, buffer, wall>>

DeleteOwner ==
    /\ attempt.state = "reported" /\ ~attempt.deleted
    /\ attempt' = [attempt EXCEPT !.deleted = TRUE]
    /\ UNCHANGED <<policy, buffer, wall>>

\* Time passes until the attempt is due; the clock may be set, and runs on, between
\* the executor's reading of it and the scheduler's.
ClockMoves ==
    /\ \/ attempt.state = "due" /\ wall < attempt.due /\ wall' = attempt.due
       \/ attempt.state = "reported" /\ wall = attempt.mapped /\ wall' \in {wall - 1, wall + 1} \cap Nat
    /\ wall' <= MaxClock
    /\ UNCHANGED <<policy, attempt, buffer>>

AttemptsInit ==
    /\ policy \in Policies
    /\ attempt = [state |-> "due", number |-> 1, due |-> 0, writes |-> 0, cancel |-> FALSE, deleted |-> FALSE,
                  verdict |-> InternalVerdict, cause |-> [kind |-> "none"], mapped |-> 0, at |-> 0]
    /\ buffer = Empty(0)
    /\ wall = 0

AttemptsNext ==
    \/ Begin \/ WriteOutput \/ FinishTransfer \/ FinishProcess \/ ProcessCompletion
    \/ Interrupt \/ Cancel \/ DeleteOwner \/ ClockMoves

AttemptsSpec == AttemptsInit /\ [][AttemptsNext]_attemptsVars

-----------------------------------------------------------------------------
(* What the lists and the buffers mean.                                    *)

Meant(selectors) == UNION {selectors[k].first .. selectors[k].last : k \in DOMAIN selectors}

\* Whether the attempt that ended may be repeated.
Repeatable ==
    LET c == attempt.cause IN
    CASE c.kind = "crash" -> policy.recovery = "retry"
      [] c.kind = "response" -> c.status \in Meant(policy.retry) \ Meant(policy.expected)
      [] c.kind = "exited" /\ c.seen = "code" -> c.code \in Meant(policy.retry) \ Range(policy.expected)
      [] c.kind \in {"signaled", "timed_out"} -> ExitIsValid(c)
      [] c.kind \in Configurable -> c.kind \in Range(policy.errors)
      [] OTHER -> FALSE

HeadAndTail(bytes, limit, total) ==
    bytes = SelectSeq([k \in 1 .. total |-> k],
                      LAMBDA k : total <= limit \/ k <= (limit + 1) \div 2 \/ k > total - limit \div 2)

\* A run is tried again exactly after an end that its lists, read as sets, allow, if
\* it was not cancelled, its owner lives and attempts are left; a snapshot is refused
\* only for a list that is malformed or contradicts itself.  The next attempt waits
\* at least for the end of the last and at most for the largest delay, counted from
\* the later of the two clock readings, whatever the server asks for, and no less
\* than the server asks for within that limit.  The scheduler accepts every
\* completion the executors report, and the output that is kept is the head and the
\* tail of the stream, no longer than the limit, and says what is missing.
RetriesFollowPolicy ==
    LET more == attempt.state = "due" /\ attempt.number > 1
        ended == more \/ attempt.state = "ended"
        last == IF more THEN attempt.number - 1 ELSE attempt.number
        later == Max({attempt.mapped, attempt.at})
        asked == attempt.verdict.notBefore
    IN  /\ attempt.state # "invalid"
        /\ ended => (more <=> /\ Repeatable /\ last < policy.max
                              /\ ~attempt.cancel /\ ~attempt.deleted)
        /\ more => attempt.due \in attempt.at .. later + policy.maxDelay
        /\ more /\ asked # {} => attempt.due >= Min(asked)
        /\ attempt.state = "refused" =>
              \/ ~DelaysAreValid(policy)
              \/ \E k \in DOMAIN policy.retry : policy.retry[k].first > policy.retry[k].last
              \/ \E j, k \in DOMAIN policy.retry :
                    j # k /\ Meant(<<policy.retry[j]>>) \cap Meant(<<policy.retry[k]>>) # {}
        /\ \A o \in attempt.verdict.output :
              /\ policy.capture # "none"
              /\ HeadAndTail(o.primary.bytes, policy.limit, o.primary.total)
              /\ Len(o.primary.bytes) = o.primary.total \/ o.primary.truncated
        /\ attempt.state = "running" /\ policy.type = "cli" =>
              \A j, k \in DOMAIN policy.retry :
                 j # k => Meant(<<policy.retry[j]>>) \cap Meant(<<policy.retry[k]>>) = {}

=============================================================================
