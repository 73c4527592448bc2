-------------------------------- MODULE MCWake --------------------------------
(***************************************************************************)
(* What decides when something happens: the occurrences of a cron          *)
(* expression, the retries of a run, the timer of the scheduler and the    *)
(* relay of termination signals.  They share no state: a behaviour is one  *)
(* of one of them, and focus says which.                                   *)
(***************************************************************************)
EXTENDS SchedulerWake, SignalRelay, Cron, Attempts

VARIABLE focus

(***************************************************************************)
(* A calendar of three months, weeks of three days and days of six         *)
(* minutes, with expressions and zone files that reach every branch: every *)
(* kind of field, gaps, overlaps and rules on both sides of the equator.   *)
(***************************************************************************)
MCMinOffset == -6
MCMonthStarts == <<0, 3, 5, 7>>
Step(k) == <<[kind |-> "star", slash |-> TRUE, step |-> k]>>
Rng(a, b, k) == <<[kind |-> "range", first |-> a, last |-> b, slash |-> k # 1, step |-> k]>>
E5(mi, h, d, m, w) == [alias |-> "none", fields |-> <<mi, h, d, m, w>>]
MCExpressions ==
    {[alias |-> a] : a \in {"@hourly", "@daily", "@weekly"}}
    \cup {E5(mi, h, Star, Star, Star) : mi \in {Star, Only(1)}, h \in {Only(1), Rng(0, 1, 1), Step(2)}}
    \cup {E5(Only(0), Only(1), Rng(1, 3, 2), Star, w) : w \in {Star, Rng(2, 3, 1), Rng(11, 10, 2)}}
    \cup {E5(Only(0), Only(1), Only(3), Only(2), Star)}
    \cup {E5(Only(0), Only(1), Only(1), Only(1), Only(0) \o Only(3)),
          E5(Only(0), Only(1), Only(3), Only(3), Star),
          E5(Only(0), Only(1), Star, Star, Step(2)),
          E5(Step(0), Only(1), Star, Star, Star)}
NoRule == [kind |-> "empty"]
Sec(times, kinds, types) == [sound |-> TRUE, times |-> times, kinds |-> kinds, types |-> types]
NoSec == Sec(<<>>, <<>>, <<0>>)
MW(m, wk, wd, tm) == [kind |-> "MonthWeekday", month |-> m, week |-> wk, weekday |-> wd, time |-> tm]
J1(d, tm) == [kind |-> "WithoutLeapDay", day |-> d, time |-> tm]
J0(d, tm) == [kind |-> "WithLeapDay", day |-> d, time |-> tm]
Foot(std, dst, off, s, e) == [kind |-> "rule", std |-> std, dst |-> dst, dstOffset |-> off, start |-> s, end |-> e]
V2(sec, foot) == [version |-> 2, first |-> NoSec, second |-> sec, footer |-> foot]
MCUtc == [version |-> 1, first |-> NoSec, second |-> NoSec, footer |-> NoRule]
MCZoneFiles ==
    {MCUtc,
     V2(NoSec, Foot(0, "default", 0, MW(1, 1, 1, 4), MW(3, 3, 0, 8))),
     V2(NoSec, Foot(-2, "default", 0, MW(3, 1, 1, 4), J0(1, 4))),
     V2(Sec(<<270, 300>>, <<2, 1>>, <<1, 5>>), NoRule),
     V2(Sec(<<268>>, <<2>>, <<1, 2>>), Foot(-2, "given", -4, J1(3, 6), J1(6, 8))),
     V2(Sec(<<270, 260>>, <<2, 1>>, <<1, 5>>), NoRule)}
MCBounds == {t \in 190 .. 320 : t % 5 = 0} \cup {500}

(***************************************************************************)
(* Snapshots of both types, valid and not, and the completions they meet.  *)
(***************************************************************************)
MCFractionOf == <<0, 0, 3, 1>>
MCOne(v) == [first |-> v, last |-> v, ranged |-> FALSE]
MCTo(v, w) == [first |-> v, last |-> w, ranged |-> TRUE]
MCBase ==
    [max |-> 3, strategy |-> "exponential", initial |-> 2, maxDelay |-> 5, multiplier |-> 3, jitter |-> 2,
     capture |-> "on_error", limit |-> 5, recovery |-> "retry", errors |-> <<"timeout">>]
MCCli(retry, expected) == MCBase @@ [type |-> "cli", retry |-> retry, expected |-> expected]
MCHttp(retry, expected) == MCBase @@ [type |-> "http", retry |-> retry, expected |-> expected]
MCPolicies ==
    {MCCli(<<MCTo(3, 4), MCOne(1)>>, <<0>>),
     MCCli(<<MCOne(2), MCOne(1)>>, <<0, 1>>),
     MCCli(<<MCOne(4), MCTo(1, 3), MCOne(2)>>, <<0>>),
     [MCCli(<<MCTo(1, 2)>>, <<0>>) EXCEPT !.strategy = "fixed", !.recovery = "fail", !.capture = "always", !.limit = 4],
     [MCCli(<<MCTo(1, 2)>>, <<0>>) EXCEPT !.capture = "none", !.limit = 1, !.maxDelay = 9],
     MCCli(<< >>, <<0>>), [MCCli(<< >>, <<0>>) EXCEPT !.initial = 6],
     MCHttp(<<MCTo(2, 4), MCOne(3)>>, <<MCOne(4), MCTo(1, 2)>>),
     MCHttp(<<MCTo(3, 2)>>, <<MCOne(1)>>),
     [MCHttp(<<MCOne(3)>>, <<MCOne(1)>>) EXCEPT !.jitter = 0, !.capture = "always", !.limit = 1, !.recovery = "fail"],
     [MCHttp(<<MCOne(3)>>, <<MCOne(1)>>) EXCEPT !.initial = 0, !.maxDelay = 0, !.capture = "none"]}
MCHint(k, v) == [kind |-> k, value |-> v]
MCTransfers ==
    {[kind |-> "response", status |-> s, hint |-> MCHint("absent", 0)] : s \in {1, 2, 4}}
    \cup {[kind |-> "response", status |-> 3, hint |-> h] :
             h \in {MCHint("absent", 0), MCHint("twice", 0), MCHint("unreadable", 0), MCHint("seconds", 0),
                    MCHint("seconds", 2), MCHint("seconds", 3), MCHint("date", 3), MCHint("date", 11)}}
    \cup {[kind |-> k, status |-> 0, hint |-> MCHint("absent", 0)] :
             k \in {"timeout", "connect", "redirect", "cancelled", "internal"}}
MCExit(k, seen, code, lost) == [kind |-> k, seen |-> seen, code |-> code, lost |-> lost]
MCExits ==
    {MCExit("exited", "code", c, FALSE) : c \in 0 .. 4}
    \cup {MCExit("signaled", "signal", 0, TRUE), MCExit("timed_out", "code", 1, FALSE),
          MCExit("cancelled", "signal", 0, FALSE), MCExit("start_failed", "error", 0, FALSE),
          MCExit("interrupted", "none", 0, FALSE), MCExit("timed_out", "none", 0, FALSE)}

(***************************************************************************)
(* The four components side by side.                                       *)
(***************************************************************************)
allVars == <<focus, wakeVars, relayVars, cronVars, attemptsVars>>

\* A component that is not looked at starts in one state.
MCInit ==
    /\ focus \in {"scheduler", "relay", "cron", "attempts"}
    /\ WakeInit /\ RelayInit /\ AttemptsInit
    /\ focus # "scheduler" => \A r \in Runs : runs[r] = "none" /\ due[r] = 0 /\ open[r]
    /\ focus # "attempts" => policy = MCCli(<< >>, <<0>>)
    /\ IF focus = "cron" THEN CronInit
       ELSE schedule = [zone |-> MCUtc, expression |-> [alias |-> "@daily"]] /\ search = Asked(500)

MCNext ==
    /\ focus' = focus
    /\ \/ focus = "scheduler" /\ WakeNext /\ UNCHANGED <<relayVars, cronVars, attemptsVars>>
       \/ focus = "relay" /\ RelayNext /\ UNCHANGED <<wakeVars, cronVars, attemptsVars>>
       \/ focus = "cron" /\ CronNext /\ UNCHANGED <<wakeVars, relayVars, attemptsVars>>
       \/ focus = "attempts" /\ AttemptsNext /\ UNCHANGED <<wakeVars, relayVars, cronVars>>

\* The fairness of each part, for the behaviours that are its own.
MCFairness ==
    /\ WF_wakeVars(focus = "scheduler" /\ CycleStep)
    /\ WF_wakeVars(focus = "scheduler" /\ Wake)
    /\ WF_wakeVars(focus = "scheduler" /\ Tick)
    /\ \A r \in Runs : WF_wakeVars(focus = "scheduler" /\ Complete(r))
    /\ WF_relayVars(focus = "relay" /\ OwnerStep)
    /\ \A t \in HandlerThreads : WF_relayVars(focus = "relay" /\ Handle(t))

MCSpec == MCInit /\ [][MCNext]_allVars /\ MCFairness

=============================================================================
