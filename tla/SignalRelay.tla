----------------------------- MODULE SignalRelay -----------------------------
(***************************************************************************)
(* ShutdownSignalRelay: SIGTERM and SIGINT reach the daemon's event loop   *)
(* through a pipe.  The owner thread installs the relay before any worker  *)
(* exists, watches the pipe while it serves, and retires the relay last;   *)
(* handlers run on the owner's or a worker's thread, several at a time,    *)
(* and one that was selected before the dispositions were restored may     *)
(* enter after the relay is gone.                                          *)
(***************************************************************************)
EXTENDS Naturals, FiniteSets

CONSTANTS
    Workers,      \* threads other than the owner's that may take a signal
    Owner,        \* the owner's thread
    MaxSignals,   \* bound on signals delivered
    MaxSigFaults  \* bound on failing signal and pipe calls

ASSUME WorkersAssumption == IsFiniteSet(Workers)

VARIABLES
    relay,     \* where the owner is, and what it has installed
    handlers,  \* program counter of the handler on each thread
    published, \* request_publication: 0 unclaimed, 1 publishing, 2 visible
    access,    \* handler_access: admission and number of borrowers
    descriptor,\* the pipe: none, open or closed
    bytes,     \* whether the pipe holds a byte
    watch,     \* ShutdownSignalWatch: active, delivered
    signals,
    sigFaults

relayVars == <<relay, handlers, published, access, descriptor, bytes, watch, signals, sigFaults>>

HandlerThreads == Workers \cup {Owner}

RelayInit ==
    /\ relay = [pc |-> "install", mask |-> "original", saved |-> FALSE, handled |-> {},
                closes |-> 0]
    /\ handlers = [t \in HandlerThreads |-> "idle"]
    /\ published = 0
    /\ access = [closed |-> TRUE, count |-> 0]
    /\ descriptor = "none"
    /\ bytes = FALSE
    /\ watch = [active |-> FALSE, delivered |-> FALSE]
    /\ signals = 0
    /\ sigFaults = 0

-----------------------------------------------------------------------------
(* Handlers.                                                               *)

\* A signal is delivered: to a worker whenever a handler is installed and the
\* relay has served (workers inherit its mask), to the owner unless it blocks
\* both signals.  A handler masks both signals on its own thread.
Select(t) ==
    /\ signals < MaxSignals
    /\ handlers[t] = "idle"
    /\ relay.handled # {}
    /\ IF t = Owner THEN relay.mask = "serving" ELSE relay.pc \notin {"install", "pipe", "TERM", "INT", "enable"}
    /\ signals' = signals + 1
    /\ handlers' = [handlers EXCEPT ![t] = "entered"]
    /\ UNCHANGED <<relay, published, access, descriptor, bytes, watch, sigFaults>>

To(t, pc) == handlers' = [handlers EXCEPT ![t] = pc]

\* The first handler claims the request, sets the flag and publishes it.
ClaimRequest(t) ==
    /\ handlers[t] = "entered"
    /\ published' = IF published = 0 THEN 1 ELSE published
    /\ To(t, IF published = 0 THEN "publish" ELSE "acquire")
    /\ UNCHANGED <<relay, access, descriptor, bytes, watch, signals, sigFaults>>

PublishRequest(t) ==
    /\ handlers[t] = "publish"
    /\ published' = 2
    /\ To(t, "acquire")
    /\ UNCHANGED <<relay, access, descriptor, bytes, watch, signals, sigFaults>>

CountThenCheck(t) ==
    /\ handlers[t] = "acquire"
    /\ To(t, IF access.closed THEN "idle" ELSE "write")
    /\ access' = [access EXCEPT !.count = @ + 1]
    /\ UNCHANGED <<relay, published, descriptor, bytes, watch, signals, sigFaults>>

\* acquire_handler_descriptor(): one word holds admission and count.
AcquireDescriptor(t) ==
    /\ handlers[t] = "acquire"
    /\ To(t, IF access.closed THEN "idle" ELSE "write")
    /\ access' = IF access.closed THEN access ELSE [access EXCEPT !.count = @ + 1]
    /\ UNCHANGED <<relay, published, descriptor, bytes, watch, signals, sigFaults>>

WriteByte(t) ==
    /\ handlers[t] = "write"
    /\ bytes' = TRUE
    /\ To(t, "release")
    /\ UNCHANGED <<relay, published, access, descriptor, watch, signals, sigFaults>>

Release(t) ==
    /\ handlers[t] = "release"
    /\ access' = [access EXCEPT !.count = @ - 1]
    /\ To(t, "idle")
    /\ UNCHANGED <<relay, published, descriptor, bytes, watch, signals, sigFaults>>

WakeThenPublish(t) ==
    \/ /\ handlers[t] = "entered"
       /\ To(t, IF access.closed THEN "idle" ELSE "write")
       /\ access' = IF access.closed THEN access ELSE [access EXCEPT !.count = @ + 1]
       /\ UNCHANGED <<relay, published, descriptor, bytes, watch, signals, sigFaults>>
    \/ WriteByte(t)
    \/ /\ handlers[t] = "release"
       /\ access' = [access EXCEPT !.count = @ - 1]
       /\ published' = 2
       /\ To(t, "idle")
       /\ UNCHANGED <<relay, descriptor, bytes, watch, signals, sigFaults>>

\* handle_shutdown_signal(): the request is visible before the loop is woken.
Handle(t) ==
    \/ ClaimRequest(t) \/ PublishRequest(t) \/ AcquireDescriptor(t) \/ WriteByte(t) \/ Release(t)

-----------------------------------------------------------------------------
(* The owner.  It does nothing while a handler runs on its thread.         *)

OwnerAt(pc) == relay.pc = pc /\ handlers[Owner] = "idle"

SignalFault == sigFaults < MaxSigFaults /\ sigFaults' = sigFaults + 1
NoFaults == UNCHANGED sigFaults

\* install(): block both signals, make the pipe, open admission, install both
\* handlers, enable delivery.  Any failure closes what there is.
Block ==
    /\ OwnerAt("install")
    /\ \/ NoFaults /\ relay' = [relay EXCEPT !.pc = "pipe", !.mask = "blocked", !.saved = TRUE]
       \/ SignalFault /\ relay' = [relay EXCEPT !.pc = "off"]
    /\ UNCHANGED <<handlers, published, access, descriptor, bytes, watch, signals>>

MakePipe ==
    /\ OwnerAt("pipe")
    /\ \/ /\ NoFaults
          /\ descriptor' = "open" /\ access' = [closed |-> FALSE, count |-> 0]
          /\ relay' = [relay EXCEPT !.pc = "TERM"]
       \/ /\ SignalFault
          /\ relay' = [relay EXCEPT !.pc = "close"]
          /\ UNCHANGED <<descriptor, access>>
    /\ UNCHANGED <<handlers, published, bytes, watch, signals>>

InstallWithoutUnwinding(s, next) ==
    /\ OwnerAt(s)
    /\ \/ NoFaults /\ relay' = [relay EXCEPT !.pc = next, !.handled = @ \cup {s}]
       \/ SignalFault /\ relay' = [relay EXCEPT !.pc = "off"]
    /\ UNCHANGED <<handlers, published, access, descriptor, bytes, watch, signals>>

InstallHandler(s, next) ==
    /\ OwnerAt(s)
    /\ \/ NoFaults /\ relay' = [relay EXCEPT !.pc = next, !.handled = @ \cup {s}]
       \/ SignalFault /\ relay' = [relay EXCEPT !.pc = "close"]
    /\ UNCHANGED <<handlers, published, access, descriptor, bytes, watch, signals>>

Enable ==
    /\ OwnerAt("enable")
    /\ \/ NoFaults /\ relay' = [relay EXCEPT !.pc = "attach", !.mask = "serving"]
       \/ SignalFault /\ relay' = [relay EXCEPT !.pc = "close"]
    /\ UNCHANGED <<handlers, published, access, descriptor, bytes, watch, signals>>

\* attach(): main leaves when it polls a request before, or when the watch fails.
Attach ==
    /\ OwnerAt("attach")
    /\ \/ /\ NoFaults
          /\ watch' = [watch EXCEPT !.active = TRUE]
          /\ relay' = [relay EXCEPT !.pc = "serving"]
       \/ /\ NoFaults /\ published = 2
          /\ relay' = [relay EXCEPT !.pc = "close"] /\ UNCHANGED watch
       \/ /\ SignalFault
          /\ relay' = [relay EXCEPT !.pc = "close"] /\ UNCHANGED watch
    /\ UNCHANGED <<handlers, published, access, descriptor, bytes, signals>>

\* The loop's callback: one read, then the flag.
DispatchStop ==
    /\ OwnerAt("serving") /\ watch.active /\ bytes
    /\ bytes' = FALSE
    /\ watch' = [watch EXCEPT !.delivered = @ \/ published = 2]
    /\ UNCHANGED <<relay, handlers, published, access, descriptor, signals, sigFaults>>

\* The runtime has finished, asked to by the relay or not: the watch is destroyed.
Detach ==
    /\ OwnerAt("serving")
    /\ watch' = [watch EXCEPT !.active = FALSE]
    /\ relay' = [relay EXCEPT !.pc = "close"]
    /\ UNCHANGED <<handlers, published, access, descriptor, bytes, signals, sigFaults>>

\* close(): main calls it, and the destructor once more when that failed.
Failing(r) == [r EXCEPT !.pc = IF r.closes = 0 THEN "close" ELSE "abandoned", !.closes = @ + 1]

CloseBlock ==
    /\ OwnerAt("close")
    /\ \/ NoFaults /\ relay' = [relay EXCEPT !.pc = "restore", !.mask = "blocked"]
       \/ SignalFault /\ relay' = Failing(relay)
    /\ UNCHANGED <<handlers, published, access, descriptor, bytes, watch, signals>>

Restore ==
    /\ OwnerAt("restore")
    /\ \/ /\ relay.handled # {} /\ NoFaults
          /\ \E s \in relay.handled :
                /\ s = "INT" => "TERM" \notin relay.handled
                /\ relay' = [relay EXCEPT !.handled = @ \ {s}]
       \/ /\ relay.handled # {} /\ SignalFault
          /\ relay' = Failing(relay)
       \/ /\ relay.handled = {} /\ NoFaults
          /\ relay' = [relay EXCEPT !.pc = "retire"]
    /\ UNCHANGED <<handlers, published, access, descriptor, bytes, watch, signals>>

RetireDescriptor ==
    /\ OwnerAt("retire")
    /\ access' = [access EXCEPT !.closed = TRUE]
    /\ relay' = [relay EXCEPT !.pc = "drain"]
    /\ UNCHANGED <<handlers, published, descriptor, bytes, watch, signals, sigFaults>>

CloseAtOnce ==
    /\ OwnerAt("drain")
    /\ descriptor' = IF descriptor = "open" THEN "closed" ELSE descriptor
    /\ bytes' = FALSE
    /\ relay' = [relay EXCEPT !.pc = "unmask"]
    /\ UNCHANGED <<handlers, published, access, watch, signals, sigFaults>>

CloseDrained ==
    /\ OwnerAt("drain") /\ access.count = 0
    /\ descriptor' = IF descriptor = "open" THEN "closed" ELSE descriptor
    /\ bytes' = FALSE
    /\ relay' = [relay EXCEPT !.pc = "unmask"]
    /\ UNCHANGED <<handlers, published, access, watch, signals, sigFaults>>

Unmask ==
    /\ OwnerAt("unmask")
    /\ \/ NoFaults /\ relay' = [relay EXCEPT !.pc = "off", !.mask = "original", !.saved = FALSE]
       \/ SignalFault /\ relay' = Failing(relay)
    /\ UNCHANGED <<handlers, published, access, descriptor, bytes, watch, signals>>

OwnerStep ==
    \/ Block \/ MakePipe
    \/ InstallHandler("TERM", "INT") \/ InstallHandler("INT", "enable") \/ Enable
    \/ Attach \/ DispatchStop \/ CloseBlock \/ Restore \/ RetireDescriptor \/ CloseDrained \/ Unmask

RelayNext == OwnerStep \/ Detach \/ \E t \in HandlerThreads : Select(t) \/ Handle(t)

RelayFairness ==
    /\ WF_relayVars(OwnerStep)
    /\ \A t \in HandlerThreads : WF_relayVars(Handle(t))

RelaySpec == RelayInit /\ [][RelayNext]_relayVars /\ RelayFairness

-----------------------------------------------------------------------------
(* Properties.                                                             *)

\* A handler never writes to a descriptor that is closed, and may be another
\* file's by now: whoever acquired it is waited for.
DescriptorAlive ==
    \A t \in HandlerThreads : handlers[t] = "write" => descriptor = "open"

\* A relay that is off left nothing behind: both dispositions and the mask are
\* the original ones, the pipe is closed and late handlers are refused.
OffIsRestored ==
    relay.pc = "off" =>
        /\ relay.handled = {} /\ relay.mask = "original" /\ ~relay.saved
        /\ descriptor # "open" /\ access.closed /\ access.count = 0
        /\ ~watch.active

\* The process-wide state the relay touches stays sound: its descriptor outlives
\* every handler that took it, and nothing of the relay outlives its retirement.
RelayIsClean ==
    DescriptorAlive /\ OffIsRestored

\* A stop that was requested while the loop watches the pipe is delivered to
\* the runtime, unless the runtime ends by itself: no order of flag, byte and read
\* loses it.
StopIsDelivered ==
    (watch.active /\ published = 2) ~> (watch.delivered \/ ~watch.active)

\* Retiring the relay ends: it waits for handlers only, and new ones are refused.
RetirementEnds == (relay.pc = "close") ~> (relay.pc \in {"off", "abandoned"})

\* A requested stop reaches the runtime, and retiring the relay comes to an end.
RelayProgress ==
    StopIsDelivered /\ RetirementEnds
=============================================================================
