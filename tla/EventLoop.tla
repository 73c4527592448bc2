------------------------------ MODULE EventLoop ------------------------------
(***************************************************************************)
(* jb::core::EventLoop run by an EventThread, with other threads posting   *)
(* tasks, queued signals and deferred deletions to it.                     *)
(*                                                                         *)
(* A post takes the queue's mutex, writes the wakeup descriptor and pushes *)
(* the entry before it releases the mutex; the three are separate steps    *)
(* here.  One iteration of the loop polls (which drains the descriptor),   *)
(* runs native and timer callbacks, and then swaps out and drains the task *)
(* queue, the event queue and the delete queue.                            *)
(***************************************************************************)
EXTENDS Naturals, Sequences, FiniteSets

CONSTANTS
    Threads,   \* threads other than the loop's
    Objects,   \* objects that live on the loop
    ParentOf,  \* the parent of each object, itself for a root
    NoThread,
    MaxPosts   \* bound on posts

VARIABLES
    loop,      \* EventLoop: phase of the iteration, _running, queues, wakeup
    mutex,     \* holders of _task_queue_mx and _event_queue_mx
    threads,   \* what each posting thread is doing
    objects,   \* ObjectLifetime: alive, delete_later_pending
    thread,    \* EventThread: the loop's thread and its owner
    promised,  \* history: tasks accepted while the loop was running or not yet run
    ran,       \* history: the tasks that have run
    posts,
    touchedDead\* history: an entry reached an object that was gone

loopVars == <<loop, mutex, threads, objects, thread, promised, ran, posts, touchedDead>>

Idle0 == [pc |-> "idle", entry |-> 0]

LoopInit ==
    /\ loop = [phase |-> "Off", running |-> FALSE, wake |-> FALSE, native |-> FALSE,
               tasks |-> << >>, events |-> << >>, deletes |-> << >>, local |-> << >>]
    /\ mutex = [tasks |-> NoThread, events |-> NoThread]
    /\ threads = [t \in Threads |-> Idle0]
    /\ objects = [o \in Objects |-> [alive |-> TRUE, pending |-> FALSE]]
    /\ thread = [started |-> FALSE, owner |-> "idle"]
    /\ promised = {}
    /\ ran = {}
    /\ posts = 0
    /\ touchedDead = FALSE

QuitTask == 0

-----------------------------------------------------------------------------
(* Posting threads.                                                        *)

PostUnlocked(t, e) ==
    /\ threads[t].pc = "idle" /\ posts < MaxPosts
    /\ mutex.tasks = NoThread
    /\ posts' = posts + 1
    /\ loop' = [loop EXCEPT !.wake = TRUE]
    /\ threads' = [threads EXCEPT ![t] = [pc |-> "push task", entry |-> e]]
    /\ UNCHANGED <<mutex, objects, thread, promised, ran, touchedDead>>

\* EventLoop::post, up to the wakeup.
PostTask(t, e) ==
    /\ threads[t].pc = "idle" /\ posts < MaxPosts
    /\ mutex.tasks = NoThread
    /\ posts' = posts + 1
    /\ mutex' = [mutex EXCEPT !.tasks = t]
    /\ loop' = [loop EXCEPT !.wake = TRUE]
    /\ threads' = [threads EXCEPT ![t] = [pc |-> "push task", entry |-> e]]
    /\ UNCHANGED <<objects, thread, promised, ran, touchedDead>>

PushTask(t) ==
    /\ threads[t].pc = "push task"
    /\ mutex' = [mutex EXCEPT !.tasks = NoThread]
    /\ loop' = [loop EXCEPT !.tasks = Append(@, threads[t].entry)]
    /\ promised' = IF loop.running \/ loop.phase = "Off" THEN promised \cup {threads[t].entry}
                   ELSE promised
    /\ threads' = [threads EXCEPT ![t] = Idle0]
    /\ UNCHANGED <<objects, thread, ran, posts, touchedDead>>

\* Signal::emit, routing: the receiver is alive when the route is resolved.
ResolveSignal(t, o) ==
    /\ threads[t].pc = "idle" /\ posts < MaxPosts
    /\ objects[o].alive
    /\ posts' = posts + 1
    /\ threads' = [threads EXCEPT ![t] = [pc |-> "resolved", entry |-> o]]
    /\ UNCHANGED <<loop, mutex, objects, thread, promised, ran, touchedDead>>

\* Signal::emit, dispatch, and post_event_delivery up to the wakeup: the
\* receiver may have died since.
PostSignal(t) ==
    /\ threads[t].pc = "resolved"
    /\ mutex.events = NoThread
    /\ IF objects[threads[t].entry].alive
       THEN /\ mutex' = [mutex EXCEPT !.events = t]
            /\ loop' = [loop EXCEPT !.wake = TRUE]
            /\ threads' = [threads EXCEPT ![t].pc = "push event"]
       ELSE /\ threads' = [threads EXCEPT ![t] = Idle0]
            /\ UNCHANGED <<mutex, loop>>
    /\ UNCHANGED <<objects, thread, promised, ran, posts, touchedDead>>

PushSignal(t) ==
    /\ threads[t].pc = "push event"
    /\ mutex' = [mutex EXCEPT !.events = NoThread]
    /\ loop' = [loop EXCEPT !.events = Append(@, threads[t].entry)]
    /\ threads' = [threads EXCEPT ![t] = Idle0]
    /\ UNCHANGED <<objects, thread, promised, ran, posts, touchedDead>>

-----------------------------------------------------------------------------
(* The loop's own thread.                                                  *)

\* EventThread::start: the worker begins, and later enters run.
StartThread ==
    /\ thread.owner = "idle" /\ ~thread.started
    /\ thread' = [thread EXCEPT !.started = TRUE]
    /\ UNCHANGED <<loop, mutex, threads, objects, promised, ran, posts, touchedDead>>

\* EventLoop::run.
EnterRun ==
    /\ thread.started /\ loop.phase = "Off"
    /\ loop' = [loop EXCEPT !.phase = "Poll", !.running = TRUE]
    /\ UNCHANGED <<mutex, threads, objects, thread, promised, ran, posts, touchedDead>>

\* A descriptor, a child or a timer becomes ready.
NativeReady ==
    /\ loop.phase = "Poll" /\ ~loop.native /\ posts < MaxPosts
    /\ posts' = posts + 1
    /\ loop' = [loop EXCEPT !.native = TRUE]
    /\ UNCHANGED <<mutex, threads, objects, thread, promised, ran, touchedDead>>

\* The objects that go with an object: Object::~Object deletes its children.
Family(o) == {o} \cup {c \in Objects : ParentOf[c] = o}
Killed(S) == [o \in Objects |-> IF o \in S THEN [objects[o] EXCEPT !.alive = FALSE] ELSE objects[o]]

\* Object::delete_later: one entry per object, however often it is asked for.
DeleteLater(l, o) ==
    /\ objects[o].alive /\ ~objects[o].pending
    /\ objects' = [objects EXCEPT ![o].pending = TRUE]
    /\ loop' = [l EXCEPT !.deletes = Append(@, o), !.wake = TRUE]

\* What a callback on the loop's thread may do to the objects: nothing, ask for
\* a deletion, or delete at once.
Effects(l) ==
    \/ loop' = l /\ UNCHANGED objects
    \/ \E o \in Objects : DeleteLater(l, o)
    \/ \E o \in Objects : objects[o].alive /\ objects' = Killed(Family(o)) /\ loop' = l

\* poll: it returns only for the descriptor, a native event or a due timer,
\* and drains the descriptor; dispatch_fd, dispatch_process and fire_expired
\* then run the callbacks.
PollLoop ==
    /\ loop.phase = "Poll" /\ (loop.wake \/ loop.native)
    /\ LET l == [loop EXCEPT !.phase = "Tasks", !.wake = FALSE, !.native = FALSE] IN
       IF loop.native THEN Effects(l) ELSE loop' = l /\ UNCHANGED objects
    /\ UNCHANGED <<mutex, threads, thread, promised, ran, posts, touchedDead>>

\* drain_task_queue: the queue is swapped out under its mutex.
TakeTasks ==
    /\ loop.phase \in {"Tasks", "Final tasks"} /\ loop.local = << >> /\ mutex.tasks = NoThread
    /\ loop.tasks # << >>
    /\ loop' = [loop EXCEPT !.local = loop.tasks, !.tasks = << >>,
                            !.phase = IF @ = "Tasks" THEN "Run tasks" ELSE "Run final tasks"]
    /\ UNCHANGED <<mutex, threads, objects, thread, promised, ran, posts, touchedDead>>

NoTasks ==
    /\ loop.phase \in {"Tasks", "Final tasks"} /\ mutex.tasks = NoThread /\ loop.tasks = << >>
    /\ loop' = [loop EXCEPT !.phase = CASE @ = "Final tasks" -> "Final deletes"
                                        [] @ = "Tasks" /\ loop.running -> "Events"
                                        [] OTHER -> "Deletes"]
    /\ UNCHANGED <<mutex, threads, objects, thread, promised, ran, posts, touchedDead>>

StopAfterDeletes(l) == IF l.running THEN "Poll" ELSE "Final deletes"

\* run, behind process_events: a stopped loop first drains its tasks once more.
AfterDeletes(l) == IF l.running THEN "Poll" ELSE "Final tasks"

\* The phase that follows when a swapped-out queue is empty.
AfterLocal(l) ==
    IF l.local # << >> THEN l.phase
    ELSE CASE l.phase = "Run tasks" -> IF l.running THEN "Events" ELSE "Deletes"
           [] l.phase = "Run final tasks" -> "Final deletes"
           [] l.phase = "Run events" -> "Deletes"
           [] l.phase = "Run deletes" -> AfterDeletes(l)
           [] l.phase = "Run final deletes" -> "Discard"

Popped(l) == LET rest == [l EXCEPT !.local = Tail(@)] IN [rest EXCEPT !.phase = AfterLocal(rest)]

\* One task: quit clears _running, anything else is user code.
RunTask1 ==
    /\ loop.phase \in {"Run tasks", "Run final tasks"}
    /\ ran' = ran \cup {Head(loop.local)}
    /\ IF Head(loop.local) = QuitTask
       THEN loop' = Popped([loop EXCEPT !.running = FALSE]) /\ UNCHANGED objects
       ELSE Effects(Popped(loop))
    /\ UNCHANGED <<mutex, threads, thread, promised, posts, touchedDead>>

\* drain_event_queue.
TakeEvents ==
    /\ loop.phase = "Events" /\ mutex.events = NoThread
    /\ loop' = IF loop.events = << >> THEN [loop EXCEPT !.phase = "Deletes"]
               ELSE [loop EXCEPT !.phase = "Run events", !.local = loop.events, !.events = << >>]
    /\ UNCHANGED <<mutex, threads, objects, thread, promised, ran, posts, touchedDead>>

DeliverAnyway(o) == TRUE

\* The lifetime check in front of a delivery and of a deferred deletion.
MayTouch(o) == objects[o].alive

RunEvent1 ==
    /\ loop.phase = "Run events"
    /\ LET o == Head(loop.local) IN
       IF MayTouch(o)
       THEN /\ touchedDead' = (touchedDead \/ ~objects[o].alive)
            /\ Effects(Popped(loop))
       ELSE loop' = Popped(loop) /\ UNCHANGED <<objects, touchedDead>>
    /\ UNCHANGED <<mutex, threads, thread, promised, ran, posts>>

\* drain_deferred_delete_queue.
TakeDeletes ==
    /\ loop.phase \in {"Deletes", "Final deletes"}
    /\ loop' = IF loop.deletes # << >>
               THEN [loop EXCEPT !.phase = IF @ = "Deletes" THEN "Run deletes" ELSE "Run final deletes",
                                 !.local = loop.deletes, !.deletes = << >>]
               ELSE [loop EXCEPT !.phase = IF @ = "Final deletes" THEN "Discard" ELSE AfterDeletes(loop)]
    /\ UNCHANGED <<mutex, threads, objects, thread, promised, ran, posts, touchedDead>>

RunDelete1 ==
    /\ loop.phase \in {"Run deletes", "Run final deletes"}
    /\ LET o == Head(loop.local) IN
       IF MayTouch(o)
       THEN /\ touchedDead' = (touchedDead \/ ~objects[o].alive)
            /\ objects' = Killed(Family(o))
       ELSE UNCHANGED <<objects, touchedDead>>
    /\ loop' = Popped(loop)
    /\ UNCHANGED <<mutex, threads, thread, promised, ran, posts>>

\* discard_event_queue: object events are not delivered after quit.
DiscardEvents ==
    /\ loop.phase = "Discard" /\ mutex.events = NoThread
    /\ loop' = [loop EXCEPT !.phase = "Ended", !.events = << >>]
    /\ UNCHANGED <<mutex, threads, objects, thread, promised, ran, posts, touchedDead>>

-----------------------------------------------------------------------------
(* EventThread's owner: ~EventThread quits the loop and joins the thread.  *)

OwnerQuits ==
    /\ thread.owner = "idle" /\ thread.started /\ mutex.tasks = NoThread
    /\ loop' = [loop EXCEPT !.wake = TRUE, !.tasks = Append(@, QuitTask)]
    /\ thread' = [thread EXCEPT !.owner = "joining"]
    /\ UNCHANGED <<mutex, threads, objects, promised, ran, posts, touchedDead>>

OwnerJoins ==
    /\ thread.owner = "joining" /\ loop.phase = "Ended"
    /\ thread' = [thread EXCEPT !.owner = "joined"]
    /\ UNCHANGED <<loop, mutex, threads, objects, promised, ran, posts, touchedDead>>

LoopThread ==
    \/ EnterRun \/ PollLoop \/ TakeTasks \/ NoTasks \/ RunTask1 \/ TakeEvents \/ RunEvent1
    \/ TakeDeletes \/ RunDelete1 \/ DiscardEvents

ThreadStep(t) ==
    PushTask(t) \/ PostSignal(t) \/ PushSignal(t)

LoopNext ==
    \/ LoopThread
    \/ StartThread
    \/ NativeReady
    \/ OwnerQuits \/ OwnerJoins
    \/ \E t \in Threads :
        \/ ThreadStep(t)
        \/ \E e \in 1 .. MaxPosts : e = posts + 1 /\ PostTask(t, e)
        \/ \E o \in Objects : ResolveSignal(t, o)

LoopSpec == LoopInit /\ [][LoopNext]_loopVars

-----------------------------------------------------------------------------
(* Properties.                                                             *)

\* No wakeup is lost: a loop that is about to block in poll has nothing queued
\* unless the wakeup descriptor is readable, at whatever point other threads
\* are between their wakeup and their push.
QueuedWorkWakes ==
    loop.phase = "Poll" =>
        \/ loop.wake
        \/ loop.tasks = << >> /\ loop.events = << >> /\ loop.deletes = << >>

\* The loop never reaches an object that is gone: not by a queued event whose
\* receiver died after it was posted, and not by a deferred deletion of an
\* object that was deleted directly or with its parent.
NoDeadObjectTouched == ~touchedDead

\* A task the loop has accepted before it was stopped has run by the time the
\* owner has joined the thread, even when quit was run in front of it.
AcceptedTasksRun == thread.owner = "joined" => promised \subseteq ran

\* What is posted to a loop is handled once the loop can: no lost wakeup, no
\* dropped task, and no delivery to what is gone.
LoopKeepsPromises ==
    QueuedWorkWakes /\ NoDeadObjectTouched /\ AcceptedTasksRun

=============================================================================
