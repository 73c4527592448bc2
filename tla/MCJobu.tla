-------------------------------- MODULE MCJobu --------------------------------
(* Instances of Jobu for TLC: the values of its structured constants.      *)
EXTENDS Jobu, TLC

AllCli == [j \in Jobs |-> "cli"]
OneEach == [t \in Types |-> 1]
TwoEach == [t \in Types |-> 2]

\* Rows of one table are interchangeable: ids are only compared for equality.
AllSymmetric == Permutations(Runs) \cup Permutations(Jobs) \cup Permutations(Queues)
RunsSymmetric == Permutations(Runs)

LifecycleRequests == Methods \ {"job.update", "job.move"}
DefinitionRequests == {"queue.create", "queue.suspend", "job.create", "job.update", "job.suspend",
                       "job.move", "job.run_now", "run.cancel"}
MoveRequests == {"queue.create", "queue.suspend", "job.create", "job.suspend", "job.move",
                 "job.run_now"}
CapacityRequests == {"queue.create", "queue.update", "queue.suspend", "job.create", "job.suspend"}
DrainRequests == {"queue.create", "queue.suspend", "job.create", "job.suspend", "run.cancel"}

=============================================================================
