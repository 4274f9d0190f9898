----------------------------- MODULE Experiments -----------------------------
(***************************************************************************)
(* The smaller experiments.  They are programs of their own and share      *)
(* nothing, so a behaviour is one of them running by itself; the variables *)
(* of the others stay as they are.                                         *)
(***************************************************************************)
EXTENDS Integers, Sequences

CONSTANTS Running,  \* the experiments that run
          Clients, Implementations, Names, ItemsPerPage, Pages, IntBits, MaxUsers,
          NumberOfMessages,
          Programs,
          Texts, MaxRuns

VARIABLES running,
          implementation, users, nextId, client, settled,
          main, consumer, producer, log, position, first, consumed, sent, acked,
          program, caller, worker, state, registered, owner, received, early,
          fields, runs, inFlight, shown, answered

Jdbc      == INSTANCE UserService
Kafka     == INSTANCE KafkaHello
Jdeferred == INSTANCE AsyncCalculator
Spark     == INSTANCE AddNumbersPage

(* What can be read as a number has one; a page has room for a user; an    *)
(* int has 2 ^ IntBits values, half of them below zero.                    *)
ASSUME ExperimentsAssumption ==
    /\ \A text \in Texts :
          text.shape \in {"integer", "integral double"} => text.value \in Int
    /\ MaxUsers \in Nat /\ Pages \subseteq Nat /\ ItemsPerPage \subseteq Nat \ {0}
    /\ 2 ^ (IntBits - 1) \in Nat \ {0} /\ 2 ^ IntBits = 2 * (2 ^ (IntBits - 1))

jdbc == <<implementation, users, nextId, client, settled>>
kafka == <<main, consumer, producer, log, position, first, consumed, sent, acked>>
jdeferred == <<program, caller, worker, state, registered, owner, received, early>>
spark == <<fields, runs, inFlight, shown, answered>>
vars == <<running, jdbc, kafka, jdeferred, spark>>

(* One that does not run needs only one of its initial states.             *)
Init ==
    /\ running \in Running
    /\ Jdbc!Init /\ Kafka!Init /\ Jdeferred!Init /\ Spark!Init
    /\ running # "jdbc" => implementation = CHOOSE i \in Implementations : TRUE
    /\ running # "jdeferred" => program = CHOOSE p \in Programs : TRUE

Next ==
    /\ UNCHANGED running
    /\ \/ running = "jdbc" /\ Jdbc!Next /\ UNCHANGED <<kafka, jdeferred, spark>>
       \/ running = "kafka" /\ Kafka!Next /\ UNCHANGED <<jdbc, jdeferred, spark>>
       \/ running = "jdeferred" /\ Jdeferred!Next /\ UNCHANGED <<jdbc, kafka, spark>>
       \/ running = "spark" /\ Spark!Next /\ UNCHANGED <<jdbc, kafka, jdeferred>>

Spec ==
    /\ Init /\ [][Next]_vars
    /\ running = "kafka" => Kafka!Fairness
    /\ running = "jdeferred" => Jdeferred!Fairness

-----------------------------------------------------------------------------
(* The properties are those of the modules; what should happen eventually  *)
(* is asked of the experiment that runs.                                   *)

(* Every experiment's variables have the types its module says.            *)
TypeOK == Jdbc!TypeOK /\ Kafka!TypeOK /\ Jdeferred!TypeOK /\ Spark!TypeOK

(* jdbc-experiment: a call that is not disturbed keeps the interface's     *)
(* promise.                                                                *)
UndisturbedCallsKeepPromise == Jdbc!UndisturbedCallsKeepPromise

(* jdbc-experiment: no two calls of createUser are about one user.         *)
CreatesAnswerNewUsers == Jdbc!CreatesAnswerNewUsers

(* kafka-experiment: a consumer that was told "bye" has counted everything *)
(* that came after its first offset.                                       *)
CountsEverything == Kafka!CountsEverything

(* kafka-experiment: the main thread ends, unless no "bye" is coming.      *)
Returns == running = "kafka" => Kafka!Returns

(* jdeferred-experiment: a promise settled too early keeps the caller from *)
(* ending.                                                                 *)
EndsOnlyIfLate == Jdeferred!EndsOnlyIfLate

(* jdeferred-experiment: a promise settled late lets the caller end.       *)
EndsIfLate == running = "jdeferred" => Jdeferred!EndsIfLate

(* spark-experiment: when the newest run was answered last, the page shows *)
(* its sum, twice.                                                         *)
NewestRunIsShown == Spark!NewestRunIsShown

-----------------------------------------------------------------------------
(* Values for TLC: the programs of jdeferred-experiment, App and the two    *)
(* tests, and what is typed into the page of spark-experiment.              *)
AppAndTests ==
    {[callbacks |-> <<"done", "fail", "always">>, ends |-> "resolved"],
     [callbacks |-> <<"done">>, ends |-> "resolved"],
     [callbacks |-> <<"fail">>, ends |-> "rejected"]}

TypedTexts ==
    {[shape |-> "integer", value |-> 7], [shape |-> "integral double", value |-> 1]}
=============================================================================
