--------------------------- MODULE ExperimentsProofs ---------------------------
(***************************************************************************)
(* What the smaller experiments keep, for any number of messages, clients, *)
(* users and runs.  Each has an invariant of its own, which holds as well  *)
(* while another experiment runs, for then nothing of it changes.          *)
(***************************************************************************)
EXTENDS Experiments, FiniteSetTheorems, SequenceTheorems, TLAPS

LEMMA OneRuns ==
    ASSUME [Next]_vars
    PROVE  /\ [Jdbc!Next]_(Jdbc!vars) /\ [Kafka!Next]_(Kafka!vars)
           /\ [Jdeferred!Next]_(Jdeferred!vars) /\ [Spark!Next]_(Spark!vars)
  BY DEF Next, vars, jdbc, kafka, jdeferred, spark,
         Jdbc!vars, Kafka!vars, Jdeferred!vars, Spark!vars

-----------------------------------------------------------------------------
(* kafka-experiment: what the consumer counted.                            *)

Messages(l) == {k \in 1 .. Len(l) : l[k] = "message"}
Counted(l, f, p) == {k \in Messages(l) : 0 < f /\ f <= k /\ k < p}

KafkaTypeInv ==
    /\ log \in Seq({"message", "bye"})
    /\ first \in Nat /\ position \in Nat /\ consumed \in Nat /\ acked \in Nat

(* The consumer has counted the messages between its first offset and its  *)
(* position, and none before it had an offset.                             *)
CountInv ==
    /\ first = 0 => position = 0
    /\ first # 0 => first <= position /\ position <= Len(log) + 1
    /\ consumed = Cardinality(Counted(log, first, position))

(* Nothing follows "bye": the producer that sent it has stopped.  So a     *)
(* consumer that was stopped by it stands at the end of the log, where it  *)
(* stays.                                                                  *)
LastInv ==
    /\ \A k \in 1 .. Len(log) : log[k] = "bye" => k = Len(log) /\ producer = "stopped"
    /\ consumer = "stopped" =>
          first # 0 /\ position = Len(log) + 1 /\ producer = "stopped"
    /\ main \in {"creatingTopic", "atBarrier", "startingProducer"} => producer = "new"

AckInv == acked <= Cardinality(Messages(log))

KafkaInv == KafkaTypeInv /\ CountInv /\ LastInv /\ AckInv

-----------------------------------------------------------------------------
LEMMA MessagesFinite ==
    ASSUME NEW l \in Seq({"message", "bye"}), NEW f, NEW p
    PROVE  /\ IsFiniteSet(Messages(l)) /\ Cardinality(Messages(l)) \in Nat
           /\ IsFiniteSet(Counted(l, f, p)) /\ Cardinality(Counted(l, f, p)) \in Nat
<1>1. IsFiniteSet(1 .. Len(l))
  BY FS_Interval
<1>2. Messages(l) \in SUBSET (1 .. Len(l)) /\ Counted(l, f, p) \in SUBSET (1 .. Len(l))
  BY DEF Messages, Counted
<1> QED
  BY <1>1, <1>2, FS_Subset, FS_CardinalityType

(* A record appended to the log is one message more, if it is one.         *)
LEMMA MessagesAppend ==
    ASSUME NEW l \in Seq({"message", "bye"}), NEW e \in {"message", "bye"}
    PROVE  Cardinality(Messages(Append(l, e))) =
              Cardinality(Messages(l)) + (IF e = "message" THEN 1 ELSE 0)
<1> DEFINE n == Len(l) + 1
<1>1. /\ n \in Nat /\ Len(Append(l, e)) = n /\ Append(l, e)[n] = e
      /\ \A k \in 1 .. Len(l) : Append(l, e)[k] = l[k]
  OBVIOUS
<1>2. 1 .. n = (1 .. Len(l)) \cup {n} /\ n \notin 1 .. Len(l)
  OBVIOUS
<1> HIDE DEF n
<1>3. n \notin Messages(l)
  BY <1>2 DEF Messages
<1>4. CASE e = "message"
  <2>1. Messages(Append(l, e)) = Messages(l) \cup {n}
    BY <1>1, <1>2, <1>4 DEF Messages
  <2> QED
    BY <2>1, <1>3, <1>4, MessagesFinite, FS_AddElement
<1>5. CASE e = "bye"
  <2>1. Messages(Append(l, e)) = Messages(l)
    BY <1>1, <1>2, <1>5 DEF Messages
  <2> QED
    BY <2>1, <1>5, MessagesFinite
<1> QED
  BY <1>4, <1>5

(* Nothing in front of the position changes when the log grows.            *)
LEMMA CountedAppend ==
    ASSUME NEW l \in Seq({"message", "bye"}), NEW e \in {"message", "bye"},
           NEW f \in Nat, NEW p \in Nat, p <= Len(l) + 1
    PROVE  Counted(Append(l, e), f, p) = Counted(l, f, p)
<1>1. /\ Len(Append(l, e)) = Len(l) + 1
      /\ \A k \in 1 .. Len(l) : Append(l, e)[k] = l[k]
  OBVIOUS
<1>2. \A k \in 1 .. Len(l) + 1 : k < p => k \in 1 .. Len(l)
  OBVIOUS
<1>3. 1 .. Len(l) \subseteq 1 .. Len(l) + 1
  OBVIOUS
<1> QED
  BY <1>1, <1>2, <1>3 DEF Counted, Messages

(* The record at the position is counted next, if it is a message.         *)
LEMMA CountedStep ==
    ASSUME NEW l \in Seq({"message", "bye"}), NEW f \in Nat, NEW p \in Nat,
           f # 0, f <= p, p \in DOMAIN l
    PROVE  Cardinality(Counted(l, f, p + 1)) =
              Cardinality(Counted(l, f, p)) + (IF l[p] = "message" THEN 1 ELSE 0)
<1>0. p \in 1 .. Len(l)
  OBVIOUS
<1>1. p \notin Counted(l, f, p)
  BY DEF Counted
<1>2. CASE l[p] = "message"
  <2>1. Counted(l, f, p + 1) = Counted(l, f, p) \cup {p}
    BY <1>0, <1>2 DEF Counted, Messages
  <2> QED
    BY <2>1, <1>1, <1>2, MessagesFinite, FS_AddElement
<1>3. CASE l[p] # "message"
  <2>1. Counted(l, f, p + 1) = Counted(l, f, p)
    BY <1>0, <1>3 DEF Counted, Messages
  <2> QED
    BY <2>1, <1>3, MessagesFinite
<1> QED
  BY <1>2, <1>3

-----------------------------------------------------------------------------
LEMMA KafkaInit == Kafka!Init => KafkaInv
<1> SUFFICES ASSUME Kafka!Init PROVE KafkaInv
  OBVIOUS
<1>1. Messages(<<>>) = {} /\ Counted(<<>>, 0, 0) = {}
  BY DEF Messages, Counted
<1>2. KafkaTypeInv
  BY DEF Kafka!Init, KafkaTypeInv
<1>3. Cardinality({}) = 0
  BY FS_EmptySet
<1>4. CountInv /\ AckInv
  BY <1>1, <1>3 DEF Kafka!Init, CountInv, AckInv
<1>5. LastInv
  BY DEF Kafka!Init, LastInv
<1> QED
  BY <1>2, <1>4, <1>5 DEF KafkaInv

(* The log grows by what the producer sends, acknowledged or not.          *)
LEMMA KafkaSend ==
    ASSUME KafkaInv, producer = "sending",
           log' = Append(log, Kafka!Message) \/ (log' = log /\ acked' = acked),
           acked' = acked \/ (acked' = acked + 1 /\ Kafka!Message = "message"),
           producer' = Kafka!ProducerAfterSend,
           UNCHANGED <<main, consumer, position, first, consumed>>
    PROVE  KafkaInv'
<1> USE DEF KafkaInv
<1>0. Kafka!Message \in {"message", "bye"}
  BY DEF Kafka!Message
<1>1. consumer # "stopped"
  BY DEF LastInv
<1>2. CASE log' = Append(log, Kafka!Message)
  <2>1. /\ log' \in Seq({"message", "bye"}) /\ Len(log') = Len(log) + 1
        /\ Len(log) \in Nat /\ log'[Len(log) + 1] = Kafka!Message
        /\ \A k \in 1 .. Len(log) : log'[k] = log[k]
    BY <1>0, <1>2 DEF KafkaTypeInv
  <2>2. KafkaTypeInv'
    BY <2>1 DEF KafkaTypeInv
  <2>3. CountInv'
    <3>1. position <= Len(log) + 1
      BY <2>1 DEF CountInv, KafkaTypeInv
    <3>2. Counted(log', first, position) = Counted(log, first, position)
      BY <1>0, <1>2, <3>1, CountedAppend DEF KafkaTypeInv
    <3> QED
      BY <2>1, <3>2 DEF CountInv, KafkaTypeInv
  <2>4. LastInv'
    <3>1. \A k \in 1 .. Len(log) : log[k] # "bye"
      BY DEF LastInv
    <3>2. ASSUME NEW k \in 1 .. Len(log'), log'[k] = "bye"
          PROVE  k = Len(log') /\ Kafka!Message = "bye"
      <4>1. k \notin 1 .. Len(log)
        BY <3>1, <3>2, <2>1
      <4>2. k = Len(log) + 1
        BY <4>1, <2>1
      <4> QED
        BY <4>2, <2>1, <3>2
    <3> QED
      BY <3>2, <1>1 DEF LastInv, Kafka!ProducerAfterSend
  <2>5. AckInv'
    <3>1. Cardinality(Messages(log')) =
             Cardinality(Messages(log)) + (IF Kafka!Message = "message" THEN 1 ELSE 0)
      BY <1>0, <1>2, MessagesAppend DEF KafkaTypeInv
    <3>2. Cardinality(Messages(log)) \in Nat
      BY MessagesFinite DEF KafkaTypeInv
    <3> QED
      BY <3>1, <3>2 DEF AckInv, KafkaTypeInv
  <2> QED
    BY <2>2, <2>3, <2>4, <2>5
<1>3. CASE log' = log /\ acked' = acked
  <2>1. KafkaTypeInv' /\ CountInv' /\ AckInv'
    BY <1>3 DEF KafkaTypeInv, CountInv, AckInv
  <2>2. LastInv'
    BY <1>1, <1>3 DEF LastInv
  <2> QED
    BY <2>1, <2>2
<1> QED
  BY <1>2, <1>3

(* The consumer comes one record further.                                  *)
LEMMA KafkaRead == ASSUME KafkaInv, Kafka!Read PROVE KafkaInv'
<1> USE DEF KafkaInv
<1>1. /\ position \in DOMAIN log /\ position \in 1 .. Len(log) /\ Len(log) \in Nat
      /\ position' = position + 1
      /\ UNCHANGED <<main, producer, log, first, acked>>
  BY DEF Kafka!Read, KafkaTypeInv
<1>2. log[position] \in {"message", "bye"}
  BY <1>1 DEF KafkaTypeInv
<1>3. first # 0 /\ first <= position
  BY <1>1 DEF CountInv, KafkaTypeInv
<1>4. consumed' = consumed + (IF log[position] = "message" THEN 1 ELSE 0)
  BY <1>2 DEF Kafka!Read, KafkaTypeInv
<1>5. Cardinality(Counted(log, first, position + 1)) =
         Cardinality(Counted(log, first, position))
            + (IF log[position] = "message" THEN 1 ELSE 0)
  BY <1>1, <1>3, CountedStep DEF KafkaTypeInv
<1>6. KafkaTypeInv'
  BY <1>1, <1>4 DEF KafkaTypeInv
<1>7. CountInv'
  <2>1. first <= position + 1 /\ position + 1 <= Len(log) + 1
    BY <1>1, <1>3 DEF KafkaTypeInv
  <2> QED
    BY <2>1, <1>1, <1>3, <1>4, <1>5 DEF CountInv
<1>8. LastInv'
  <2>1. consumer' = "stopped" => log[position] = "bye"
    BY DEF Kafka!Read
  <2> QED
    BY <2>1, <1>1, <1>3 DEF LastInv
<1> QED
  BY <1>1, <1>6, <1>7, <1>8 DEF AckInv

(* The fetcher takes the end of the log for its first offset.              *)
LEMMA KafkaReset == ASSUME KafkaInv, Kafka!ResetPosition PROVE KafkaInv'
<1> USE DEF KafkaInv, Kafka!ResetPosition
<1>1. Len(log) \in Nat
  BY DEF KafkaTypeInv
<1>2. Counted(log, first, position) = {}
  BY DEF Counted
<1>3. Counted(log, Len(log) + 1, Len(log) + 1) = {}
  BY <1>1 DEF Counted, Messages
<1>4. position' = Len(log) + 1 /\ first' = Len(log) + 1 /\ log' = log
  OBVIOUS
<1>5. consumed' = Cardinality(Counted(log', first', position'))
  BY <1>2, <1>3, <1>4 DEF CountInv
<1>6. KafkaTypeInv' /\ CountInv'
  BY <1>1, <1>4, <1>5 DEF KafkaTypeInv, CountInv
<1>7. LastInv' /\ AckInv'
  BY <1>4 DEF LastInv, AckInv
<1> QED
  BY <1>6, <1>7

(* The other steps leave the log, the offsets and the counts alone.        *)
LEMMA KafkaQuiet ==
    ASSUME KafkaInv, UNCHANGED <<log, position, first, consumed, acked>>, LastInv'
    PROVE  KafkaInv'
<1>1. KafkaTypeInv' /\ CountInv' /\ AckInv'
  BY DEF KafkaInv, KafkaTypeInv, CountInv, AckInv
<1> QED
  BY <1>1 DEF KafkaInv

LEMMA KafkaStep == KafkaInv /\ [Kafka!Next]_(Kafka!vars) => KafkaInv'
<1> SUFFICES ASSUME KafkaInv, [Kafka!Next]_(Kafka!vars) PROVE KafkaInv'
  OBVIOUS
<1>0. LastInv
  BY DEF KafkaInv
<1>1. CASE Kafka!Send
  <2>1. /\ producer = "sending" /\ producer' = Kafka!ProducerAfterSend
        /\ UNCHANGED <<main, consumer, position, first, consumed>>
    BY <1>1 DEF Kafka!Send
  <2>2. /\ log' = Append(log, Kafka!Message) \/ (log' = log /\ acked' = acked)
        /\ acked' = acked \/ (acked' = acked + 1 /\ Kafka!Message = "message")
    BY <1>1 DEF Kafka!Send
  <2> QED
    BY <2>1, <2>2, KafkaSend
<1>2. CASE Kafka!SendFails
  <2>1. /\ producer = "sending" /\ producer' = Kafka!ProducerAfterSend
        /\ UNCHANGED <<main, consumer, position, first, consumed>>
    BY <1>2 DEF Kafka!SendFails
  <2>2. /\ log' = Append(log, Kafka!Message) \/ (log' = log /\ acked' = acked)
        /\ acked' = acked \/ (acked' = acked + 1 /\ Kafka!Message = "message")
    BY <1>2 DEF Kafka!SendFails
  <2> QED
    BY <2>1, <2>2, KafkaSend
<1>3. CASE Kafka!Read
  BY <1>3, KafkaRead
<1>4. CASE Kafka!ResetPosition
  BY <1>4, KafkaReset
<1>5. CASE Kafka!CreateTopic
  <2>1. LastInv'
    BY <1>0, <1>5 DEF Kafka!CreateTopic, LastInv, Kafka!broker
  <2> QED
    BY <2>1, <1>5, KafkaQuiet DEF Kafka!CreateTopic, Kafka!broker
<1>6. CASE Kafka!Barrier
  <2>1. LastInv'
    BY <1>0, <1>6 DEF Kafka!Barrier, LastInv, Kafka!broker
  <2> QED
    BY <2>1, <1>6, KafkaQuiet DEF Kafka!Barrier, Kafka!broker
<1>7. CASE Kafka!StartProducer
  <2>1. LastInv'
    BY <1>0, <1>7 DEF Kafka!StartProducer, LastInv, Kafka!broker
  <2> QED
    BY <2>1, <1>7, KafkaQuiet DEF Kafka!StartProducer, Kafka!broker
<1>8. CASE Kafka!JoinProducer
  <2>1. LastInv'
    BY <1>0, <1>8 DEF Kafka!JoinProducer, LastInv, Kafka!broker
  <2> QED
    BY <2>1, <1>8, KafkaQuiet DEF Kafka!JoinProducer, Kafka!broker
<1>9. CASE Kafka!JoinConsumer
  <2>1. LastInv'
    BY <1>0, <1>9 DEF Kafka!JoinConsumer, LastInv, Kafka!broker
  <2> QED
    BY <2>1, <1>9, KafkaQuiet DEF Kafka!JoinConsumer, Kafka!broker
<1>10. CASE Kafka!Subscribe
  <2>1. LastInv'
    BY <1>0, <1>10 DEF Kafka!Subscribe, LastInv, Kafka!broker
  <2> QED
    BY <2>1, <1>10, KafkaQuiet DEF Kafka!Subscribe, Kafka!broker
<1>11. CASE Kafka!ReadFails
  <2>1. LastInv'
    BY <1>0, <1>11 DEF Kafka!ReadFails, LastInv, Kafka!broker
  <2> QED
    BY <2>1, <1>11, KafkaQuiet DEF Kafka!ReadFails, Kafka!broker
<1>12. CASE Kafka!ProducerDies
  <2>1. LastInv'
    BY <1>0, <1>12 DEF Kafka!ProducerDies, LastInv, Kafka!broker
  <2> QED
    BY <2>1, <1>12, KafkaQuiet DEF Kafka!ProducerDies, Kafka!broker
<1>13. CASE UNCHANGED Kafka!vars
  <2>1. LastInv'
    BY <1>0, <1>13 DEF Kafka!vars, LastInv
  <2> QED
    BY <2>1, <1>13, KafkaQuiet DEF Kafka!vars
<1> QED
  BY <1>1, <1>2, <1>3, <1>4, <1>5, <1>6, <1>7,
     <1>8, <1>9, <1>10, <1>11, <1>12, <1>13 DEF Kafka!Next

(* A consumer that "bye" has ended counted every message from its first    *)
(* offset on, and if it had that in time at least the acknowledged ones:   *)
(* what kafkaProducerConsumerHelloWorld returns, for any number of         *)
(* messages.                                                               *)
THEOREM ConsumerCountsEverything == Spec => []CountsEverything
<1>1. Init => KafkaInv
  BY KafkaInit DEF Init
<1>2. KafkaInv /\ [Next]_vars => KafkaInv'
  BY OneRuns, KafkaStep
<1>3. KafkaInv => CountsEverything
  <2> SUFFICES ASSUME KafkaInv, consumer = "stopped" PROVE CountsEverything
    BY DEF CountsEverything, Kafka!CountsEverything
  <2>0. ASSUME NEW S PROVE Kafka!Cardinality(S) = Cardinality(S)
    BY DEF Kafka!Cardinality, Cardinality
  <2>1. /\ first # 0 /\ position = Len(log) + 1 /\ first \in Nat /\ Len(log) \in Nat
        /\ DOMAIN log = 1 .. Len(log)
    BY DEF KafkaInv, LastInv, KafkaTypeInv
  <2>2. {k \in Kafka!FromFirst : log[k] = "message"} = Counted(log, first, position)
    BY <2>1 DEF Kafka!FromFirst, Counted, Messages
  <2>3. first = 1 => Counted(log, first, position) = Messages(log)
    BY <2>1 DEF Counted, Messages
  <2> QED
    BY <2>0, <2>2, <2>3
       DEF CountsEverything, Kafka!CountsEverything, KafkaInv, CountInv, AckInv
<1> QED
  BY <1>1, <1>2, <1>3, PTL DEF Spec

-----------------------------------------------------------------------------
(* jdeferred-experiment: the caller that ends is one whose promise settled *)
(* late enough.                                                            *)

(* What ties the two threads together.  A worker at the exchanger holds    *)
(* the monitor; if it came there early the caller is still registering,    *)
(* and Register needs the monitor.  Before the worker has settled nothing  *)
(* is settled, so nothing is early and nobody has ended.                   *)
Handover ==
    /\ caller = "adding" => worker = "waiting"
    /\ worker = "exchanging" => owner = "worker" /\ state = program.ends
    /\ worker = "exchanging" /\ early => caller = "registering"
    /\ worker \in {"waiting", "calculating"} => ~early /\ caller # "ended"
    /\ Jdeferred!EndsOnlyIfLate

LEMMA HandoverInit == Jdeferred!Init => Handover
  BY DEF Jdeferred!Init, Handover, Jdeferred!EndsOnlyIfLate

LEMMA HandoverStep == Handover /\ [Jdeferred!Next]_(Jdeferred!vars) => Handover'
<1> SUFFICES ASSUME Handover, [Jdeferred!Next]_(Jdeferred!vars) PROVE Handover'
  OBVIOUS
<1> USE DEF Handover, Jdeferred!EndsOnlyIfLate
<1>1. CASE Jdeferred!AddNumbers
  BY <1>1 DEF Jdeferred!AddNumbers
<1>2. CASE Jdeferred!Register
  <2>1. worker # "exchanging"
    BY <1>2 DEF Jdeferred!Register
  <2>2. caller' # "ended"
    BY <1>2 DEF Jdeferred!Register
  <2> QED
    BY <1>2, <2>1, <2>2 DEF Jdeferred!Register
<1>3. CASE Jdeferred!Settle
  <2>1. worker = "calculating" /\ caller' = caller /\ received' = received
    BY <1>3 DEF Jdeferred!Settle
  <2>2. early' => caller' = "registering"
    BY <1>3, <2>1 DEF Jdeferred!Settle
  <2>3. worker' = "exchanging" => owner' = "worker" /\ state' = program'.ends
    BY <1>3 DEF Jdeferred!Settle
  <2>4. worker' \in {"exchanging", "ended"}
    BY <1>3 DEF Jdeferred!Settle
  <2> QED
    BY <2>1, <2>2, <2>3, <2>4
<1>4. CASE Jdeferred!Exchange
  BY <1>4 DEF Jdeferred!Exchange
<1>5. CASE UNCHANGED Jdeferred!vars
  BY <1>5 DEF Jdeferred!vars
<1> QED
  BY <1>1, <1>2, <1>3, <1>4, <1>5 DEF Jdeferred!Next

(* A caller that ends has been handed its own result, by a promise that    *)
(* settled after the last callback was registered: App.main of             *)
(* jdeferred-experiment, whatever callbacks it registers.                  *)
THEOREM OnlyLateCallersEnd == Spec => []EndsOnlyIfLate
<1>1. Init => Handover
  BY HandoverInit DEF Init
<1>2. Handover /\ [Next]_vars => Handover'
  BY OneRuns, HandoverStep
<1>3. Handover => EndsOnlyIfLate
  BY DEF Handover, EndsOnlyIfLate
<1> QED
  BY <1>1, <1>2, <1>3, PTL DEF Spec

-----------------------------------------------------------------------------
(* spark-experiment: the sums the page shows.                              *)

(* What an int makes of a number differs from it by a multiple of the      *)
(* number of ints.                                                         *)
LEMMA IntsWrapAround ==
    ASSUME NEW n \in Int
    PROVE  Spark!ToInt(n) \in Int /\ (Spark!ToInt(n) - n) % (2 * Spark!Half) = 0
<1>1. Spark!Half \in Nat \ {0}
  BY ExperimentsAssumption, Zenon DEF Spark!Half
<1>2. PICK h \in Nat \ {0} : h = Spark!Half
  BY <1>1
<1>3. PICK m \in Nat \ {0} : m = 2 * h
  OBVIOUS
<1>4. PICK q \in Int, r \in Int : q = (n + h) \div m /\ r = (n + h) % m
  OBVIOUS
<1>5. n + h = (m * q) + r
  BY <1>4
<1>6. (r - h) - n = m * (0 - q)
  BY <1>5
<1>7. ASSUME NEW k \in Int PROVE (m * k) % m = 0
  OBVIOUS
<1>8. Spark!ToInt(n) = r - h
  BY <1>2, <1>3, <1>4 DEF Spark!ToInt
<1> QED
  BY <1>2, <1>3, <1>6, <1>7, <1>8

LEMMA TextsHaveValues ==
    ASSUME NEW text \in Texts \cup {[shape |-> "integer", value |-> 0]},
           text.shape \in {"integer", "integral double"}
    PROVE  text.value \in Int
<1>1. CASE text \in Texts
  BY <1>1, ExperimentsAssumption, Zenon
<1>2. CASE text = [shape |-> "integer", value |-> 0]
  BY <1>2
<1> QED
  BY <1>1, <1>2

(* What is shown is the answer to the run that was answered last.          *)
ShownIs(method) ==
    IF answered[method] = <<>> THEN shown[method] = {}
    ELSE LET run == runs[answered[method][Len(answered[method])]]
         IN  /\ run.a.value \in Int /\ run.b.value \in Int
             /\ shown[method] = {Spark!AddNumbersResponse(run.a.value, run.b.value)}

SparkTypeInv ==
    /\ fields \in Spark!Fields /\ runs \in Seq(Spark!Fields)
    /\ \A call \in inFlight : call.method \in Spark!Methods /\ call.run \in 1 .. Len(runs)
    /\ answered \in [Spark!Methods -> Seq(1 .. Len(runs))]
    /\ shown \in [Spark!Methods -> SUBSET [a : Int, b : Int, result : Int]]

SparkInv == SparkTypeInv /\ \A method \in Spark!Methods : ShownIs(method)

LEMMA SparkInit == Spark!Init => SparkInv
  BY DEF Spark!Init, SparkInv, SparkTypeInv, ShownIs, Spark!Fields, Spark!Methods,
         Spark!NothingShown

LEMMA SparkStep == SparkInv /\ [Spark!Next]_(Spark!vars) => SparkInv'
<1> SUFFICES ASSUME SparkInv, [Spark!Next]_(Spark!vars) PROVE SparkInv'
  OBVIOUS
<1>1. ASSUME NEW field \in {"a", "b"}, NEW text \in Texts, Spark!Type(field, text)
      PROVE  SparkInv'
  <2>1. fields' \in Spark!Fields
    BY <1>1 DEF SparkInv, SparkTypeInv, Spark!Type, Spark!Fields
  <2> QED
    BY <1>1, <2>1 DEF SparkInv, SparkTypeInv, ShownIs, Spark!Type
<1>2. CASE Spark!Run
  <2>1. /\ runs' \in Seq(Spark!Fields) /\ Len(runs') = Len(runs) + 1
        /\ Len(runs) \in Nat
        /\ \A i \in 1 .. Len(runs) : runs'[i] = runs[i]
    BY <1>2 DEF SparkInv, SparkTypeInv, Spark!Run
  <2>2. 1 .. Len(runs) \subseteq 1 .. Len(runs')
    BY <2>1
  <2>3. UNCHANGED <<fields, shown, answered>>
    BY <1>2 DEF Spark!Run
  <2>4. ASSUME NEW call \in inFlight'
        PROVE  call.method \in Spark!Methods /\ call.run \in 1 .. Len(runs')
    <3>1. CASE call \in inFlight
      BY <2>2, <3>1 DEF SparkInv, SparkTypeInv
    <3>2. CASE call \notin inFlight
      <4>1. \E m \in Spark!Methods : call = [method |-> m, run |-> Len(runs) + 1]
        BY <1>2, <2>4, <3>2 DEF Spark!Run
      <4> QED
        BY <4>1, <2>1
    <3> QED
      BY <3>1, <3>2
  <2>5. answered \in [Spark!Methods -> Seq(1 .. Len(runs'))]
    <3> SUFFICES ASSUME NEW method \in Spark!Methods
                 PROVE  answered[method] \in Seq(1 .. Len(runs'))
      BY DEF SparkInv, SparkTypeInv
    <3>1. answered[method] \in Seq(1 .. Len(runs))
      BY DEF SparkInv, SparkTypeInv
    <3>2. \A k \in 1 .. Len(answered[method]) : answered[method][k] \in 1 .. Len(runs')
      BY <3>1, <2>2
    <3> QED
      BY <3>1, <3>2, SeqDef
  <2>6. SparkTypeInv'
    BY <2>1, <2>3, <2>4, <2>5 DEF SparkInv, SparkTypeInv
  <2>7. ASSUME NEW method \in Spark!Methods PROVE ShownIs(method)'
    <3>1. answered[method] \in Seq(1 .. Len(runs)) /\ ShownIs(method)
      BY DEF SparkInv, SparkTypeInv
    <3>2. answered[method] # <<>> =>
             answered[method][Len(answered[method])] \in 1 .. Len(runs)
      BY <3>1
    <3> QED
      BY <3>1, <3>2, <2>1, <2>3 DEF ShownIs
  <2> QED
    BY <2>6, <2>7 DEF SparkInv
<1>3. ASSUME NEW call \in inFlight, Spark!Arrive(call)
      PROVE  SparkInv'
  <2> DEFINE m == call.method
             run == runs[call.run]
             response == Spark!AddNumbersResponse(run.a.value, run.b.value)
  <2>1. /\ m \in Spark!Methods /\ call.run \in 1 .. Len(runs) /\ run \in Spark!Fields
        /\ UNCHANGED <<fields, runs>> /\ inFlight' \subseteq inFlight
    BY <1>3 DEF SparkInv, SparkTypeInv, Spark!Arrive
  <2>2. run.a.value \in Int /\ run.b.value \in Int
    <3>1. /\ run.a \in Texts \cup {[shape |-> "integer", value |-> 0]}
          /\ run.b \in Texts \cup {[shape |-> "integer", value |-> 0]}
      BY <2>1 DEF Spark!Fields
    <3>2. /\ run.a.shape \in {"integer", "integral double"}
          /\ run.b.shape \in {"integer", "integral double"}
      BY <1>3 DEF Spark!Arrive, Spark!Asked, Spark!Reads
    <3> QED
      BY <3>1, <3>2, TextsHaveValues
  <2>3. response \in [a : Int, b : Int, result : Int]
    BY <2>2, IntsWrapAround DEF Spark!AddNumbersResponse
  <2>4. /\ shown' = [shown EXCEPT ![m] = {response}]
        /\ answered' = [answered EXCEPT ![m] = Append(answered[m], call.run)]
    BY <1>3 DEF Spark!Arrive, Spark!Asked
  <2>5. response = Spark!AddNumbersResponse(runs[call.run].a.value, runs[call.run].b.value)
    OBVIOUS
  <2> HIDE DEF response
  <2>6. SparkTypeInv'
    BY <2>1, <2>3, <2>4 DEF SparkInv, SparkTypeInv
  <2>7. ShownIs(m)'
    <3>1. answered[m] \in Seq(1 .. Len(runs))
      BY <2>1 DEF SparkInv, SparkTypeInv
    <3>2. answered'[m] = Append(answered[m], call.run) /\ shown'[m] = {response}
      BY <2>1, <2>4 DEF SparkInv, SparkTypeInv
    <3>3. answered'[m] # <<>> /\ answered'[m][Len(answered'[m])] = call.run
      BY <3>1, <3>2, <2>1
    <3> QED
      BY <2>1, <2>2, <2>5, <3>2, <3>3 DEF ShownIs
  <2>8. ASSUME NEW method \in Spark!Methods, method # m PROVE ShownIs(method)'
    <3>1. answered'[method] = answered[method] /\ shown'[method] = shown[method]
      BY <2>1, <2>4, <2>8 DEF SparkInv, SparkTypeInv
    <3> QED
      BY <3>1, <2>1 DEF SparkInv, ShownIs
  <2> QED
    BY <2>6, <2>7, <2>8 DEF SparkInv
<1>4. ASSUME NEW call \in inFlight, Spark!Fail(call)
      PROVE  SparkInv'
  BY <1>4 DEF SparkInv, SparkTypeInv, ShownIs, Spark!Fail
<1>5. CASE UNCHANGED Spark!vars
  BY <1>5 DEF SparkInv, SparkTypeInv, ShownIs, Spark!vars
<1> QED
  BY <1>1, <1>2, <1>3, <1>4, <1>5 DEF Spark!Next

(* Both results of the page are the sum of the newest run's numbers, or    *)
(* what an int of any width makes of it, once that run was answered last:  *)
(* the page of spark-experiment, for any number of runs and any inputs.    *)
THEOREM PageShowsNewestRun == Spec => []NewestRunIsShown
<1>1. Init => SparkInv
  BY SparkInit DEF Init
<1>2. SparkInv /\ [Next]_vars => SparkInv'
  BY OneRuns, SparkStep
<1>3. SparkInv => NewestRunIsShown
  <2> SUFFICES ASSUME SparkInv, \A method \in Spark!Methods : Spark!NewestShown(method)
               PROVE  /\ shown["get"] = shown["post"]
                      /\ \A response \in shown["get"] :
                           /\ response.a = Spark!Last(runs).a.value
                           /\ response.b = Spark!Last(runs).b.value
                           /\ (response.result - response.a - response.b)
                                 % (2 * Spark!Half) = 0
    BY DEF NewestRunIsShown, Spark!NewestRunIsShown
  <2> DEFINE a == Spark!Last(runs).a.value
             b == Spark!Last(runs).b.value
  <2>1. ASSUME NEW method \in Spark!Methods
        PROVE  /\ a \in Int /\ b \in Int
               /\ shown[method] = {Spark!AddNumbersResponse(a, b)}
    BY DEF Spark!NewestShown, Spark!Last, SparkInv, ShownIs
  <2>2. /\ a \in Int /\ b \in Int
        /\ shown["get"] = {Spark!AddNumbersResponse(a, b)}
        /\ shown["post"] = {Spark!AddNumbersResponse(a, b)}
    BY <2>1 DEF Spark!Methods
  <2> HIDE DEF a, b
  <2>3. PICK sum \in Int : sum = Spark!ToInt(a + b)
    BY <2>2, IntsWrapAround
  <2>4. (sum - (a + b)) % (2 * Spark!Half) = 0
    BY <2>2, <2>3, IntsWrapAround
  <2>5. sum - a - b = sum - (a + b)
    BY <2>2
  <2>6. (sum - a - b) % (2 * Spark!Half) = 0
    BY <2>4, <2>5
  <2>7. Spark!AddNumbersResponse(a, b) = [a |-> a, b |-> b, result |-> sum]
    BY <2>3 DEF Spark!AddNumbersResponse
  <2> QED
    BY <2>2, <2>6, <2>7 DEF a, b
<1> QED
  BY <1>1, <1>2, <1>3, PTL DEF Spec

-----------------------------------------------------------------------------
(* jdbc-experiment: what a call of a user service answers.                 *)

(* A number that is an int is the int it becomes.                          *)
LEMMA IntsStay ==
    \A n \in Nat : /\ Jdbc!ToInt(n) \in Int
                   /\ n < 2 ^ (IntBits - 1) => Jdbc!ToInt(n) = n
<1>1. PICK h \in Nat \ {0} : h = 2 ^ (IntBits - 1)
  BY ExperimentsAssumption, Zenon
<1>2. 2 ^ IntBits = 2 * (2 ^ (IntBits - 1))
  BY ExperimentsAssumption, Zenon
<1>3. ASSUME NEW n \in Nat, n < h
      PROVE  ((n + h) % (2 * h)) - h = n
  <2>1. n + h \in 0 .. (2 * h) - 1
    BY <1>3
  <2> QED
    BY <2>1
<1>4. \A n \in Nat : Jdbc!ToInt(n) \in Int /\ (n < h => Jdbc!ToInt(n) = n)
  BY <1>1, <1>2, <1>3 DEF Jdbc!ToInt
<1> QED
  BY <1>1, <1>4

JdbcTypeInv ==
    /\ nextId \in 0 .. MaxUsers
    /\ users = [id \in DOMAIN users |-> users[id]]
    /\ DOMAIN users \subseteq 0 .. nextId - 1
    /\ client = [c \in Clients |-> client[c]]

(* What a call that nobody has disturbed knows of the table: that it is as *)
(* it was before, or what its own statement has made of that.              *)
Knows(k, before) ==
    /\ k.at \in {"called", "counted"} => users = before
    /\ k.at = "inserted" =>
          /\ k.number \in Jdbc!Ids \ DOMAIN before
          /\ users = Jdbc!WithRow(before, k.number, k.call.name)
    /\ k.at = "updated" =>
          /\ implementation # "ApacheDBUtils"
          /\ before = [id \in DOMAIN before |-> before[id]]
          /\ users = [id \in DOMAIN before |->
                         IF id = k.call.userId THEN k.call.name ELSE before[id]]
    /\ k.at = "counted" =>
          k.number = Cardinality(DOMAIN users) /\ Jdbc!FirstRow(k.call) < k.number

UnderWay(k) ==
    /\ k = [at |-> k.at, call |-> k.call, number |-> k.number, before |-> k.before]
    /\ k.at \in {"called", "inserted", "updated", "counted"} /\ k.call \in Jdbc!Calls
    /\ \A before \in k.before : Knows(k, before)

JdbcInv == JdbcTypeInv /\ \A c \in Clients : client[c].at = "idle" \/ UnderWay(client[c])

LEMMA JdbcConstants ==
    MaxUsers \in Nat /\ Pages \subseteq Nat /\ ItemsPerPage \subseteq Nat \ {0}
  BY ExperimentsAssumption, Zenon

LEMMA FirstRowIsInt ==
    ASSUME NEW call \in Jdbc!Calls, call.op = "getUsers"
    PROVE  /\ call.page \in Nat /\ call.itemsPerPage \in Nat \ {0}
           /\ call.page * call.itemsPerPage \in Nat
           /\ Jdbc!FirstRow(call) \in Int
<1>1. call.page \in Pages /\ call.itemsPerPage \in ItemsPerPage
  BY DEF Jdbc!Calls
<1>2. call.page \in Nat /\ call.itemsPerPage \in Nat \ {0}
  BY <1>1, JdbcConstants
<1>3. call.page * call.itemsPerPage \in Nat
  BY <1>2
<1> QED
  BY <1>2, <1>3, IntsStay DEF Jdbc!FirstRow

LEMMA RowsCounted ==
    ASSUME JdbcInv
    PROVE  IsFiniteSet(DOMAIN users) /\ Cardinality(DOMAIN users) \in Nat
<1>1. nextId - 1 \in Int
  BY JdbcConstants DEF JdbcInv, JdbcTypeInv
<1>2. IsFiniteSet(0 .. nextId - 1)
  BY <1>1, FS_Interval
<1> QED
  BY <1>2, FS_Subset, FS_CardinalityType DEF JdbcInv, JdbcTypeInv

(* A step of one client leaves another where it was, and knowing no less   *)
(* than it may.                                                            *)
LEMMA OthersAnswer ==
    ASSUME JdbcInv, NEW c \in Clients, NEW d \in Clients, c # d, NEW answer,
           Jdbc!Answer(c, answer), UNCHANGED <<users, implementation>>
    PROVE  client'[d] = client[d] /\ (client'[d].at = "idle" \/ UnderWay(client[d])')
<1>1. client'[d] = client[d]
  BY DEF JdbcInv, JdbcTypeInv, Jdbc!Answer
<1>2. client[d].at = "idle" \/ UnderWay(client[d])
  BY DEF JdbcInv
<1> QED
  BY <1>1, <1>2 DEF UnderWay, Knows

LEMMA OthersDisturbed ==
    ASSUME JdbcInv, NEW c \in Clients, NEW d \in Clients, c # d, NEW table, NEW after,
           Jdbc!Disturb(table, c, after), UNCHANGED implementation
    PROVE  client'[d].at = client[d].at /\ (client'[d].at = "idle" \/ UnderWay(client[d])')
<1>0. client[d].at = "idle" \/ UnderWay(client[d])
  BY DEF JdbcInv
<1>1. CASE client[d].at = "idle" \/ table = users
  <2>1. client'[d] = client[d] /\ (client[d].at = "idle" \/ users' = users)
    BY <1>1 DEF Jdbc!Disturb
  <2> QED
    BY <2>1, <1>0 DEF UnderWay, Knows
<1>2. CASE ~(client[d].at = "idle" \/ table = users)
  <2>1. client'[d] = [client[d] EXCEPT !.before = {}]
    BY <1>2 DEF Jdbc!Disturb
  <2>2. UnderWay(client[d])
    BY <1>0, <1>2
  <2>3. client'[d] = [at |-> client[d].at, call |-> client[d].call,
                      number |-> client[d].number, before |-> {}]
    BY <2>1, <2>2 DEF UnderWay
  <2> QED
    BY <2>2, <2>3 DEF UnderWay
<1> QED
  BY <1>1, <1>2

LEMMA JdbcInit == Jdbc!Init => JdbcInv
<1> SUFFICES ASSUME Jdbc!Init PROVE JdbcInv
  OBVIOUS
<1>1. users = <<>> /\ nextId = 0 /\ client = [c \in Clients |-> Jdbc!Idle(Jdbc!Nothing)]
  BY DEF Jdbc!Init
<1>2. \A c \in Clients : client[c].at = "idle"
  BY <1>1 DEF Jdbc!Idle
<1>3. client = [c \in Clients |-> client[c]]
  BY <1>1
<1>4. users = [id \in DOMAIN users |-> users[id]] /\ DOMAIN users = {}
  BY <1>1
<1> QED
  BY <1>1, <1>2, <1>3, <1>4, JdbcConstants DEF JdbcInv, JdbcTypeInv

(* A call that returns, or that goes on with what it has just seen, leaves *)
(* the others to what they know.                                           *)
LEMMA AnswerKeeps ==
    ASSUME JdbcInv, NEW c \in Clients, NEW answer, Jdbc!Answer(c, answer),
           UNCHANGED <<users, nextId, implementation>>
    PROVE  JdbcInv'
<1>1. client' = [d \in Clients |-> client'[d]] /\ client'[c].at = "idle"
  BY DEF JdbcInv, JdbcTypeInv, Jdbc!Answer, Jdbc!Idle
<1>2. \A d \in Clients : d # c => client'[d].at = "idle" \/ UnderWay(client[d])'
  BY OthersAnswer
<1> QED
  BY <1>1, <1>2 DEF JdbcInv, JdbcTypeInv

LEMMA DisturbKeeps ==
    ASSUME JdbcInv, NEW c \in Clients, NEW table, NEW after,
           Jdbc!Disturb(table, c, after), UNCHANGED implementation,
           nextId' \in 0 .. MaxUsers,
           table = [id \in DOMAIN table |-> table[id]],
           DOMAIN table \subseteq 0 .. nextId' - 1,
           client'[c].at = "idle" \/ UnderWay(client[c])'
    PROVE  JdbcInv'
<1>1. client' = [d \in Clients |-> client'[d]] /\ users' = table
  BY DEF JdbcInv, JdbcTypeInv, Jdbc!Disturb
<1>2. \A d \in Clients : d # c => client'[d].at = "idle" \/ UnderWay(client[d])'
  BY OthersDisturbed
<1> QED
  BY <1>1, <1>2 DEF JdbcInv, JdbcTypeInv

(* The state of a call, field by field.                                    *)
LEMMA AtFacts ==
    ASSUME JdbcInv, NEW c \in Clients, NEW at, NEW op, Jdbc!At(c, at, op), at # "idle"
    PROVE  UnderWay(client[c]) /\ client[c].at = at /\ client[c].call.op = op
  BY DEF JdbcInv, Jdbc!At

(* What a client that has its answer holds.                                *)
LEMMA Answered ==
    ASSUME JdbcInv, NEW c \in Clients, NEW answer, Jdbc!Answer(c, answer)
    PROVE  client'[c].answer = answer
<1>1. client' = [client EXCEPT ![c] = Jdbc!Idle(answer)]
  BY DEF Jdbc!Answer
<1>2. client'[c] = Jdbc!Idle(answer)
  BY <1>1 DEF JdbcInv, JdbcTypeInv
<1> QED
  BY <1>2 DEF Jdbc!Idle

LEMMA CallKeeps ==
    ASSUME JdbcInv, NEW c \in Clients, NEW call \in Jdbc!Calls, Jdbc!Call(c, call)
    PROVE  JdbcInv'
<1> DEFINE k == [at |-> "called", call |-> call, number |-> 0, before |-> {users}]
<1>1. client' = [client EXCEPT ![c] = k] /\ UNCHANGED <<implementation, users, nextId>>
  BY DEF Jdbc!Call
<1>2. client'[c] = k /\ client' = [d \in Clients |-> client'[d]]
  BY <1>1 DEF JdbcInv, JdbcTypeInv
<1>3. UnderWay(client[c])'
  BY <1>1, <1>2 DEF UnderWay, Knows
<1>4. ASSUME NEW d \in Clients, d # c
      PROVE  client'[d].at = "idle" \/ UnderWay(client[d])'
  <2>1. client'[d] = client[d]
    BY <1>1, <1>4 DEF JdbcInv, JdbcTypeInv
  <2>2. client[d].at = "idle" \/ UnderWay(client[d])
    BY DEF JdbcInv
  <2> QED
    BY <1>1, <2>1, <2>2 DEF UnderWay, Knows
<1> QED
  BY <1>1, <1>2, <1>3, <1>4 DEF JdbcInv, JdbcTypeInv

LEMMA InsertKeeps == ASSUME JdbcInv, NEW c \in Clients, Jdbc!Insert(c) PROVE JdbcInv'
<1> DEFINE name == client[c].call.name
           table == Jdbc!WithRow(users, nextId, name)
           after == IF implementation = "PureJDBC"
                    THEN Jdbc!Idle(Jdbc!UserDTO(nextId, name))
                    ELSE [client[c] EXCEPT !.at = "inserted", !.number = nextId]
<1>1. /\ Jdbc!At(c, "called", "createUser") /\ nextId < MaxUsers /\ nextId' = nextId + 1
      /\ Jdbc!Disturb(table, c, after) /\ UNCHANGED implementation
  BY DEF Jdbc!Insert
<1>2. UnderWay(client[c]) /\ client[c].at = "called"
  BY <1>1, AtFacts
<1>3. nextId \in Nat /\ nextId' \in 0 .. MaxUsers /\ nextId \notin DOMAIN users
  BY <1>1, JdbcConstants DEF JdbcInv, JdbcTypeInv
<1>4. /\ table = [id \in DOMAIN table |-> table[id]]
      /\ DOMAIN table = DOMAIN users \cup {nextId}
  BY DEF Jdbc!WithRow
<1>5. DOMAIN table \subseteq 0 .. nextId' - 1
  BY <1>1, <1>3, <1>4 DEF JdbcInv, JdbcTypeInv
<1>6. users' = table /\ client'[c] = after
  BY <1>1 DEF Jdbc!Disturb
<1>7. client'[c].at = "idle" \/ UnderWay(client[c])'
  <2>1. CASE implementation = "PureJDBC"
    BY <1>6, <2>1 DEF Jdbc!Idle
  <2>2. CASE implementation # "PureJDBC"
    <3>1. client'[c] =
                  [at |-> "inserted", call |-> client[c].call, number |-> nextId,
                   before |-> client[c].before]
      BY <1>2, <1>6, <2>2 DEF UnderWay
    <3>2. nextId \in Jdbc!Ids
      BY <1>1, <1>3, JdbcConstants DEF Jdbc!Ids
    <3>3. \A before \in client[c].before : users = before
      BY <1>2 DEF UnderWay, Knows
    <3> QED
      BY <3>1, <3>2, <3>3, <1>2, <1>3, <1>6 DEF UnderWay, Knows
  <2> QED
    BY <2>1, <2>2
<1> HIDE DEF after, table
<1> QED
  BY <1>1, <1>3, <1>4, <1>5, <1>7, DisturbKeeps

LEMMA UpdateKeeps == ASSUME JdbcInv, NEW c \in Clients, Jdbc!Update(c) PROVE JdbcInv'
<1> DEFINE call == client[c].call
           rows == DOMAIN users \cap {call.userId}
           table == [id \in DOMAIN users |-> IF id \in rows THEN call.name ELSE users[id]]
           after == CASE implementation = "Dalesbred" -> [client[c] EXCEPT !.at = "updated"]
                      [] implementation # "Dalesbred" /\ rows = {} -> Jdbc!Idle(Jdbc!Exception)
                      [] OTHER -> Jdbc!Idle(Jdbc!UserDTO(call.userId, call.name))
<1>1. /\ Jdbc!At(c, "called", "updateUser") /\ implementation # "ApacheDBUtils"
      /\ Jdbc!Disturb(table, c, after) /\ UNCHANGED <<implementation, nextId>>
  BY DEF Jdbc!Update
<1>2. UnderWay(client[c]) /\ client[c].at = "called"
  BY <1>1, AtFacts
<1>3. /\ table = [id \in DOMAIN table |-> table[id]] /\ DOMAIN table = DOMAIN users
      /\ users' = table /\ client'[c] = after
  BY <1>1 DEF Jdbc!Disturb
<1>4. nextId' \in 0 .. MaxUsers /\ DOMAIN table \subseteq 0 .. nextId' - 1
  BY <1>1, <1>3 DEF JdbcInv, JdbcTypeInv
<1>5. client'[c].at = "idle" \/ UnderWay(client[c])'
  <2>1. CASE implementation # "Dalesbred"
    BY <1>3, <2>1 DEF Jdbc!Idle
  <2>2. CASE implementation = "Dalesbred"
    <3>1. client'[c] =
                  [at |-> "updated", call |-> call, number |-> client[c].number,
                   before |-> client[c].before]
      <4>1. after = [client[c] EXCEPT !.at = "updated"]
        BY <2>2
      <4> QED
        BY <4>1, <1>2, <1>3 DEF UnderWay
    <3>2. \A before \in client[c].before : users = before
      BY <1>2 DEF UnderWay, Knows
    <3>3. users = [id \in DOMAIN users |-> users[id]]
      BY DEF JdbcInv, JdbcTypeInv
    <3>4. users' = [id \in DOMAIN users |->
                       IF id = call.userId THEN call.name ELSE users[id]]
      BY <1>3
    <3> QED
      BY <3>1, <3>2, <3>3, <3>4, <1>1, <1>2 DEF UnderWay, Knows
  <2> QED
    BY <2>1, <2>2
<1> HIDE DEF after, table
<1> QED
  BY <1>1, <1>3, <1>4, <1>5, DisturbKeeps

LEMMA DeleteKeeps == ASSUME JdbcInv, NEW c \in Clients, Jdbc!Delete(c) PROVE JdbcInv'
<1> DEFINE id == client[c].call.userId
           table == [i \in DOMAIN users \ {id} |-> users[i]]
           after == Jdbc!Idle(IF implementation = "PureJDBC" /\ id \notin DOMAIN users
                              THEN Jdbc!Exception ELSE Jdbc!Nothing)
<1>1. Jdbc!Disturb(table, c, after) /\ UNCHANGED <<implementation, nextId>>
  BY DEF Jdbc!Delete
<1>2. /\ table = [i \in DOMAIN table |-> table[i]] /\ DOMAIN table \subseteq DOMAIN users
      /\ client'[c].at = "idle"
  BY <1>1 DEF Jdbc!Disturb, Jdbc!Idle
<1>3. nextId' \in 0 .. MaxUsers /\ DOMAIN table \subseteq 0 .. nextId' - 1
  BY <1>1, <1>2 DEF JdbcInv, JdbcTypeInv
<1> HIDE DEF after, table
<1> QED
  BY <1>1, <1>2, <1>3, DisturbKeeps

LEMMA CountKeeps == ASSUME JdbcInv, NEW c \in Clients, Jdbc!Count(c) PROVE JdbcInv'
<1> DEFINE rowCount == Jdbc!Cardinality(DOMAIN users)
<1>0. Jdbc!At(c, "called", "getUsers") /\ UNCHANGED <<users, nextId, implementation>>
  BY DEF Jdbc!Count
<1>1. CASE rowCount <= Jdbc!FirstRow(client[c].call)
  BY <1>0, <1>1, AnswerKeeps DEF Jdbc!Count
<1>2. CASE ~(rowCount <= Jdbc!FirstRow(client[c].call))
  <2>1. client' = [client EXCEPT ![c].at = "counted", ![c].number = rowCount]
    BY <1>2 DEF Jdbc!Count, Jdbc!GoOn
  <2>2. UnderWay(client[c]) /\ client[c].at = "called"
    BY <1>0, AtFacts
  <2>3. client'[c] = [at |-> "counted", call |-> client[c].call, number |-> rowCount,
                      before |-> client[c].before]
    BY <2>1, <2>2 DEF JdbcInv, JdbcTypeInv, UnderWay
  <2>4. \A before \in client[c].before : users = before
    BY <2>2 DEF UnderWay, Knows
  <2>5. rowCount = Cardinality(DOMAIN users) /\ rowCount \in Nat
    BY RowsCounted DEF Jdbc!Cardinality, Cardinality
  <2>9. Jdbc!FirstRow(client[c].call) < rowCount
    BY <1>0, <1>2, <2>2, <2>5, AtFacts, FirstRowIsInt DEF UnderWay
  <2> HIDE DEF rowCount
  <2>6. UnderWay(client[c])'
    BY <1>0, <2>9, <2>2, <2>3, <2>4, <2>5 DEF UnderWay, Knows
  <2>7. client' = [d \in Clients |-> client'[d]]
    BY <2>1 DEF JdbcInv, JdbcTypeInv
  <2>8. ASSUME NEW d \in Clients, d # c
        PROVE  client'[d].at = "idle" \/ UnderWay(client[d])'
    <3>1. client'[d] = client[d]
      BY <2>1, <2>8 DEF JdbcInv, JdbcTypeInv
    <3> QED
      BY <1>0, <3>1 DEF JdbcInv, UnderWay, Knows
  <2> QED
    BY <1>0, <2>6, <2>7, <2>8 DEF JdbcInv, JdbcTypeInv
<1> QED
  BY <1>1, <1>2

LEMMA JdbcStep == JdbcInv /\ [Jdbc!Next]_(Jdbc!vars) => JdbcInv'
<1> SUFFICES ASSUME JdbcInv, [Jdbc!Next]_(Jdbc!vars) PROVE JdbcInv'
  OBVIOUS
<1>1. CASE UNCHANGED Jdbc!vars
  BY <1>1 DEF Jdbc!vars, JdbcInv, JdbcTypeInv, UnderWay, Knows
<1>2. ASSUME NEW c \in Clients, NEW answer, Jdbc!Answer(c, answer),
             UNCHANGED <<implementation, users, nextId>>
      PROVE  JdbcInv'
  BY <1>2, AnswerKeeps
<1>3. ASSUME NEW c \in Clients,
             \/ Jdbc!ReadInserted(c) \/ Jdbc!GetUser(c) \/ Jdbc!RefuseUpdate(c)
             \/ Jdbc!ReadUpdated(c) \/ Jdbc!GetAllUsers(c) \/ Jdbc!ReadPage(c)
             \/ Jdbc!StatementFails(c)
      PROVE  JdbcInv'
  BY <1>2, <1>3
     DEF Jdbc!ReadInserted, Jdbc!GetUser, Jdbc!RefuseUpdate, Jdbc!ReadUpdated,
         Jdbc!GetAllUsers, Jdbc!ReadPage, Jdbc!StatementFails
<1> QED
  BY <1>1, <1>3, CallKeeps, InsertKeeps, UpdateKeeps, DeleteKeeps, CountKeeps
     DEF Jdbc!Next

(* Only a step of the client itself makes its call return.                 *)
LEMMA ReturnsItself ==
    ASSUME JdbcInv, [Jdbc!Next]_(Jdbc!vars), NEW c \in Clients, Jdbc!Returns(c)
    PROVE  \/ Jdbc!Insert(c) \/ Jdbc!ReadInserted(c) \/ Jdbc!GetUser(c)
           \/ Jdbc!RefuseUpdate(c) \/ Jdbc!Update(c) \/ Jdbc!ReadUpdated(c)
           \/ Jdbc!Delete(c) \/ Jdbc!GetAllUsers(c) \/ Jdbc!Count(c)
           \/ Jdbc!ReadPage(c) \/ Jdbc!StatementFails(c)
<1>1. ~UNCHANGED Jdbc!vars
  BY DEF Jdbc!vars, Jdbc!Returns
<1>2. ASSUME NEW d \in Clients, NEW call \in Jdbc!Calls, Jdbc!Call(d, call)
      PROVE  FALSE
  BY <1>2 DEF Jdbc!Call, Jdbc!Returns, JdbcInv, JdbcTypeInv
<1>3. ASSUME NEW d \in Clients, d # c, NEW answer, Jdbc!Answer(d, answer)
      PROVE  FALSE
  BY <1>3 DEF Jdbc!Answer, Jdbc!Returns, JdbcInv, JdbcTypeInv
<1>4. ASSUME NEW d \in Clients, d # c, NEW table, NEW after,
             Jdbc!Disturb(table, d, after), UNCHANGED implementation
      PROVE  FALSE
  BY <1>4, OthersDisturbed DEF Jdbc!Returns
<1>5. ASSUME NEW d \in Clients, d # c, NEW at, NEW number, Jdbc!GoOn(d, at, number)
      PROVE  FALSE
  <2>1. client'[c] = client[c]
    BY <1>5 DEF Jdbc!GoOn, JdbcInv, JdbcTypeInv
  <2> QED
    BY <2>1 DEF Jdbc!Returns
<1>6. PICK d \in Clients :
         \/ Jdbc!Insert(d) \/ Jdbc!ReadInserted(d) \/ Jdbc!GetUser(d)
         \/ Jdbc!RefuseUpdate(d) \/ Jdbc!Update(d) \/ Jdbc!ReadUpdated(d)
         \/ Jdbc!Delete(d) \/ Jdbc!GetAllUsers(d) \/ Jdbc!Count(d)
         \/ Jdbc!ReadPage(d) \/ Jdbc!StatementFails(d)
  BY <1>1, <1>2 DEF Jdbc!Next
<1>7. d = c
  <2> SUFFICES ASSUME d # c PROVE FALSE
    OBVIOUS
  <2>1. CASE Jdbc!Insert(d)
    BY <2>1, <1>4 DEF Jdbc!Insert
  <2>2. CASE Jdbc!Update(d)
    BY <2>2, <1>4 DEF Jdbc!Update
  <2>3. CASE Jdbc!Delete(d)
    BY <2>3, <1>4 DEF Jdbc!Delete
  <2>4. CASE Jdbc!Count(d)
    BY <2>4, <1>3, <1>5 DEF Jdbc!Count
  <2>5. CASE \/ Jdbc!ReadInserted(d) \/ Jdbc!GetUser(d) \/ Jdbc!RefuseUpdate(d)
             \/ Jdbc!ReadUpdated(d) \/ Jdbc!GetAllUsers(d) \/ Jdbc!ReadPage(d)
             \/ Jdbc!StatementFails(d)
    BY <2>5, <1>3
       DEF Jdbc!ReadInserted, Jdbc!GetUser, Jdbc!RefuseUpdate, Jdbc!ReadUpdated,
           Jdbc!GetAllUsers, Jdbc!ReadPage, Jdbc!StatementFails
  <2> QED
    BY <1>6, <2>1, <2>2, <2>3, <2>4, <2>5
<1> QED
  BY <1>6, <1>7

(* The id a create has inserted under is one of those the identity column  *)
(* has given, nobody else has it, and no call that is over had it.         *)
Owns(c) ==
    /\ client[c].call.op = "createUser"
    /\ client[c].number \in 0 .. nextId - 1 /\ client[c].number \notin settled
    /\ \A d \in Clients \ {c} :
          client[d].at = "inserted" => client[d].number # client[c].number
CreatesInv ==
    /\ settled \subseteq 0 .. nextId - 1
    /\ \A c \in Clients : client[c].at = "inserted" => Owns(c)

(* What the step of a client can be, as far as its createUser goes: the    *)
(* insertion, which takes the next id; the read, which is of that id; or   *)
(* something that neither creates nor answers with a user it has created.  *)
Inserts(c) ==
    /\ client[c].call.op = "createUser" /\ client[c].at = "called"
    /\ nextId' = nextId + 1 /\ nextId < MaxUsers
    /\ \/ /\ client'[c].at = "inserted" /\ client'[c].number = nextId
          /\ client'[c].call = client[c].call
       \/ /\ client'[c].at = "idle" /\ client'[c].answer.is = "user"
          /\ client'[c].answer.userId = nextId
Ends(c) ==
    /\ nextId' = nextId
    /\ client[c].at = "inserted" /\ client'[c].at = "idle"
    /\ client'[c].answer.is = "user" => client'[c].answer.userId = client[c].number
Passes(c) ==
    /\ nextId' = nextId
    /\ client[c].at # "inserted" /\ client'[c].at # "inserted"
    /\ Jdbc!Creates(c) => client'[c].answer.is # "user"

OthersStay(c) ==
    \A d \in Clients \ {c} :
        /\ client'[d].at = client[d].at
        /\ client[d].at = "inserted" =>
              client'[d].number = client[d].number /\ client'[d].call = client[d].call

LEMMA AnswerStays ==
    ASSUME JdbcInv, NEW c \in Clients, NEW answer, Jdbc!Answer(c, answer)
    PROVE  OthersStay(c) /\ client'[c].at = "idle" /\ client'[c].answer = answer
<1>1. client' = [client EXCEPT ![c] = Jdbc!Idle(answer)]
  BY DEF Jdbc!Answer
<1>2. client'[c] = Jdbc!Idle(answer) /\ \A d \in Clients \ {c} : client'[d] = client[d]
  BY <1>1 DEF JdbcInv, JdbcTypeInv
<1> QED
  BY <1>2 DEF Jdbc!Idle, OthersStay

LEMMA DisturbStays ==
    ASSUME JdbcInv, NEW c \in Clients, NEW table, NEW after, Jdbc!Disturb(table, c, after)
    PROVE  OthersStay(c) /\ client'[c] = after
<1>1. client'[c] = after
  BY DEF Jdbc!Disturb
<1>2. ASSUME NEW d \in Clients \ {c}
      PROVE  /\ client'[d].at = client[d].at
             /\ client[d].at = "inserted" =>
                   client'[d].number = client[d].number /\ client'[d].call = client[d].call
  <2>1. CASE client[d].at = "idle" \/ table = users
    BY <2>1 DEF Jdbc!Disturb
  <2>2. CASE ~(client[d].at = "idle" \/ table = users)
    <3>1. client'[d] = [client[d] EXCEPT !.before = {}]
      BY <2>2 DEF Jdbc!Disturb
    <3>2. client[d] = [at |-> client[d].at, call |-> client[d].call,
                       number |-> client[d].number, before |-> client[d].before]
      BY <2>2 DEF JdbcInv, UnderWay
    <3> QED
      BY <3>1, <3>2
  <2> QED
    BY <2>1, <2>2
<1> QED
  BY <1>1, <1>2 DEF OthersStay

LEMMA JdbcKinds ==
    ASSUME JdbcInv, Jdbc!Next
    PROVE  \E c \in Clients : OthersStay(c) /\ (Inserts(c) \/ Ends(c) \/ Passes(c))
<1>1. ASSUME NEW c \in Clients, NEW call \in Jdbc!Calls, Jdbc!Call(c, call)
      PROVE  OthersStay(c) /\ Passes(c)
  <2> DEFINE k == [at |-> "called", call |-> call, number |-> 0, before |-> {users}]
  <2>1. /\ client' = [client EXCEPT ![c] = k] /\ nextId' = nextId
        /\ client[c].at = "idle"
    BY <1>1 DEF Jdbc!Call
  <2>2. client'[c] = k /\ \A d \in Clients \ {c} : client'[d] = client[d]
    BY <2>1 DEF JdbcInv, JdbcTypeInv
  <2>3. client'[c].at = "called"
    BY <2>2
  <2> QED
    BY <2>1, <2>2, <2>3 DEF OthersStay, Passes, Jdbc!Creates, Jdbc!Returns
<1>2. ASSUME NEW c \in Clients, Jdbc!Insert(c)
      PROVE  OthersStay(c) /\ Inserts(c)
  <2> DEFINE name == client[c].call.name
             after == IF implementation = "PureJDBC"
                      THEN Jdbc!Idle(Jdbc!UserDTO(nextId, name))
                      ELSE [client[c] EXCEPT !.at = "inserted", !.number = nextId]
  <2>1. /\ Jdbc!At(c, "called", "createUser") /\ nextId' = nextId + 1 /\ nextId < MaxUsers
        /\ Jdbc!Disturb(Jdbc!WithRow(users, nextId, name), c, after)
    BY <1>2 DEF Jdbc!Insert
  <2>2. OthersStay(c) /\ client'[c] = after
    BY <2>1, DisturbStays
  <2>3. UnderWay(client[c]) /\ client[c].at = "called" /\ client[c].call.op = "createUser"
    BY <2>1, AtFacts
  <2>4. CASE implementation = "PureJDBC"
    BY <2>1, <2>2, <2>3, <2>4 DEF Inserts, Jdbc!Idle, Jdbc!UserDTO
  <2>5. CASE implementation # "PureJDBC"
    <3>1. client'[c] = [at |-> "inserted", call |-> client[c].call, number |-> nextId,
                        before |-> client[c].before]
      BY <2>2, <2>3, <2>5 DEF UnderWay
    <3> QED
      BY <2>1, <2>2, <2>3, <3>1 DEF Inserts
  <2> QED
    BY <2>4, <2>5
<1>3. ASSUME NEW c \in Clients, Jdbc!ReadInserted(c)
      PROVE  OthersStay(c) /\ Ends(c)
  <2>1. /\ client[c].at = "inserted" /\ nextId' = nextId
        /\ Jdbc!Answer(c, Jdbc!Found(users, client[c].number))
    BY <1>3 DEF Jdbc!ReadInserted, Jdbc!At
  <2> QED
    BY <2>1, AnswerStays DEF Ends, Jdbc!Found, Jdbc!UserDTO, Jdbc!Exception
<1>4. ASSUME NEW c \in Clients, Jdbc!StatementFails(c)
      PROVE  OthersStay(c) /\ (Ends(c) \/ Passes(c))
  <2>1. Jdbc!Answer(c, Jdbc!SQLException) /\ nextId' = nextId
    BY <1>4 DEF Jdbc!StatementFails
  <2> QED
    BY <2>1, AnswerStays DEF Ends, Passes, Jdbc!SQLException
<1>5. ASSUME NEW c \in Clients, NEW op, NEW at, Jdbc!At(c, at, op),
             at # "idle", at # "inserted", op # "createUser"
      PROVE  client[c].at = at /\ ~Jdbc!Creates(c)
  BY <1>5 DEF Jdbc!At, Jdbc!Creates
<1>6. ASSUME NEW c \in Clients, NEW op, NEW at, NEW answer, Jdbc!At(c, at, op),
             at # "idle", at # "inserted", op # "createUser", Jdbc!Answer(c, answer),
             nextId' = nextId
      PROVE  OthersStay(c) /\ Passes(c)
  BY <1>5, <1>6, AnswerStays DEF Passes
<1>7. ASSUME NEW c \in Clients,
             \/ Jdbc!GetUser(c) \/ Jdbc!RefuseUpdate(c) \/ Jdbc!ReadUpdated(c)
             \/ Jdbc!GetAllUsers(c) \/ Jdbc!ReadPage(c)
      PROVE  OthersStay(c) /\ Passes(c)
  BY <1>6, <1>7 DEF Jdbc!GetUser, Jdbc!RefuseUpdate, Jdbc!Refused, Jdbc!ReadUpdated,
                    Jdbc!GetAllUsers, Jdbc!ReadPage
<1>8. ASSUME NEW c \in Clients, Jdbc!Update(c)
      PROVE  OthersStay(c) /\ Passes(c)
  <2> DEFINE call == client[c].call
             rows == DOMAIN users \cap {call.userId}
             table == [id \in DOMAIN users |-> IF id \in rows THEN call.name ELSE users[id]]
             after == CASE implementation = "Dalesbred" -> [client[c] EXCEPT !.at = "updated"]
                        [] implementation # "Dalesbred" /\ rows = {} -> Jdbc!Idle(Jdbc!Exception)
                        [] OTHER -> Jdbc!Idle(Jdbc!UserDTO(call.userId, call.name))
  <2>1. /\ Jdbc!At(c, "called", "updateUser") /\ nextId' = nextId
        /\ Jdbc!Disturb(table, c, after)
    BY <1>8 DEF Jdbc!Update
  <2>2. OthersStay(c) /\ client'[c] = after
    BY <2>1, DisturbStays
  <2>3. UnderWay(client[c]) /\ client[c].at = "called" /\ ~Jdbc!Creates(c)
    BY <2>1, <1>5, AtFacts
  <2>4. client'[c].at # "inserted"
    BY <2>2, <2>3 DEF Jdbc!Idle, UnderWay
  <2> QED
    BY <2>1, <2>2, <2>3, <2>4 DEF Passes
<1>9. ASSUME NEW c \in Clients, Jdbc!Delete(c)
      PROVE  OthersStay(c) /\ Passes(c)
  <2>1. PICK table, answer :
           /\ Jdbc!At(c, "called", "deleteUser") /\ nextId' = nextId
           /\ Jdbc!Disturb(table, c, Jdbc!Idle(answer))
    BY <1>9 DEF Jdbc!Delete
  <2>2. OthersStay(c) /\ client'[c] = Jdbc!Idle(answer)
    BY <2>1, DisturbStays
  <2> QED
    BY <2>1, <2>2, <1>5 DEF Passes, Jdbc!Idle
<1>10. ASSUME NEW c \in Clients, Jdbc!Count(c)
       PROVE  OthersStay(c) /\ Passes(c)
  <2>1. Jdbc!At(c, "called", "getUsers") /\ nextId' = nextId
    BY <1>10 DEF Jdbc!Count
  <2>2. CASE \E answer : Jdbc!Answer(c, answer)
    BY <2>1, <2>2, <1>6
  <2>3. CASE \E number : Jdbc!GoOn(c, "counted", number)
    <3>1. PICK number : client' = [client EXCEPT ![c].at = "counted", ![c].number = number]
      BY <2>3 DEF Jdbc!GoOn
    <3>2. UnderWay(client[c])
      BY <2>1, AtFacts
    <3>3. /\ client'[c] = [at |-> "counted", call |-> client[c].call, number |-> number,
                           before |-> client[c].before]
          /\ \A d \in Clients \ {c} : client'[d] = client[d]
      BY <3>1, <3>2 DEF JdbcInv, JdbcTypeInv, UnderWay
    <3> QED
      BY <2>1, <3>3, <1>5 DEF Passes, OthersStay
  <2> QED
    BY <1>10, <2>2, <2>3 DEF Jdbc!Count
<1> QED
  BY <1>1, <1>2, <1>3, <1>4, <1>7, <1>8, <1>9, <1>10 DEF Jdbc!Next

(* Of the calls of createUser only that of c ends, if any does.            *)
LEMMA OneSettles ==
    ASSUME Jdbc!Next, NEW c \in Clients, OthersStay(c)
    PROVE  settled' = settled \cup Jdbc!Settles(c)
<1>1. \A d \in Clients \ {c} : ~Jdbc!Creates(d)
  BY DEF OthersStay, Jdbc!Creates, Jdbc!Returns
<1>2. \A d \in Clients \ {c} : Jdbc!Settles(d) = {}
  BY <1>1 DEF Jdbc!Settles
<1>3. UNION {Jdbc!Settles(d) : d \in Clients} = Jdbc!Settles(c)
  BY <1>2
<1>4. settled' = settled \cup UNION {Jdbc!Settles(d) : d \in Clients}
  BY DEF Jdbc!Next
<1> QED
  BY <1>3, <1>4

LEMMA CreatesInvIs ==
    ASSUME settled' \subseteq 0 .. nextId' - 1,
           \A c \in Clients : client'[c].at = "inserted" => Owns(c)'
    PROVE  CreatesInv'
  BY DEF CreatesInv

LEMMA CreatesStep ==
    ASSUME JdbcInv, CreatesInv, [Jdbc!Next]_(Jdbc!vars)
    PROVE  CreatesInv'
<1>1. CASE UNCHANGED Jdbc!vars
  BY <1>1 DEF Jdbc!vars, CreatesInv, Owns
<1>2. ASSUME NEW c \in Clients, Jdbc!Next, OthersStay(c), Inserts(c) \/ Ends(c) \/ Passes(c)
      PROVE  CreatesInv'
  <2>1. nextId \in Nat /\ nextId' \in Nat /\ nextId <= nextId'
    BY <1>2, JdbcConstants DEF JdbcInv, JdbcTypeInv, Inserts, Ends, Passes
  <2>2. settled' = settled \cup Jdbc!Settles(c)
    BY <1>2, OneSettles
  <2>3. CASE Inserts(c)
    <3>1. Jdbc!Settles(c) \subseteq {nextId}
      BY <2>3 DEF Jdbc!Settles, Jdbc!Creates, Jdbc!Returns, Inserts
    <3>2. client'[c].at = "inserted" => Jdbc!Settles(c) = {}
      BY <2>3 DEF Jdbc!Settles, Inserts, Jdbc!Creates, Jdbc!Returns
    <3>3. nextId' = nextId + 1 /\ nextId \notin settled
      BY <2>1, <2>3 DEF Inserts, CreatesInv
    <3>4. \A d \in Clients \ {c} : client'[d].at = "inserted" => Owns(d)
      BY <1>2 DEF CreatesInv, OthersStay, Owns
    <3>5. \A d \in Clients \ {c} : client'[d].at = "inserted" =>
             client'[d].number = client[d].number /\ client'[d].call = client[d].call
      BY <1>2 DEF OthersStay
    <3>6. settled' \subseteq 0 .. nextId' - 1
      <4>1. settled' \subseteq settled \cup {nextId} /\ settled \subseteq 0 .. nextId - 1
        BY <2>2, <3>1 DEF CreatesInv
      <4>2. 0 .. nextId - 1 \subseteq 0 .. nextId' - 1 /\ nextId \in 0 .. nextId' - 1
        BY <2>1, <3>3
      <4> QED
        BY <4>1, <4>2, Zenon
    <3>7. ASSUME client'[c].at = "inserted"
          PROVE  Owns(c)'
      <4>1. client'[c].number = nextId /\ client'[c].call.op = "createUser"
        BY <3>7, <2>3 DEF Inserts
      <4>2. settled' = settled
        BY <3>2, <3>7, <2>2
      <4>3. \A d \in Clients \ {c} : client'[d].at = "inserted" => client'[d].number # nextId
        BY <2>1, <3>4, <3>5 DEF Owns
      <4> QED
        BY <2>1, <3>3, <4>1, <4>2, <4>3 DEF Owns
    <3>8. ASSUME NEW d \in Clients \ {c}, client'[d].at = "inserted"
          PROVE  Owns(d)'
      <4>1. Owns(d) /\ client'[d].number = client[d].number /\ client'[d].call = client[d].call
        BY <3>4, <3>5, <3>8
      <4>2. client'[d].number # nextId /\ client'[d].number \in 0 .. nextId' - 1
        BY <2>1, <3>3, <4>1 DEF Owns
      <4>3. client'[d].number \notin settled'
        BY <2>2, <3>1, <4>1, <4>2 DEF Owns
      <4>4. client'[c].at = "inserted" => client'[c].number = nextId
        BY <2>3 DEF Inserts
      <4>5. \A b \in Clients \ {c, d} : client'[b].at = "inserted" =>
               client[b].at = "inserted" /\ client'[b].number = client[b].number
        BY <1>2 DEF OthersStay
      <4>6. \A b \in Clients \ {d} : client'[b].at = "inserted" =>
               client'[b].number # client'[d].number
        BY <4>1, <4>2, <4>4, <4>5 DEF Owns
      <4> QED
        BY <4>1, <4>2, <4>3, <4>6 DEF Owns
    <3> QED
      BY <3>6, <3>7, <3>8, CreatesInvIs
  <2>4. CASE Ends(c)
    <3>1. Jdbc!Settles(c) \subseteq {client[c].number}
      BY <2>4 DEF Jdbc!Settles, Ends
    <3>2. nextId' = nextId /\ client'[c].at # "inserted"
      BY <2>4 DEF Ends
    <3>3. settled' \subseteq 0 .. nextId' - 1
      BY <2>4, <2>2, <3>1, <3>2 DEF CreatesInv, Owns, Ends
    <3>4. ASSUME NEW d \in Clients, client'[d].at = "inserted"
          PROVE  Owns(d)'
      <4>1. d # c /\ client[d].at = "inserted"
        BY <1>2, <3>2, <3>4 DEF OthersStay
      <4>2. Owns(d) /\ client'[d].number = client[d].number /\ client'[d].call = client[d].call
        BY <1>2, <4>1 DEF CreatesInv, OthersStay, Owns
      <4>3. client'[d].number \notin settled'
        BY <2>2, <2>4, <3>1, <4>1, <4>2 DEF Owns, Ends
      <4>4. \A b \in Clients \ {d} : client'[b].at = "inserted" =>
               client[b].at = "inserted" /\ client'[b].number = client[b].number
        BY <1>2, <3>2 DEF OthersStay
      <4> QED
        BY <3>2, <4>2, <4>3, <4>4 DEF Owns
    <3> QED
      BY <3>3, <3>4, CreatesInvIs
  <2>5. CASE Passes(c)
    <3>1. Jdbc!Settles(c) = {}
      BY <2>5 DEF Jdbc!Settles, Passes
    <3>2. nextId' = nextId /\ client'[c].at # "inserted"
      BY <2>5 DEF Passes
    <3>3. settled' \subseteq 0 .. nextId' - 1
      BY <2>5, <2>2, <3>1, <3>2 DEF CreatesInv, Passes
    <3>4. ASSUME NEW d \in Clients, client'[d].at = "inserted"
          PROVE  Owns(d)'
      <4>1. d # c /\ client[d].at = "inserted"
        BY <1>2, <3>2, <3>4 DEF OthersStay
      <4>2. Owns(d) /\ client'[d].number = client[d].number /\ client'[d].call = client[d].call
        BY <1>2, <4>1 DEF CreatesInv, OthersStay, Owns
      <4>3. client'[d].number \notin settled'
        BY <2>2, <2>5, <3>1, <4>1, <4>2 DEF Owns, Passes
      <4>4. \A b \in Clients \ {d} : client'[b].at = "inserted" =>
               client[b].at = "inserted" /\ client'[b].number = client[b].number
        BY <1>2, <3>2 DEF OthersStay
      <4> QED
        BY <3>2, <4>2, <4>3, <4>4 DEF Owns
    <3> QED
      BY <3>3, <3>4, CreatesInvIs
  <2> QED
    BY <1>2, <2>3, <2>4, <2>5
<1> QED
  BY <1>1, <1>2, JdbcKinds

(* No two calls of createUser are about one user, however many clients     *)
(* there are, whatever statement fails and whatever is deleted.            *)
THEOREM CreatedUsersAreNew == Spec => CreatesAnswerNewUsers
<1>1. Init => JdbcInv /\ CreatesInv
  <2> SUFFICES ASSUME Init PROVE JdbcInv /\ CreatesInv
    OBVIOUS
  <2>1. Jdbc!Init
    BY DEF Init
  <2>2. settled = {} /\ \A c \in Clients : client[c].at = "idle"
    BY <2>1 DEF Jdbc!Init, Jdbc!Idle
  <2> QED
    BY <2>1, <2>2, JdbcInit DEF CreatesInv
<1>2. JdbcInv /\ CreatesInv /\ [Next]_vars => JdbcInv' /\ CreatesInv'
  BY OneRuns, JdbcStep, CreatesStep
<1>3. ASSUME JdbcInv, CreatesInv, [Next]_vars, NEW c \in Clients, Jdbc!Creates(c),
             client'[c].answer.is = "user"
      PROVE  LET id == client'[c].answer.userId
             IN  /\ id \notin settled
                 /\ \A d \in Clients \ {c} :
                       Jdbc!At(d, "inserted", "createUser") => client[d].number # id
  <2>1. Jdbc!Next
    BY <1>3, OneRuns DEF Jdbc!vars, Jdbc!Creates, Jdbc!Returns
  <2>2. PICK b \in Clients : OthersStay(b) /\ (Inserts(b) \/ Ends(b) \/ Passes(b))
    BY <1>3, <2>1, JdbcKinds
  <2>3. b = c
    BY <1>3, <2>2 DEF OthersStay, Jdbc!Creates, Jdbc!Returns
  <2>4. nextId \in Nat
    BY <1>3, JdbcConstants DEF JdbcInv, JdbcTypeInv
  <2>5. CASE Inserts(c)
    <3>1. client'[c].answer.userId = nextId
      BY <1>3, <2>5 DEF Inserts, Jdbc!Creates, Jdbc!Returns
    <3> QED
      BY <1>3, <2>4, <3>1 DEF CreatesInv, Owns, Jdbc!At
  <2>6. CASE Ends(c)
    BY <1>3, <2>6 DEF Ends, CreatesInv, Owns, Jdbc!At
  <2>7. CASE Passes(c)
    BY <1>3, <2>7 DEF Passes
  <2> QED
    BY <2>2, <2>3, <2>5, <2>6, <2>7
<1>4. JdbcInv /\ CreatesInv /\ [Next]_vars =>
         [\A c \in Clients :
            (Jdbc!Creates(c) /\ client'[c].answer.is = "user") =>
                LET id == client'[c].answer.userId
                IN  /\ id \notin settled
                    /\ \A d \in Clients \ {c} :
                          Jdbc!At(d, "inserted", "createUser") =>
                              client[d].number # id]_(Jdbc!vars)
  BY <1>3
<1> QED
  BY <1>1, <1>2, <1>4, PTL
     DEF Spec, CreatesAnswerNewUsers, Jdbc!CreatesAnswerNewUsers

-----------------------------------------------------------------------------
(* What an undisturbed call answers, statement by statement.               *)
LEMMA Undisturbed ==
    ASSUME JdbcInv, NEW c \in Clients, NEW at, NEW op, Jdbc!At(c, at, op), at # "idle",
           NEW before \in client[c].before
    PROVE  /\ client[c].at = at /\ client[c].call \in Jdbc!Calls /\ client[c].call.op = op
           /\ Knows(client[c], before)
<1>1. UnderWay(client[c]) /\ client[c].at = at /\ client[c].call.op = op
  BY AtFacts
<1> QED
  BY <1>1 DEF UnderWay

Keeps(c, before) == Jdbc!Promise(client[c].call, before, users', client'[c].answer)

LEMMA InsertPromise ==
    ASSUME JdbcInv, NEW c \in Clients, NEW before \in client[c].before,
           Jdbc!Insert(c), Jdbc!Returns(c)
    PROVE  Keeps(c, before)
<1> DEFINE name == client[c].call.name
           after == IF implementation = "PureJDBC"
                    THEN Jdbc!Idle(Jdbc!UserDTO(nextId, name))
                    ELSE [client[c] EXCEPT !.at = "inserted", !.number = nextId]
<1>1. /\ Jdbc!At(c, "called", "createUser") /\ nextId < MaxUsers
      /\ users' = Jdbc!WithRow(users, nextId, name) /\ client'[c] = after
  BY DEF Jdbc!Insert, Jdbc!Disturb
<1>2. client[c].at = "called" /\ users = before /\ client[c].call.op = "createUser"
  BY <1>1, Undisturbed DEF Knows
<1>3. UnderWay(client[c])
  BY <1>1, AtFacts
<1>4. implementation = "PureJDBC"
  <2> SUFFICES ASSUME implementation # "PureJDBC" PROVE FALSE
    OBVIOUS
  <2>1. client'[c] = [client[c] EXCEPT !.at = "inserted", !.number = nextId]
    BY <1>1
  <2>2. client'[c].at = "inserted"
    BY <1>3, <2>1 DEF UnderWay
  <2> QED
    BY <2>2 DEF Jdbc!Returns
<1>5. client'[c].answer = Jdbc!UserDTO(nextId, name)
  BY <1>1, <1>4 DEF Jdbc!Idle
<1>6. nextId \in Jdbc!Ids \ DOMAIN before
  BY <1>1, <1>2, JdbcConstants DEF JdbcInv, JdbcTypeInv, Jdbc!Ids
<1> QED
  BY <1>1, <1>2, <1>5, <1>6 DEF Keeps, Jdbc!Promise

LEMMA ReadInsertedPromise ==
    ASSUME JdbcInv, NEW c \in Clients, NEW before \in client[c].before,
           Jdbc!ReadInserted(c)
    PROVE  Keeps(c, before)
<1> DEFINE k == client[c]
<1>1. Jdbc!At(c, "inserted", "createUser") /\ users' = users
  BY DEF Jdbc!ReadInserted
<1>2. client'[c].answer = Jdbc!Found(users, k.number)
  BY Answered DEF Jdbc!ReadInserted
<1>3. /\ k.call.op = "createUser" /\ k.number \in Jdbc!Ids \ DOMAIN before
      /\ users = Jdbc!WithRow(before, k.number, k.call.name)
  BY <1>1, Undisturbed DEF Knows
<1>4. Jdbc!Found(users, k.number) = Jdbc!UserDTO(k.number, k.call.name)
  BY <1>3 DEF Jdbc!Found, Jdbc!WithRow
<1> QED
  BY <1>1, <1>2, <1>3, <1>4 DEF Keeps, Jdbc!Promise

LEMMA GetPromise ==
    ASSUME JdbcInv, NEW c \in Clients, NEW before \in client[c].before,
           Jdbc!GetUser(c) \/ Jdbc!GetAllUsers(c)
    PROVE  Keeps(c, before)
<1>1. CASE Jdbc!GetUser(c)
  <2>1. /\ client'[c].answer = Jdbc!Found(users, client[c].call.userId)
        /\ users' = users /\ Jdbc!At(c, "called", "getUser")
    BY <1>1, Answered DEF Jdbc!GetUser
  <2>2. users = before /\ client[c].call.op = "getUser"
    BY <2>1, Undisturbed DEF Knows
  <2> QED
    BY <2>1, <2>2 DEF Keeps, Jdbc!Promise
<1>2. CASE Jdbc!GetAllUsers(c)
  <2>1. /\ client'[c].answer = Jdbc!Listed(users)
        /\ users' = users /\ Jdbc!At(c, "called", "getAllUsers")
    BY <1>2, Answered DEF Jdbc!GetAllUsers
  <2>2. users = before /\ client[c].call.op = "getAllUsers"
    BY <2>1, Undisturbed DEF Knows
  <2> QED
    BY <2>1, <2>2 DEF Keeps, Jdbc!Promise
<1> QED
  BY <1>1, <1>2

LEMMA RefuseUpdatePromise ==
    ASSUME JdbcInv, NEW c \in Clients, NEW before \in client[c].before,
           Jdbc!RefuseUpdate(c)
    PROVE  Keeps(c, before)
<1>1. /\ client'[c].answer = Jdbc!Exception /\ users' = users
      /\ Jdbc!At(c, "called", "updateUser") /\ implementation = "ApacheDBUtils"
  BY Answered DEF Jdbc!RefuseUpdate, Jdbc!Refused
<1>2. users = before /\ client[c].call.op = "updateUser"
  BY <1>1, Undisturbed DEF Knows
<1> QED
  BY <1>1, <1>2 DEF Keeps, Jdbc!Promise

(* An update of a row there is, or of none.                                *)
LEMMA UpdatedPromise ==
    ASSUME NEW call, call.op = "updateUser", NEW before, NEW after, NEW answer,
           before = [id \in DOMAIN before |-> before[id]],
           after = [id \in DOMAIN before |->
                       IF id = call.userId THEN call.name ELSE before[id]],
           answer = IF call.userId \in DOMAIN before
                    THEN Jdbc!UserDTO(call.userId, call.name) ELSE Jdbc!Exception
    PROVE  Jdbc!Promise(call, before, after, answer)
<1>1. CASE call.userId \in DOMAIN before
  <2>1. after = [before EXCEPT ![call.userId] = call.name]
    BY <1>1
  <2> QED
    BY <1>1, <2>1 DEF Jdbc!Promise
<1>2. CASE call.userId \notin DOMAIN before
  <2>1. after = before
    BY <1>2
  <2> QED
    BY <1>2, <2>1 DEF Jdbc!Promise
<1> QED
  BY <1>1, <1>2

LEMMA UpdatePromise ==
    ASSUME JdbcInv, NEW c \in Clients, NEW before \in client[c].before,
           Jdbc!Update(c), Jdbc!Returns(c)
    PROVE  Keeps(c, before)
<1> DEFINE call == client[c].call
           rows == DOMAIN users \cap {call.userId}
           table == [id \in DOMAIN users |-> IF id \in rows THEN call.name ELSE users[id]]
           after == CASE implementation = "Dalesbred" -> [client[c] EXCEPT !.at = "updated"]
                      [] implementation # "Dalesbred" /\ rows = {} -> Jdbc!Idle(Jdbc!Exception)
                      [] OTHER -> Jdbc!Idle(Jdbc!UserDTO(call.userId, call.name))
<1>1. /\ Jdbc!At(c, "called", "updateUser")
      /\ users' = table /\ client'[c] = after
  BY DEF Jdbc!Update, Jdbc!Disturb
<1>2. client[c].at = "called" /\ users = before /\ call.op = "updateUser"
  BY <1>1, Undisturbed DEF Knows
<1>3. UnderWay(client[c])
  BY <1>1, AtFacts
<1>4. implementation # "Dalesbred"
  <2> SUFFICES ASSUME implementation = "Dalesbred" PROVE FALSE
    OBVIOUS
  <2>1. client'[c] = [client[c] EXCEPT !.at = "updated"]
    BY <1>1
  <2>2. client'[c].at = "updated"
    BY <1>3, <2>1 DEF UnderWay
  <2> QED
    BY <2>2 DEF Jdbc!Returns
<1>5. client'[c].answer = IF call.userId \in DOMAIN before
                          THEN Jdbc!UserDTO(call.userId, call.name) ELSE Jdbc!Exception
  <2>1. CASE call.userId \in DOMAIN before
    <3>1. after = Jdbc!Idle(Jdbc!UserDTO(call.userId, call.name))
      BY <1>2, <1>4, <2>1
    <3> QED
      BY <1>1, <2>1, <3>1 DEF Jdbc!Idle
  <2>2. CASE call.userId \notin DOMAIN before
    <3>1. after = Jdbc!Idle(Jdbc!Exception)
      BY <1>2, <1>4, <2>2
    <3> QED
      BY <1>1, <2>2, <3>1 DEF Jdbc!Idle
  <2> QED
    BY <2>1, <2>2
<1>6. users' = [id \in DOMAIN before |->
                   IF id = call.userId THEN call.name ELSE before[id]]
  BY <1>1, <1>2
<1>7. before = [id \in DOMAIN before |-> before[id]]
  BY <1>2 DEF JdbcInv, JdbcTypeInv
<1> QED
  BY <1>2, <1>5, <1>6, <1>7, UpdatedPromise DEF Keeps

LEMMA ReadUpdatedPromise ==
    ASSUME JdbcInv, NEW c \in Clients, NEW before \in client[c].before,
           Jdbc!ReadUpdated(c)
    PROVE  Keeps(c, before)
<1> DEFINE call == client[c].call
<1>1. Jdbc!At(c, "updated", "updateUser") /\ users' = users
  BY DEF Jdbc!ReadUpdated
<1>2. client'[c].answer = Jdbc!Found(users, call.userId)
  BY Answered DEF Jdbc!ReadUpdated
<1>3. /\ call.op = "updateUser"
      /\ before = [id \in DOMAIN before |-> before[id]]
      /\ users = [id \in DOMAIN before |->
                     IF id = call.userId THEN call.name ELSE before[id]]
  BY <1>1, Undisturbed DEF Knows
<1>4. Jdbc!Found(users, call.userId) =
          IF call.userId \in DOMAIN before
          THEN Jdbc!UserDTO(call.userId, call.name) ELSE Jdbc!Exception
  BY <1>3 DEF Jdbc!Found
<1> QED
  BY <1>1, <1>2, <1>3, <1>4, UpdatedPromise DEF Keeps

LEMMA DeletePromise ==
    ASSUME JdbcInv, NEW c \in Clients, NEW before \in client[c].before,
           Jdbc!Delete(c)
    PROVE  Keeps(c, before)
<1> DEFINE id == client[c].call.userId
           answer == IF implementation = "PureJDBC" /\ id \notin DOMAIN users
                     THEN Jdbc!Exception ELSE Jdbc!Nothing
<1>1. /\ Jdbc!At(c, "called", "deleteUser")
      /\ users' = [i \in DOMAIN users \ {id} |-> users[i]]
      /\ client'[c] = Jdbc!Idle(answer)
  BY DEF Jdbc!Delete, Jdbc!Disturb
<1>2. users = before /\ client[c].call.op = "deleteUser"
  BY <1>1, Undisturbed DEF Knows
<1>3. client'[c].answer = answer
  BY <1>1 DEF Jdbc!Idle
<1>4. client'[c].answer = Jdbc!Nothing
      \/ (client'[c].answer = Jdbc!Exception /\ id \notin DOMAIN before)
  BY <1>2, <1>3
<1> QED
  BY <1>1, <1>2, <1>4 DEF Keeps, Jdbc!Promise

(* The page asked for, as the interface promises it.                       *)
LEMMA PagePromise ==
    ASSUME NEW call \in Jdbc!Calls, call.op = "getUsers", NEW before, NEW answer,
           LET start == call.page * call.itemsPerPage
               total == Len(Jdbc!Rows(before))
               onPage == {k \in DOMAIN Jdbc!Rows(before) :
                             k > start /\ k <= start + call.itemsPerPage}
           IN  \/ onPage = {} /\ answer = Jdbc!Exception
               \/ /\ onPage # {}
                  /\ answer = Jdbc!PageDTO(total, call.page,
                                 [k \in 1 .. Cardinality(onPage) |->
                                     Jdbc!Rows(before)[start + k]])
               \/ Jdbc!FirstRow(call) # start
    PROVE  Jdbc!Promise(call, before, before, answer)
<1> DEFINE start == call.page * call.itemsPerPage
           total == Len(Jdbc!Rows(before))
           onPage == {k \in DOMAIN Jdbc!Rows(before) :
                         k > start /\ k <= start + call.itemsPerPage}
           items == [k \in 1 .. Cardinality(onPage) |-> Jdbc!Rows(before)[start + k]]
<1>1. CASE onPage = {} /\ answer = Jdbc!Exception
  BY <1>1 DEF Jdbc!Promise
<1>2. CASE onPage # {} /\ answer = Jdbc!PageDTO(total, call.page, items)
  <2>1. /\ answer.is = "page" /\ answer.totalItems = total
        /\ answer.pageNumber = call.page /\ answer.items = items
    BY <1>2 DEF Jdbc!PageDTO
  <2>2. items = [k \in 1 .. Jdbc!Cardinality(onPage) |-> Jdbc!Rows(before)[start + k]]
    BY DEF Jdbc!Cardinality, Cardinality
  <2> QED
    BY <1>2, <2>1, <2>2 DEF Jdbc!Promise
<1>3. CASE Jdbc!FirstRow(call) # start
  <2>1. PICK h \in Nat \ {0} : h = 2 ^ (IntBits - 1)
    BY ExperimentsAssumption, Zenon
  <2>2. start \in Nat /\ (start < h => Jdbc!FirstRow(call) = start)
    BY <2>1, FirstRowIsInt, IntsStay DEF Jdbc!FirstRow
  <2>3. start >= h
    BY <1>3, <2>1, <2>2
  <2>4. start >= 2 ^ (IntBits - 1)
    BY <2>1, <2>3
  <2> QED
    BY <2>4 DEF Jdbc!Promise
<1> QED
  BY <1>1, <1>2, <1>3

(* The rows of a table are numbered from 1.                                *)
LEMMA RowsAreNumbered ==
    ASSUME JdbcInv
    PROVE  /\ Jdbc!Rows(users) \in Seq({Jdbc!Rows(users)[k] : k \in DOMAIN Jdbc!Rows(users)})
           /\ DOMAIN Jdbc!Rows(users) = 1 .. Cardinality(DOMAIN users)
           /\ Len(Jdbc!Rows(users)) = Cardinality(DOMAIN users)
<1> DEFINE n == Cardinality(DOMAIN users)
           row(k) == LET id == CHOOSE i \in DOMAIN users : Jdbc!RowNumber(users, i) = k
                     IN  Jdbc!UserDTO(id, users[id])
<1>1. n \in Nat /\ Jdbc!Rows(users) = [k \in 1 .. n |-> row(k)]
  BY RowsCounted DEF Jdbc!Rows, Jdbc!Cardinality, Cardinality
<1> HIDE DEF n, row
<1>2. DOMAIN Jdbc!Rows(users) = 1 .. n
  BY <1>1
<1>3. Jdbc!Rows(users) \in Seq({Jdbc!Rows(users)[k] : k \in DOMAIN Jdbc!Rows(users)})
  BY <1>1, <1>2
<1>4. Len(Jdbc!Rows(users)) = n
  BY <1>1, <1>3
<1> QED
  BY <1>2, <1>3, <1>4 DEF n

LEMMA CountPromise ==
    ASSUME JdbcInv, NEW c \in Clients, NEW before \in client[c].before,
           Jdbc!Count(c), Jdbc!Returns(c)
    PROVE  Keeps(c, before)
<1> DEFINE call == client[c].call
           rowCount == Cardinality(DOMAIN users)
           start == call.page * call.itemsPerPage
<1>1. Jdbc!At(c, "called", "getUsers") /\ users' = users
  BY DEF Jdbc!Count
<1>2. client[c].at = "called" /\ users = before /\ call \in Jdbc!Calls /\ call.op = "getUsers"
  BY <1>1, Undisturbed DEF Knows
<1>3. rowCount = Jdbc!Cardinality(DOMAIN users) /\ rowCount \in Nat
  BY RowsCounted DEF Jdbc!Cardinality, Cardinality
<1>4. UnderWay(client[c])
  BY <1>1, AtFacts
<1>5. rowCount <= Jdbc!FirstRow(call) /\ Jdbc!Answer(c, Jdbc!Exception)
  <2> SUFFICES ASSUME ~(rowCount <= Jdbc!FirstRow(call)) PROVE FALSE
    BY <1>3 DEF Jdbc!Count
  <2>1. client' = [client EXCEPT ![c].at = "counted", ![c].number = rowCount]
    BY <1>3 DEF Jdbc!Count, Jdbc!GoOn
  <2>2. client'[c].at = "counted"
    BY <1>4, <2>1 DEF JdbcInv, JdbcTypeInv, UnderWay
  <2> QED
    BY <2>2 DEF Jdbc!Returns
<1>6. client'[c].answer = Jdbc!Exception
  BY <1>5, Answered
<1>7. start \in Nat /\ call.itemsPerPage \in Nat
  BY <1>2, FirstRowIsInt
<1>8. DOMAIN Jdbc!Rows(before) = 1 .. rowCount
  BY <1>2, RowsAreNumbered
<1> HIDE DEF call, rowCount, start
<1>9. ASSUME Jdbc!FirstRow(call) = start
      PROVE  {k \in DOMAIN Jdbc!Rows(before) : k > start /\ k <= start + call.itemsPerPage} = {}
  BY <1>3, <1>5, <1>7, <1>8, <1>9
<1>10. Jdbc!Promise(call, before, before, Jdbc!Exception)
  BY <1>2, <1>9, PagePromise DEF start
<1> QED
  BY <1>1, <1>2, <1>6, <1>10 DEF Keeps, call

LEMMA ReadPagePromise ==
    ASSUME JdbcInv, NEW c \in Clients, NEW before \in client[c].before,
           Jdbc!ReadPage(c)
    PROVE  Keeps(c, before)
<1> DEFINE call == client[c].call
           rowCount == Cardinality(DOMAIN users)
           rows == Jdbc!Rows(users)
           start == call.page * call.itemsPerPage
           size == call.itemsPerPage
           onPage == {k \in DOMAIN rows : k > start /\ k <= start + size}
           items == [k \in 1 .. Cardinality(onPage) |-> rows[start + k]]
<1>1. /\ Jdbc!At(c, "counted", "getUsers") /\ users' = users
      /\ client'[c].answer =
             IF Jdbc!FirstRow(call) < 0 THEN Jdbc!Exception
             ELSE Jdbc!PageDTO(client[c].number, call.page,
                               Jdbc!Limited(rows, Jdbc!FirstRow(call), size))
  BY Answered DEF Jdbc!ReadPage
<1>2. /\ users = before /\ call \in Jdbc!Calls /\ call.op = "getUsers"
      /\ client[c].number = rowCount /\ Jdbc!FirstRow(call) < rowCount
  BY <1>1, Undisturbed DEF Knows
<1>3. rowCount \in Nat /\ start \in Nat /\ size \in Nat \ {0}
  BY <1>2, RowsCounted, FirstRowIsInt
<1>4. /\ rows \in Seq({rows[k] : k \in DOMAIN rows}) /\ DOMAIN rows = 1 .. rowCount
      /\ Len(rows) = rowCount
  BY RowsAreNumbered
<1> HIDE DEF call, rowCount, rows, start, size
<1>5. ASSUME Jdbc!FirstRow(call) = start
      PROVE  onPage # {} /\ client'[c].answer = Jdbc!PageDTO(rowCount, call.page, items)
  <2> DEFINE last == IF start + size < rowCount THEN start + size ELSE rowCount
  <2>1. last \in Nat /\ start < last /\ last <= rowCount
    BY <1>2, <1>3, <1>5
  <2>2. onPage = start + 1 .. last
    BY <1>3, <1>4
  <2>3. Jdbc!Limited(rows, start, size) = SubSeq(rows, start + 1, last)
    BY <1>4 DEF Jdbc!Limited
  <2> HIDE DEF last
  <2>4. Cardinality(onPage) = last - start
    <3>1. start + 1 \in Int /\ last \in Int /\ start + 1 <= last
      BY <1>3, <2>1
    <3>2. Cardinality(start + 1 .. last) = last - (start + 1) + 1
      BY <3>1, FS_Interval
    <3>3. last - (start + 1) + 1 = last - start
      BY <1>3, <2>1
    <3> HIDE DEF onPage
    <3> QED
      BY <2>2, <3>2, <3>3
  <2>5. SubSeq(rows, start + 1, last) = [k \in 1 .. last - start |-> rows[start + k]]
    <3> DEFINE page == SubSeq(rows, start + 1, last)
    <3>1. start + 1 \in 1 .. Len(rows) + 1 /\ last \in start .. Len(rows)
      BY <1>3, <1>4, <2>1
    <3>2. /\ page \in Seq({rows[k] : k \in DOMAIN rows})
          /\ Len(page) = last - start
          /\ \A k \in 1 .. last - start : page[k] = rows[start + k]
      BY <1>3, <1>4, <2>1, <3>1, SubSeqProperties
    <3> HIDE DEF page
    <3>3. page = [k \in 1 .. last - start |-> page[k]]
      BY <1>3, <2>1, <3>2
    <3>4. page = [k \in 1 .. last - start |-> rows[start + k]]
      BY <3>2, <3>3
    <3> QED
      BY <3>4 DEF page
  <2>6. onPage # {}
    BY <1>3, <2>1, <2>2
  <2>7. ~(Jdbc!FirstRow(call) < 0)
    BY <1>3, <1>5
  <2> HIDE DEF onPage
  <2>8. Jdbc!Limited(rows, start, size) = items
    BY <2>3, <2>4, <2>5
  <2> HIDE DEF items
  <2> QED
    BY <1>1, <1>2, <1>5, <2>6, <2>7, <2>8
<1>6. Jdbc!Promise(call, before, before, client'[c].answer)
  <2>1. \/ onPage # {} /\ client'[c].answer = Jdbc!PageDTO(Len(rows), call.page, items)
        \/ Jdbc!FirstRow(call) # start
    BY <1>4, <1>5
  <2> QED
    BY <1>2, <2>1, PagePromise DEF rows, start, size
<1> QED
  BY <1>1, <1>2, <1>6 DEF Keeps, call

(* Every statement that ends a call keeps the promise of the call, for any *)
(* number of clients, implementation, width of an int, pages and users.    *)
THEOREM PromisesAreKept == Spec => UndisturbedCallsKeepPromise
<1>1. ASSUME JdbcInv, [Next]_vars, NEW c \in Clients, Jdbc!Returns(c),
             client'[c].answer # Jdbc!SQLException, NEW before \in client[c].before
      PROVE  Keeps(c, before)
  <2>1. CASE Jdbc!StatementFails(c)
    BY <1>1, <2>1, Answered DEF Jdbc!StatementFails
  <2> QED
    BY <1>1, <2>1, OneRuns, ReturnsItself, InsertPromise, ReadInsertedPromise,
       GetPromise, RefuseUpdatePromise, UpdatePromise, ReadUpdatedPromise, DeletePromise,
       CountPromise, ReadPagePromise
<1>2. Init => JdbcInv
  BY JdbcInit DEF Init
<1>3. JdbcInv /\ [Next]_vars => JdbcInv'
  BY OneRuns, JdbcStep
<1>4. JdbcInv /\ [Next]_vars =>
         [\A c \in Clients :
            (Jdbc!Returns(c) /\ client'[c].answer # Jdbc!SQLException) =>
                \A before \in client[c].before :
                    Jdbc!Promise(client[c].call, before, users', client'[c].answer)]_(Jdbc!vars)
  BY <1>1 DEF Keeps
<1> QED
  BY <1>2, <1>3, <1>4, PTL
     DEF Spec, UndisturbedCallsKeepPromise, Jdbc!UndisturbedCallsKeepPromise
=============================================================================
