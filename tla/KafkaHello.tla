------------------------------ MODULE KafkaHello ------------------------------
(***************************************************************************)
(* kafka-experiment: kafkaProducerConsumerHelloWorld.  The main thread     *)
(* makes a topic, starts a consumer thread, meets it at a barrier, starts  *)
(* a producer thread and waits for both; the last message, "bye", is the   *)
(* only thing that ends the consumer.                                      *)
(***************************************************************************)
EXTENDS Naturals, Sequences, FiniteSets

CONSTANT NumberOfMessages \* 1000 in the code

VARIABLES main, consumer, producer, \* where the three threads are
          log,       \* the partition of the topic
          position,  \* the offset the consumer's fetcher asks for
          first,     \* the offset it began with, 0 before it has one
          consumed,  \* numberOfMessagesConsumed
          sent,      \* how many messages the producer is done with, and
          acked      \* how many of the ordinary ones were acknowledged

vars == <<main, consumer, producer, log, position, first, consumed, sent, acked>>
broker == <<log, position, first>>

Init ==
    /\ main = "creatingTopic" /\ consumer = "new" /\ producer = "new"
    /\ log = <<>> /\ position = 0 /\ first = 0
    /\ consumed = 0 /\ sent = 0 /\ acked = 0

-----------------------------------------------------------------------------
(* The main thread.                                                        *)

CreateTopic ==
    /\ main = "creatingTopic"
    /\ \/ main' = "atBarrier" /\ consumer' = "subscribing"
       \/ main' = "failed" /\ UNCHANGED consumer
    /\ UNCHANGED <<producer, broker, consumed, sent, acked>>

(* subscriptionBarrier.await() of the two threads.                         *)
Barrier ==
    /\ main = "atBarrier" /\ consumer = "atBarrier"
    /\ main' = "startingProducer" /\ consumer' = "reading"
    /\ UNCHANGED <<producer, broker, consumed, sent, acked>>

StartProducer ==
    /\ main = "startingProducer"
    /\ main' = "joiningProducer" /\ producer' = "sending"
    /\ UNCHANGED <<consumer, broker, consumed, sent, acked>>

JoinProducer ==
    /\ main = "joiningProducer" /\ producer = "stopped"
    /\ main' = "joiningConsumer"
    /\ UNCHANGED <<consumer, producer, broker, consumed, sent, acked>>

JoinConsumer ==
    /\ main = "joiningConsumer" /\ consumer \in {"stopped", "failed"}
    /\ main' = "returned"
    /\ UNCHANGED <<consumer, producer, broker, consumed, sent, acked>>

-----------------------------------------------------------------------------
(* ConsumerThread.run.                                                     *)

(* An exception while the streams are made is outside of the try: it ends  *)
(* the thread before it comes to the barrier.                              *)
Subscribe ==
    /\ consumer = "subscribing"
    /\ consumer' \in {"atBarrier", "failed"}
    /\ UNCHANGED <<main, producer, broker, consumed, sent, acked>>

(* The fetcher behind the stream finds no offset of the group in           *)
(* ZooKeeper, and takes the end of the partition when it gets to it, in a  *)
(* thread of its own.                                                      *)
ResetPosition ==
    /\ consumer \in {"atBarrier", "reading"} /\ first = 0
    /\ first' = Len(log) + 1 /\ position' = first'
    /\ UNCHANGED <<main, consumer, producer, log, consumed, sent, acked>>

ReadCountingBye ==
    /\ consumer = "reading" /\ position \in DOMAIN log
    /\ position' = position + 1 /\ consumed' = consumed + 1
    /\ consumer' = IF log[position] = "bye" THEN "stopped" ELSE "reading"
    /\ UNCHANGED <<main, producer, log, first, sent, acked>>
ReadOn ==
    /\ consumer = "reading" /\ position \in DOMAIN log
    /\ position' = position + 1
    /\ consumed' = IF log[position] = "bye" THEN consumed ELSE consumed + 1
    /\ UNCHANGED <<main, consumer, producer, log, first, sent, acked>>
Read ==
    /\ consumer = "reading" /\ position \in DOMAIN log
    /\ position' = position + 1
    /\ IF log[position] = "bye"
       THEN consumer' = "stopped" /\ UNCHANGED consumed
       ELSE consumed' = consumed + 1 /\ UNCHANGED consumer
    /\ UNCHANGED <<main, producer, log, first, sent, acked>>

(* A RuntimeException of the stream.                                       *)
ReadFails ==
    /\ consumer = "reading"
    /\ consumer' = "failed"
    /\ UNCHANGED <<main, producer, broker, consumed, sent, acked>>

-----------------------------------------------------------------------------
(* ProducerThread.run.                                                     *)

Message == IF sent < NumberOfMessages THEN "message" ELSE "bye"
ProducerAfterSend == IF Message = "bye" THEN "stopped" ELSE "sending"

Send ==
    /\ producer = "sending"
    /\ log' = Append(log, Message) /\ sent' = sent + 1
    /\ acked' = IF Message = "message" THEN acked + 1 ELSE acked
    /\ producer' = ProducerAfterSend
    /\ UNCHANGED <<main, consumer, position, first, consumed>>

(* An ExecutionException, for which the broker may have got the message or *)
(* not: it is caught, and the next message follows.                        *)
SendFails ==
    /\ producer = "sending"
    /\ log' \in {log, Append(log, Message)} /\ sent' = sent + 1
    /\ producer' = ProducerAfterSend
    /\ UNCHANGED <<main, consumer, position, first, consumed, acked>>

(* A RuntimeException of the producer, which nothing catches.              *)
ProducerDies ==
    /\ producer = "sending"
    /\ producer' = "stopped"
    /\ UNCHANGED <<main, consumer, broker, consumed, sent, acked>>

Next ==
    \/ CreateTopic \/ Barrier \/ StartProducer \/ JoinProducer \/ JoinConsumer
    \/ Subscribe \/ ResetPosition \/ Read \/ ReadFails
    \/ Send \/ SendFails \/ ProducerDies

Spec == Init /\ [][Next]_vars

(* Threads run when they can, and so does the fetcher.                     *)
Fairness ==
    /\ WF_vars(CreateTopic \/ Barrier \/ StartProducer \/ JoinProducer \/ JoinConsumer)
    /\ WF_vars(Subscribe) /\ WF_vars(ResetPosition) /\ WF_vars(Read)
    /\ WF_vars(Send \/ SendFails \/ ProducerDies)

-----------------------------------------------------------------------------
FromFirst == {k \in DOMAIN log : first > 0 /\ k >= first}

TypeOK ==
    /\ main \in {"creatingTopic", "failed", "atBarrier", "startingProducer",
                 "joiningProducer", "joiningConsumer", "returned"}
    /\ consumer \in {"new", "subscribing", "atBarrier", "reading", "stopped", "failed"}
    /\ producer \in {"new", "sending", "stopped"}
    /\ log \in Seq({"message", "bye"}) /\ sent \in 0 .. NumberOfMessages + 1
    /\ first \in 0 .. Len(log) + 1 /\ position \in first .. Len(log) + 1
    /\ consumed \in Nat /\ acked \in 0 .. sent

(* A consumer that was ended by "bye" has counted every ordinary message   *)
(* the broker got from its first offset on, and no other; if it had its    *)
(* first offset in time, that is every message the producer knows to have  *)
(* arrived, so kafkaProducerConsumerHelloWorld returns no less than that.  *)
CountsEverything ==
    consumer = "stopped" =>
        /\ consumed = Cardinality({k \in FromFirst : log[k] = "message"})
        /\ first = 1 => acked <= consumed

(* The main thread comes to its end, unless the consumer failed before it  *)
(* came to the barrier, or waits for a "bye" that is not coming: because   *)
(* it was not sent, or before the consumer had its first offset.           *)
NoByeComing ==
    /\ producer = "stopped" /\ consumer = "reading" /\ first > 0
    /\ \A k \in FromFirst : log[k] # "bye"
Returns ==
    <>(\/ main \in {"returned", "failed"}
       \/ main = "atBarrier" /\ consumer = "failed"
       \/ main = "joiningConsumer" /\ NoByeComing)
=============================================================================
