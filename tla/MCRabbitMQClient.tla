-------------------------- MODULE MCRabbitMQClient --------------------------
(* Settings of RabbitMQClient for TLC: who shares the client, and with     *)
(* which configurations.                                                   *)
EXTENDS RabbitMQClient

CONSTANTS pub, sub, odd, delayed, plain, unknown

\* Every thread has a configuration of its own.
Separate == [t \in Threads |-> CASE t = pub -> delayed [] t = sub -> plain
                                [] t = odd -> unknown]

\* A publisher and a consumer of the same queue.
Shared == [t \in Threads |-> plain]
=============================================================================
