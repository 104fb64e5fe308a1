--------------------------- MODULE MCClientDeamon ---------------------------
(* Small instances of ClientDeamon.                                        *)
EXTENDS ClientDeamon

MCBrokerMessages ==
    {[type |-> "PUBLISH", qos |-> 1, id |-> 1],
     [type |-> "PUBLISH", qos |-> 2, id |-> 2],
     [type |-> "PUBLISH", qos |-> 3, id |-> 1],
     [type |-> "PUBREC", qos |-> 0, id |-> 1],
     [type |-> "PINGRESP", qos |-> 0, id |-> 0],
     [type |-> "RESERVED", qos |-> 0, id |-> 0]}
=============================================================================
