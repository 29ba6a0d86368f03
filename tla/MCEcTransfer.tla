---- MODULE MCEcTransfer ----
(* EcEthernet for TLC: an object of one part and one of three, and the calls. *)
EXTENDS EcEthernet

CONSTANTS short, long

TwoObjects == {short, long}
Sizes == [o \in TwoObjects |-> IF o = short THEN 1 ELSE 3]

Boxes == {[write |-> 1, read |-> 1], [write |-> 2, read |-> 2], [write |-> 1, read |-> 2]}

DictionaryCalls ==
    {<<<<"up", long>>, <<"up", long>>>>,
     <<<<"verified", short>>>>, <<<<"verified", long>>>>,
     <<<<"up", short>>, <<"down", short>>, <<"up", short>>>>,
     <<<<"up", short>>, <<"verified", short>>>>,
     <<<<"odlist", short>>, <<"odlist", short>>>>, <<<<"odlist", long>>, <<"odlist", long>>>>,
     <<<<"down", long>>>>, <<<<"od", short>>, <<"od", long>>>>,
     <<<<"rxpdo", short>>, <<"txpdo", short>>, <<"oe", short>>>>}
TransferCalls ==
    {<<<<"fwrite", short>>>>, <<<<"fwrite", long>>>>, <<<<"fread", short>>, <<"fread", long>>>>,
     <<<<"sread", long>>, <<"sread", short>>>>, <<<<"swrite", long>>, <<"sread", short>>>>, <<<<"swrite", short>>, <<"fread", short>>>>}
EthernetCalls ==
    {<<<<"eset", short>>, <<"eget", short>>>>, <<<<"esend", long>>, <<"esend", short>>>>,
     <<<<"eget", long>>, <<"eget", short>>>>, <<<<"eget", short>>, <<"erecv", short>>>>,
     <<<<"erecv", long>>, <<"erecv", long>>>>, <<<<"eread", long>>, <<"eread", long>>>>}
Calls == DictionaryCalls \union TransferCalls \union EthernetCalls
====
