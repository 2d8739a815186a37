----------------------------- MODULE MCServices -----------------------------
EXTENDS Services
Sizes == [d \in Originals |-> IF d = "a" THEN 8 ELSE 3]
SomeAsked == [c \in Clients |-> IF c = "c1" THEN 0 ELSE 9]
SomePorts == {<<4, 1>>, <<4, 2>>, <<6, 1>>}
OneForward == {<<4, 2>>}
SomeDests == {<<"vhost", 7>>, <<"vdns", 53>>, <<"vdns", 7>>, <<"net", 7>>, <<"bcast", 7>>, <<"all", 7>>, <<"ext", 7>>}
=============================================================================
