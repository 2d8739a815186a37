------------------------------ MODULE DnsAddr ------------------------------
(***************************************************************************)
(* Where libslirp sends the guest's DNS queries: slirp.c's cache of the    *)
(* host's name server, and the reading of the host's list on Apple.        *)
(*                                                                         *)
(* A list holds servers <<family, address>> of both families, 4 and 6; a   *)
(* cache is [addr, age], the age in ticks of curtime, up to the timeout,   *)
(* and the list it came from.                                              *)
(***************************************************************************)
EXTENDS Integers, Sequences, FiniteSets

CONSTANTS TIMEOUT_DEFAULT, \* 1000 ms in the code
          AnyAddr          \* 0.0.0.0 and ::

ASSUME DnsAssumption == TIMEOUT_DEFAULT \in Nat \ {0}

NoAddr == [addr |-> AnyAddr, age |-> 0, from |-> <<>>]
Older(cache) == [cache EXCEPT !.age = IF @ < TIMEOUT_DEFAULT THEN @ + 1 ELSE @]

Found(af, servers, i) == Cardinality({j \in 1 .. i : servers[j][1] = af})

\* The bytes of a server at the place where one of the family af has its address: the
\* flow label stands there in one of the other family, which is zero.
AddressOf(af, server) == IF server[1] = af THEN server[2] ELSE AnyAddr

\* what is copied as long as one server of the family has been found
get_dns_addr_libresolv(af, servers) ==
  LET copied == {i \in DOMAIN servers : Found(af, servers, i) = 1}
      last == CHOOSE i \in copied : \A j \in copied : j <= i
  IN  [addr |-> AddressOf(af, servers[last]), age |-> 0, from |-> servers]

Resolves(af, servers) == Found(af, servers, Len(servers)) > 0

\* mutant: an address once found is used for ever
get_dns_addr_cached_Always(cache) == TRUE
get_dns_addr_cached(cache) == cache.age < TIMEOUT_DEFAULT

\* the cache after a query, in which the answer stands if there is one
get_dns_addr(af, cache, servers) ==
  IF cache.addr # AnyAddr /\ get_dns_addr_cached(cache) THEN cache
  ELSE IF Resolves(af, servers) THEN get_dns_addr_libresolv(af, servers) ELSE cache
Answers(af, cache, servers) ==
  (cache.addr # AnyAddr /\ get_dns_addr_cached(cache)) \/ Resolves(af, servers)
=============================================================================
