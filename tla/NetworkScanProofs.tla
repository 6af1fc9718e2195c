-------------------------- MODULE NetworkScanProofs ---------------------------
(***************************************************************************)
(* Theorems about NetworkScan, for every width of an address, every        *)
(* network and every number of slots.                                      *)
(***************************************************************************)
EXTENDS NetworkScan, FiniteSetTheorems, TLAPS

(***************************************************************************)
(* The arithmetic of a network of m addresses, of which p are given out.   *)
(***************************************************************************)
LEMMA Division ==
  ASSUME NEW m \in Nat, m > 0, NEW i \in Nat
  PROVE  /\ i = (i \div m) * m + (i % m)
         /\ i \div m \in Nat /\ i % m \in Nat /\ i % m < m
OBVIOUS

LEMMA Quotient ==
  ASSUME NEW m \in Nat, m > 0, NEW q \in Nat, NEW n \in Nat, n < m
  PROVE  (q * m + n) \div m = q /\ (q * m + n) % m = n
OBVIOUS

LEMMA Block ==
  ASSUME NEW m \in Nat, m > 0, NEW p \in Nat, NEW q \in Nat, NEW n \in Nat, n < m,
         q * m + n < m * p
  PROVE  q * m + m <= m * p
<1>1. q < p
  OBVIOUS
<1> QED BY <1>1

LEMMA NetworkFacts ==
  ASSUME cidr \in [ip : Given, ones : Ones]
  PROVE  /\ Size \in Nat /\ Size > 0 /\ 2^Bits \in Nat /\ Size < 2^Bits
         /\ First \in Nat /\ First + Size <= 2^Bits
         /\ \A a \in Nat : InNetwork(a) <=> First <= a /\ a < First + Size
         /\ \A n \in Nat : n < Size => (First + n) % Size = n
         /\ cidr.ones < Bits - 1 <=> Size > 2
<1> DEFINE m == 2^(Bits - cidr.ones)
           p == 2^cidr.ones
           N == 2^Bits
           i == cidr.ip
           q == i \div m
<1>1. Bits \in Nat /\ cidr.ones \in 1..Bits /\ i \in Given
  <2>1. cidr.ones \in Ones /\ cidr.ip \in Given
    OBVIOUS
  <2> QED BY <2>1, NetworkScanAssumption
<1>2. Bits - cidr.ones \in 0..Bits /\ Bits - (Bits - cidr.ones) = cidr.ones
  BY <1>1
<1>3. /\ m \in Nat /\ m > Bits - cidr.ones /\ p \in Nat /\ p > cidr.ones
      /\ N \in Nat /\ N = m * p
  <2>1. cidr.ones \in 0..Bits /\ Bits \in 0..Bits
    BY <1>1
  <2> QED BY <1>2, <2>1, PowersOfTwo
<1>4. m > 0 /\ p >= 2
  BY <1>1, <1>2, <1>3
<1>5. i \in Nat /\ i < N
  <2>1. i \in 0..(N - 1)
    BY <1>1, NetworkScanAssumption DEF Addresses
  <2> QED BY <1>3, <2>1
<1>6. cidr.ones < Bits - 1 <=> m > 2
  <2>1. CASE Bits - cidr.ones = 0
    <3>1. 2^0 = 1
      OBVIOUS
    <3>2. m = 1
      BY <2>1, <3>1, Zenon
    <3> QED BY <1>1, <2>1, <3>2
  <2>2. CASE Bits - cidr.ones = 1
    <3>1. 2^1 = 2
      OBVIOUS
    <3>2. m = 2
      BY <2>2, <3>1, Zenon
    <3> QED BY <1>1, <2>2, <3>2
  <2>3. CASE Bits - cidr.ones > 1
    BY <1>1, <1>3, <2>3
  <2> QED BY <1>1, <1>2, <2>1, <2>2, <2>3
<1> HIDE DEF m, p, N
<1>7. i = q * m + (i % m) /\ q \in Nat /\ i % m \in Nat /\ i % m < m
  BY <1>3, <1>4, <1>5, Division
<1> HIDE DEF i, q
<1>8. Size = m /\ First = i - (i % m)
  BY DEF Size, First, m, i
<1>9. q * m \in Nat
  BY <1>3, <1>7
<1>10. First = q * m
  BY <1>5, <1>7, <1>8, <1>9
<1>11. q * m + m <= N
  BY <1>3, <1>4, <1>5, <1>7, Block
<1>12. m < N
  BY <1>3, <1>4
<1>13. ASSUME NEW a \in Nat
       PROVE  InNetwork(a) <=> q * m <= a /\ a < q * m + m
  <2>1. InNetwork(a) <=> a \div m = q
    BY DEF InNetwork, m, q, i
  <2>2. a = (a \div m) * m + (a % m) /\ a % m \in Nat /\ a % m < m
    BY <1>3, <1>4, Division
  <2>3. CASE q * m <= a /\ a < q * m + m
    <3>1. a - q * m \in Nat /\ a - q * m < m /\ a = q * m + (a - q * m)
      BY <1>3, <1>9, <2>3
    <3>2. (q * m + (a - q * m)) \div m = q
      BY <1>3, <1>4, <1>7, <3>1, Quotient
    <3> QED BY <2>1, <2>3, <3>1, <3>2
  <2>4. CASE a \div m = q
    <3>1. a = q * m + (a % m)
      BY <2>2, <2>4
    <3> QED BY <1>3, <1>9, <2>1, <2>2, <2>4, <3>1
  <2> QED BY <2>1, <2>3, <2>4
<1>14. \A n \in Nat : n < m => (q * m + n) % m = n
  BY <1>3, <1>4, <1>7, Quotient
<1> QED
  BY <1>3, <1>4, <1>6, <1>8, <1>9, <1>10, <1>11, <1>12, <1>13, <1>14 DEF N
-----------------------------------------------------------------------------
(***************************************************************************)
(* The list of hosts.                                                      *)
(***************************************************************************)
LEMMA AddressesFinite ==
  /\ IsFiniteSet(Addresses)
  /\ \A S \in SUBSET Addresses : IsFiniteSet(S) /\ Cardinality(S) \in Nat
<1>1. 2^Bits \in Nat
  <2>1. Bits \in 0..Bits
    BY NetworkScanAssumption
  <2> QED BY <2>1, PowersOfTwo
<1>2. IsFiniteSet(Addresses)
  BY <1>1, FS_Interval DEF Addresses
<1> QED BY <1>2, FS_Subset, FS_CardinalityType

LEMMA InAddresses ==
  ASSUME cidr \in [ip : Given, ones : Ones]
  PROVE  \A a : a \in Addresses <=> a \in Nat /\ a < 2^Bits
<1> DEFINE N == 2^Bits
<1>1. N \in Nat /\ Addresses = 0..(N - 1)
  BY NetworkFacts DEF Addresses
<1> HIDE DEF N
<1>2. \A a : a \in 0..(N - 1) <=> a \in Nat /\ a < N
  BY <1>1
<1> QED BY <1>1, <1>2 DEF N

\* An address of the network is the next one of the list; there is none past the last.
LEMMA NextHost ==
  ASSUME TypeOK, ListIsInOrder, phase = "list"
  PROVE  /\ InNetwork(curr) <=> Len(hosts) < Size
         /\ InNetwork(curr) => curr = First + Len(hosts)
         /\ ~InNetwork(curr) => Len(hosts) = Size
<1> DEFINE n == Len(hosts)
           N == 2^Bits
<1>1. /\ Size \in Nat /\ Size > 0 /\ N \in Nat /\ Size < N /\ First \in Nat /\ First + Size <= N
      /\ n \in Nat /\ n <= Size /\ curr = (First + n) % N
      /\ \A a \in Nat : InNetwork(a) <=> First <= a /\ a < First + Size
  BY NetworkFacts DEF TypeOK, ListIsInOrder
<1> HIDE DEF n, N
<1>2. CASE n < Size
  <2>1. First + n < N /\ First + n \in Nat /\ N > 0
    BY <1>1, <1>2
  <2>2. curr = First + n
    BY <1>1, <2>1
  <2> QED BY <1>1, <1>2, <2>1, <2>2 DEF n
<1>3. CASE n = Size
  <2>1. CASE First + Size < N
    <3>1. curr = First + Size
      BY <1>1, <1>3, <2>1
    <3>2. curr \in Nat /\ ~(curr < First + Size)
      BY <1>1, <3>1
    <3> QED BY <1>1, <1>3, <3>2 DEF n
  <2>2. CASE First + Size = N
    <3>1. curr = 0
      BY <1>1, <1>3, <2>2
    <3>2. ~(First <= 0)
      BY <1>1, <2>2
    <3> QED BY <1>1, <1>3, <3>1, <3>2 DEF n
  <2> QED BY <1>1, <2>1, <2>2
<1> QED BY <1>1, <1>2, <1>3

\* The list without the first and the last of a network of more than two.
LEMMA TrimmedHosts ==
  ASSUME TypeOK, ListIsInOrder, phase = "list", Len(hosts) = Size
  PROVE  /\ Trimmed(hosts) \in Seq(Addresses)
         /\ Size > 2 => /\ Len(Trimmed(hosts)) = Size - 2
                        /\ \A i \in 1..(Size - 2) : Trimmed(hosts)[i] = First + i
         /\ ~(Size > 2) => Trimmed(hosts) = hosts
<1>1. /\ cidr.ones < Bits - 1 <=> Size > 2
      /\ Size \in Nat /\ First \in Nat /\ hosts \in Seq(Addresses)
      /\ \A i \in 1..Size : hosts[i] = First + (i - 1)
  BY NetworkFacts DEF TypeOK, ListIsInOrder
<1>2. CASE Size > 2
  <2>1. Trimmed(hosts) = SubSeq(hosts, 2, Len(hosts) - 1)
    BY <1>1, <1>2 DEF Trimmed
  <2>2. /\ Trimmed(hosts) \in Seq(Addresses) /\ Len(Trimmed(hosts)) = Size - 2
        /\ \A i \in 1..(Size - 2) : Trimmed(hosts)[i] = hosts[i + 1]
    BY <1>1, <1>2, <2>1
  <2>3. \A i \in 1..(Size - 2) : i + 1 \in 1..Size /\ First + ((i + 1) - 1) = First + i
    BY <1>1
  <2> QED BY <1>1, <1>2, <2>2, <2>3
<1>3. CASE ~(Size > 2)
  BY <1>1, <1>3 DEF Trimmed
<1> QED BY <1>2, <1>3

LEMMA UsableHosts ==
  ASSUME TypeOK
  PROVE  Usable = IF Size > 2 THEN (First + 1)..(First + Size - 2)
                  ELSE First..(First + Size - 1)
<1>1. /\ Size \in Nat /\ Size > 0 /\ 2^Bits \in Nat /\ First \in Nat /\ First + Size <= 2^Bits
      /\ \A a \in Nat : InNetwork(a) <=> First <= a /\ a < First + Size
      /\ \A n \in Nat : n < Size => (First + n) % Size = n
      /\ \A a : a \in Addresses <=> a \in Nat /\ a < 2^Bits
  BY NetworkFacts, InAddresses DEF TypeOK
<1>2. \A a : a \in Addresses /\ InNetwork(a) <=> a \in First..(First + Size - 1)
  BY <1>1
<1>3. \A a \in First..(First + Size - 1) : a % Size = a - First
  <2> SUFFICES ASSUME NEW a \in First..(First + Size - 1) PROVE a % Size = a - First
    OBVIOUS
  <2>1. a - First \in Nat /\ a - First < Size /\ a = First + (a - First)
    BY <1>1
  <2> QED BY <1>1, <2>1
<1>4. CASE Size > 2
  <2>1. \A a \in First..(First + Size - 1) :
          a - First \notin {0, Size - 1} <=> a \in (First + 1)..(First + Size - 2)
    BY <1>1, <1>4
  <2>2. \A a : a \in (First + 1)..(First + Size - 2) => a \in First..(First + Size - 1)
    BY <1>1
  <2> QED BY <1>2, <1>3, <1>4, <2>1, <2>2 DEF Usable
<1>5. CASE ~(Size > 2)
  BY <1>2, <1>5 DEF Usable
<1> QED BY <1>4, <1>5

LEMMA ListedIsUsable ==
  ASSUME TypeOK, ListIsInOrder, phase = "list", Len(hosts) = Size, NEW l, l = Trimmed(hosts)
  PROVE  /\ {l[i] : i \in 1..Len(l)} = Usable /\ Len(l) = Cardinality(Usable)
         /\ \A i, j \in 1..Len(l) : l[i] = l[j] => i = j
<1>1. Size \in Nat /\ Size > 0 /\ First \in Nat
  BY NetworkFacts DEF TypeOK
<1>2. CASE Size > 2
  <2>1. Len(l) = Size - 2 /\ \A i \in 1..(Size - 2) : l[i] = First + i
    BY <1>2, TrimmedHosts
  <2>2. Usable = (First + 1)..(First + Size - 2)
    BY <1>2, UsableHosts
  <2>3. {l[i] : i \in 1..Len(l)} = Usable
    <3>1. \A i \in 1..(Size - 2) : First + i \in Usable
      BY <1>1, <2>2
    <3>2. \A a \in Usable : a - First \in 1..(Size - 2) /\ First + (a - First) = a
      BY <1>1, <2>2
    <3> QED BY <2>1, <3>1, <3>2
  <2>4. Cardinality(Usable) = Size - 2
    BY <1>1, <1>2, <2>2, FS_Interval
  <2> QED BY <1>1, <2>1, <2>3, <2>4
<1>3. CASE ~(Size > 2)
  <2>1. Len(l) = Size /\ \A i \in 1..Size : l[i] = First + (i - 1)
    BY <1>3, TrimmedHosts DEF ListIsInOrder
  <2>2. Usable = First..(First + Size - 1)
    BY <1>3, UsableHosts
  <2>3. {l[i] : i \in 1..Len(l)} = Usable
    <3>1. \A i \in 1..Size : First + (i - 1) \in Usable
      BY <1>1, <2>2
    <3>2. \A a \in Usable : (a - First) + 1 \in 1..Size /\ First + (((a - First) + 1) - 1) = a
      BY <1>1, <2>2
    <3> QED BY <2>1, <3>1, <3>2
  <2>4. Cardinality(Usable) = Size
    BY <1>1, <2>2, FS_Interval
  <2> QED BY <1>1, <2>1, <2>3, <2>4
<1> QED BY <1>2, <1>3
-----------------------------------------------------------------------------
(***************************************************************************)
(* The invariant in the parts the steps disturb.                           *)
(***************************************************************************)
HostsInv == ListIsInOrder /\ HostsAreUsable /\ HostsAreNew

SlotsInv == Cardinality(Running) <= Threads /\ slots = Cardinality(Running)

AnswerInv == NobodyComesLater /\ OnlyCutShortLoses

Parts == TypeOK /\ HostsInv /\ SlotsInv /\ FoundIsAdded /\ AnswerInv /\ LastProbe

LEMMA InvParts == IInv <=> Parts
BY DEF IInv, ProbesAreBounded, Parts, HostsInv, SlotsInv, AnswerInv

\* A step of the loop that starts no probe.
LEMMA SameProbes ==
  ASSUME Parts, UNCHANGED <<slots, probe, mu, results, found>>
  PROVE  SlotsInv' /\ FoundIsAdded' /\ Running' = Running
<1>1. Running' = Running
  BY DEF Running
<1> QED BY <1>1 DEF Parts, SlotsInv, FoundIsAdded

LEMMA InvList == ASSUME Parts, List PROVE Parts'
<1>1. /\ phase = "list" /\ InNetwork(curr) /\ phase' = "list"
      /\ hosts' = Append(hosts, curr) /\ curr' = incIP(curr)
      /\ UNCHANGED <<cidr, listed, slots, probe, mu, results, found, answer, late, cancelled, over>>
  BY DEF List, outcome, ending
<1>2. /\ Len(hosts) < Size /\ curr = First + Len(hosts) /\ hosts \in Seq(Addresses)
      /\ curr \in Addresses
  BY <1>1, NextHost DEF Parts, HostsInv, TypeOK
<1>3. /\ Size \in Nat /\ First \in Nat /\ Len(hosts) \in Nat
      /\ Size' = Size /\ First' = First
  BY <1>1, <1>2, NetworkFacts DEF Parts, TypeOK, Size, First
<1>4. /\ hosts' \in Seq(Addresses) /\ Len(hosts') = Len(hosts) + 1
      /\ \A i \in 1..Len(hosts) : hosts'[i] = hosts[i]
      /\ hosts'[Len(hosts) + 1] = curr
  BY <1>1, <1>2
<1>5. \A i \in 1..Len(hosts') : hosts'[i] = First + (i - 1)
  <2> SUFFICES ASSUME NEW i \in 1..Len(hosts') PROVE hosts'[i] = First + (i - 1)
    OBVIOUS
  <2>1. CASE i \in 1..Len(hosts)
    BY <1>1, <1>4, <2>1 DEF Parts, HostsInv, ListIsInOrder
  <2>2. CASE i = Len(hosts) + 1
    BY <1>2, <1>3, <1>4, <2>2
  <2> QED BY <1>3, <1>4, <2>1, <2>2
<1>6. curr' = (First' + Len(hosts')) % 2^Bits /\ Len(hosts') <= Size'
  <2>1. First + (Len(hosts) + 1) = curr + 1
    BY <1>2, <1>3
  <2> QED BY <1>1, <1>2, <1>3, <1>4, <2>1 DEF incIP
<1>7. curr' \in Addresses
  <2> DEFINE N == 2^Bits
  <2>1. N \in Nat /\ N > 0 /\ curr \in Nat
    BY <1>2, NetworkFacts, InAddresses DEF Parts, TypeOK
  <2> HIDE DEF N
  <2>2. (curr + 1) % N \in Nat /\ (curr + 1) % N < N
    BY <2>1, Division
  <2> QED BY <1>1, <2>2, InAddresses DEF N, incIP, Parts, TypeOK
<1>8. TypeOK'
  BY <1>1, <1>4, <1>7 DEF Parts, TypeOK
<1>9. HostsInv'
  <2>1. ListIsInOrder'
    BY <1>3, <1>5, <1>6 DEF ListIsInOrder
  <2>2. \A i, j \in 1..Len(hosts') : hosts'[i] = hosts'[j] => i = j
    BY <1>3, <1>4, <1>5
  <2>3. \A a \in Addresses : probe'[a] = "none"
    BY <1>1 DEF Parts, HostsInv, HostsAreNew
  <2>4. HostsAreNew'
    BY <1>4, <2>2, <2>3 DEF HostsAreNew
  <2> QED BY <1>1, <2>1, <2>4 DEF HostsInv, HostsAreUsable
<1>10. AnswerInv' /\ LastProbe'
  BY <1>1, SameProbes DEF Parts, AnswerInv, NobodyComesLater, OnlyCutShortLoses, LastProbe
<1> QED BY <1>1, <1>8, <1>9, <1>10, SameProbes DEF Parts

LEMMA InvListed == ASSUME Parts, Listed PROVE Parts'
<1>1. /\ phase = "list" /\ ~InNetwork(curr) /\ phase' = "loop"
      /\ hosts' = Trimmed(hosts) /\ listed' = hosts'
      /\ UNCHANGED <<cidr, curr, slots, probe, mu, results, found, answer, late, cancelled, over>>
  BY DEF Listed, outcome, ending
<1>2. Len(hosts) = Size /\ TypeOK /\ ListIsInOrder
  BY <1>1, NextHost DEF Parts, HostsInv
<1>3. hosts' \in Seq(Addresses)
  BY <1>1, <1>2, TrimmedHosts
<1>4. /\ {listed'[i] : i \in 1..Len(listed')} = Usable /\ Len(listed') = Cardinality(Usable)
      /\ \A i, j \in 1..Len(hosts') : hosts'[i] = hosts'[j] => i = j
  BY <1>1, <1>2, ListedIsUsable
<1>5. TypeOK'
  BY <1>1, <1>3 DEF Parts, TypeOK
<1>6. HostsInv'
  <2>1. Usable' = Usable
    BY <1>1 DEF Usable, Size, InNetwork
  <2>2. HostsAreUsable'
    BY <1>4, <2>1 DEF HostsAreUsable
  <2>3. HostsAreNew'
    BY <1>1, <1>3, <1>4 DEF Parts, HostsInv, HostsAreNew
  <2> QED BY <1>1, <2>2, <2>3 DEF HostsInv, ListIsInOrder
<1>7. AnswerInv' /\ LastProbe'
  BY <1>1, SameProbes DEF Parts, AnswerInv, NobodyComesLater, OnlyCutShortLoses, LastProbe
<1> QED BY <1>1, <1>5, <1>6, <1>7, SameProbes DEF Parts

\* A step that leaves the list of hosts alone, and probes none of those left.
LEMMA SameHosts ==
  ASSUME Parts, UNCHANGED <<cidr, curr, listed, hosts>>,
         phase' = phase \/ phase' # "list",
         phase' \in {"loop", "acquire"} => phase \in {"loop", "acquire"},
         phase' = "list" => probe' = probe,
         phase' = "acquire" => hosts # <<>>,
         \A i \in 1..Len(hosts) : probe'[hosts[i]] = "none"
  PROVE  HostsInv'
<1>1. Size' = Size /\ First' = First /\ Usable' = Usable
  BY DEF Size, First, Usable, InNetwork
<1>2. ListIsInOrder'
  BY <1>1 DEF Parts, HostsInv, ListIsInOrder
<1>3. HostsAreUsable'
  BY <1>1 DEF Parts, HostsInv, HostsAreUsable
<1>4. HostsAreNew'
  BY DEF Parts, HostsInv, HostsAreNew
<1> QED BY <1>2, <1>3, <1>4 DEF HostsInv

LEMMA NoProbe == ASSUME Parts PROVE \A i \in 1..Len(hosts) : probe[hosts[i]] = "none"
BY DEF Parts, HostsInv, HostsAreNew

LEMMA InvLoop == ASSUME Parts, Loop PROVE Parts'
<1>1. /\ phase = "loop" /\ ~cancelled /\ phase' = "acquire" /\ hosts # <<>>
      /\ UNCHANGED <<cidr, curr, listed, hosts, slots, probe, mu, results, found, answer, late,
                     cancelled, over>>
  BY DEF Loop, Lives, listing, outcome, ending
<1>2. TypeOK'
  BY <1>1 DEF Parts, TypeOK
<1>3. HostsInv'
  BY <1>1, SameHosts, NoProbe
<1>4. AnswerInv' /\ LastProbe'
  BY <1>1, SameProbes DEF Parts, AnswerInv, NobodyComesLater, OnlyCutShortLoses, LastProbe,
                          TypeOK
<1> QED BY <1>1, <1>2, <1>3, <1>4, SameProbes DEF Parts

LEMMA InvStart == ASSUME Parts, Start PROVE Parts'
<1> DEFINE h == Head(hosts)
<1>1. /\ phase = "acquire" /\ slots < Threads /\ slots' = slots + 1
      /\ probe' = [probe EXCEPT ![h] = "dial"] /\ hosts' = Tail(hosts) /\ phase' = "loop"
      /\ over' = IF cancelled THEN over + 1 ELSE over
      /\ UNCHANGED <<cidr, curr, listed, mu, results, found, answer, late, cancelled>>
  BY DEF Start, Free, listing, outcome, ending
<1>2. /\ h \in Addresses /\ hosts' \in Seq(Addresses) /\ Len(hosts') = Len(hosts) - 1
      /\ \A i \in 1..Len(hosts') : hosts'[i] = hosts[i + 1]
      /\ h = hosts[1] /\ Len(hosts) \in Nat /\ Len(hosts) > 0
  BY <1>1 DEF Parts, HostsInv, HostsAreNew, TypeOK
<1> HIDE DEF h
<1>3. /\ probe[h] = "none" /\ probe'[h] = "dial"
      /\ \A a \in Addresses : a # h => probe'[a] = probe[a]
  BY <1>1, <1>2, NoProbe DEF Parts, TypeOK
<1>4. TypeOK'
  BY <1>1, <1>2 DEF Parts, TypeOK
<1>5. HostsInv'
  <2>1. Usable' = Usable
    BY <1>1 DEF Usable, Size, InNetwork
  <2>2. HostsAreUsable'
    BY <1>1, <2>1 DEF Parts, HostsInv, HostsAreUsable
  <2>3. \A i \in 1..Len(hosts') : i + 1 \in 1..Len(hosts) /\ i + 1 # 1
    BY <1>2
  <2>4. \A i, j \in 1..Len(hosts') : hosts'[i] = hosts'[j] => i = j
    <3>1. \A i, j \in 1..Len(hosts') : hosts'[i] = hosts'[j] => i + 1 = j + 1
      BY <1>2, <2>3 DEF Parts, HostsInv, HostsAreNew
    <3> QED BY <1>2, <3>1
  <2>5. \A i \in 1..Len(hosts') : probe'[hosts'[i]] = "none"
    <3> SUFFICES ASSUME NEW i \in 1..Len(hosts') PROVE probe'[hosts'[i]] = "none"
      OBVIOUS
    <3>1. hosts'[i] # h
      BY <1>2, <2>3 DEF Parts, HostsInv, HostsAreNew
    <3>2. hosts'[i] \in Addresses /\ probe[hosts'[i]] = "none"
      BY <1>2, <2>3, NoProbe
    <3> QED BY <1>3, <3>1, <3>2
  <2>6. HostsAreNew'
    BY <1>1, <2>4, <2>5 DEF HostsAreNew
  <2> QED BY <1>1, <2>2, <2>6 DEF HostsInv, ListIsInOrder
<1>6. SlotsInv'
  <2>1. Running' = Running \cup {h} /\ h \notin Running
    BY <1>2, <1>3 DEF Running
  <2>2. Running \in SUBSET Addresses
    BY DEF Running
  <2>3. Cardinality(Running') = Cardinality(Running) + 1
    BY <2>1, <2>2, AddressesFinite, FS_AddElement
  <2>4. Threads \in Nat /\ Cardinality(Running) \in Nat
    BY <2>2, AddressesFinite, NetworkScanAssumption
  <2> QED BY <1>1, <2>3, <2>4 DEF Parts, SlotsInv
<1>7. FoundIsAdded'
  BY <1>1, <1>3 DEF Parts, FoundIsAdded
<1>8. AnswerInv'
  BY <1>1 DEF Parts, AnswerInv, NobodyComesLater, OnlyCutShortLoses
<1>9. LastProbe'
  <2>1. over \in Nat /\ ~(over > 0) /\ cancelled \in BOOLEAN
    BY <1>1 DEF Parts, LastProbe, TypeOK
  <2>2. over' = IF cancelled THEN 1 ELSE 0
    BY <1>1, <2>1
  <2> QED BY <1>1, <2>1, <2>2 DEF LastProbe
<1> QED BY <1>4, <1>5, <1>6, <1>7, <1>8, <1>9 DEF Parts

\* What Scan gives up with is what was found, but for what is under way.
LEMMA InvGiveUp == ASSUME Parts, GiveUp PROVE Parts'
<1>1. /\ phase \in {"loop", "acquire"} /\ phase' = "drain" /\ answer' \in Seen /\ late' = Running
      /\ UNCHANGED <<cidr, curr, listed, hosts, slots, probe, mu, results, found, cancelled, over>>
  BY DEF GiveUp, listing, outcome
<1>2. Running \subseteq Addresses
  BY DEF Running
<1>3. results \subseteq Addresses /\ results \subseteq found /\ mu \in Addresses \cup {None}
  BY DEF Parts, TypeOK, FoundIsAdded
<1>4. TypeOK'
  <2>1. answer' \subseteq Addresses \cup {Torn}
    BY <1>1, <1>3 DEF Seen
  <2> QED BY <1>1, <1>2, <2>1 DEF Parts, TypeOK
<1>5. HostsInv'
  BY <1>1, SameHosts, NoProbe
<1>6. NobodyComesLater'
  BY <1>1, SameProbes DEF NobodyComesLater
<1>7. found \ results \subseteq Running
  <2>1. found \subseteq Addresses
    BY DEF Parts, TypeOK
  <2> QED BY <2>1 DEF Parts, FoundIsAdded, Running
<1>8. mu # None => mu \in Running /\ mu \in found
  BY <1>3 DEF Parts, FoundIsAdded, Running
<1>9. results \subseteq answer' /\ (answer' = results \/ mu # None)
  BY <1>1 DEF Seen
<1>10. answer' \ found \subseteq {Torn}
  BY <1>1, <1>3, <1>8 DEF Seen
<1>11. OnlyCutShortLoses'
  BY <1>1, <1>3, <1>7, <1>8, <1>9, <1>10 DEF OnlyCutShortLoses
<1>12. LastProbe'
  BY <1>1 DEF Parts, LastProbe, TypeOK
<1> QED BY <1>1, <1>4, <1>5, <1>6, <1>11, <1>12, SameProbes DEF Parts, AnswerInv

LEMMA InvFinish == ASSUME Parts, Finish PROVE Parts'
<1>1. /\ phase = "loop" /\ Running = {} /\ answer' = results /\ phase' = "returned"
      /\ UNCHANGED <<cidr, curr, listed, hosts, slots, probe, mu, results, found, late, cancelled,
                     over>>
  BY DEF Finish, Waited, listing, outcome
<1>2. TypeOK'
  BY <1>1 DEF Parts, TypeOK
<1>3. HostsInv'
  BY <1>1, SameHosts, NoProbe
<1>4. AnswerInv'
  <2>1. found \ results = {} /\ results \subseteq found
    BY <1>1 DEF Parts, FoundIsAdded, Running, TypeOK
  <2>2. NobodyComesLater'
    BY <1>1, SameProbes DEF NobodyComesLater
  <2>3. OnlyCutShortLoses'
    BY <1>1, <2>1 DEF OnlyCutShortLoses
  <2> QED BY <2>2, <2>3 DEF AnswerInv
<1>5. LastProbe'
  BY <1>1 DEF Parts, LastProbe, TypeOK
<1> QED BY <1>1, <1>2, <1>3, <1>4, <1>5, SameProbes DEF Parts

LEMMA InvDrained == ASSUME Parts, Drained PROVE Parts'
<1>1. /\ phase = "drain" /\ Running = {} /\ phase' = "returned"
      /\ UNCHANGED <<cidr, curr, listed, hosts, slots, probe, mu, results, found, answer, late,
                     cancelled, over>>
  BY DEF Drained, listing, outcome, ending
<1>2. TypeOK'
  BY <1>1 DEF Parts, TypeOK
<1>3. HostsInv'
  BY <1>1, SameHosts, NoProbe
<1>4. AnswerInv' /\ LastProbe'
  BY <1>1, SameProbes DEF Parts, AnswerInv, NobodyComesLater, OnlyCutShortLoses, LastProbe,
                          TypeOK
<1> QED BY <1>1, <1>2, <1>3, <1>4, SameProbes DEF Parts

LEMMA InvCancel == ASSUME Parts, Cancel \/ UNCHANGED vars PROVE Parts'
<1>1. /\ cancelled' = TRUE \/ cancelled' = cancelled
      /\ UNCHANGED <<cidr, curr, listed, phase, hosts, slots, probe, mu, results, found, answer,
                     late, over>>
  BY DEF Cancel, vars, listing, outcome, ending
<1>2. TypeOK'
  BY <1>1 DEF Parts, TypeOK
<1>3. HostsInv'
  BY <1>1, SameHosts, NoProbe DEF Parts, HostsInv, HostsAreNew
<1>4. AnswerInv' /\ LastProbe'
  BY <1>1, SameProbes DEF Parts, AnswerInv, NobodyComesLater, OnlyCutShortLoses, LastProbe,
                          TypeOK
<1> QED BY <1>1, <1>2, <1>3, <1>4, SameProbes DEF Parts
-----------------------------------------------------------------------------
(***************************************************************************)
(* The goroutine of a host.                                                *)
(***************************************************************************)
\* The goroutine of host a comes to step s.
Comes(a, s) == probe' = [probe EXCEPT ![a] = s]

ProbeSteps == {"dial", "status", "din", "found", "append", "done"}

LEMMA OthersProbe ==
  ASSUME Parts, NEW a \in Addresses, NEW s \in ProbeSteps, Comes(a, s), probe[a] # "none",
         UNCHANGED <<cidr, curr, listed, hosts, phase>>
  PROVE  /\ probe' \in [Addresses -> {"none"} \cup ProbeSteps] /\ probe'[a] = s
         /\ \A b \in Addresses : b # a => probe'[b] = probe[b]
         /\ HostsInv'
<1>1. /\ probe' \in [Addresses -> {"none"} \cup ProbeSteps] /\ probe'[a] = s
      /\ \A b \in Addresses : b # a => probe'[b] = probe[b]
  BY DEF Parts, TypeOK, Comes, ProbeSteps
<1>2. phase # "list"
  BY DEF Parts, HostsInv, HostsAreNew
<1>3. \A i \in 1..Len(hosts) : hosts[i] \in Addresses /\ hosts[i] # a
  BY NoProbe DEF Parts, TypeOK
<1>4. \A i \in 1..Len(hosts) : probe'[hosts[i]] = "none"
  BY <1>1, <1>3, NoProbe
<1>5. phase = "acquire" => hosts # <<>>
  BY DEF Parts, HostsInv, HostsAreNew
<1> QED BY <1>1, <1>2, <1>4, <1>5, SameHosts

\* It goes on, and keeps its slot ...
LEMMA GoesOn ==
  ASSUME Parts, NEW a \in Addresses, NEW s \in ProbeSteps \ {"done"}, Comes(a, s),
         probe[a] \notin {"none", "done"}, UNCHANGED <<cidr, curr, listed, hosts, phase, slots>>
  PROVE  Running' = Running /\ SlotsInv'
<1>1. Running' = Running
  BY OthersProbe DEF Running, ProbeSteps
<1> QED BY <1>1 DEF Parts, SlotsInv

\* ... or ends, and gives it back.
LEMMA Ends ==
  ASSUME Parts, NEW a \in Addresses, Comes(a, "done"), slots' = slots - 1,
         probe[a] \notin {"none", "done"}, UNCHANGED <<cidr, curr, listed, hosts, phase>>
  PROVE  Running' \subseteq Running /\ SlotsInv' /\ slots' \in Nat
<1>1. Running' = Running \ {a} /\ a \in Running
  BY OthersProbe DEF Running, ProbeSteps
<1>2. Running \in SUBSET Addresses /\ Running' \in SUBSET Addresses
  BY <1>1 DEF Running
<1>3. Cardinality(Running') = Cardinality(Running) - 1
  BY <1>1, <1>2, AddressesFinite, FS_RemoveElement
<1>4. Threads \in Nat /\ Cardinality(Running) \in Nat /\ Cardinality(Running') \in Nat
  BY <1>2, AddressesFinite, NetworkScanAssumption
<1> QED BY <1>1, <1>3, <1>4 DEF Parts, SlotsInv

\* The answer stays right when those that were under way find something.
LEMMA AnswerStays ==
  ASSUME Parts, UNCHANGED <<phase, answer, late>>, Running' \subseteq Running,
         found \subseteq found', found' \ found \subseteq Running
  PROVE  AnswerInv'
<1>1. NobodyComesLater'
  BY DEF Parts, AnswerInv, NobodyComesLater
<1>2. OnlyCutShortLoses'
  <2>1. answer # None => found' \ found \subseteq late
    BY DEF Parts, AnswerInv, NobodyComesLater
  <2>2. answer # None =>
          /\ found \ answer \subseteq late
          /\ answer \ found \subseteq (IF late = {} THEN {} ELSE {Torn})
    BY DEF Parts, AnswerInv, OnlyCutShortLoses
  <2>3. answer # None => found' \ answer \subseteq late
    BY <2>1, <2>2
  <2>4. answer # None => answer \ found' \subseteq (IF late = {} THEN {} ELSE {Torn})
    BY <2>2
  <2> QED BY <2>3, <2>4 DEF OnlyCutShortLoses
<1> QED BY <1>1, <1>2 DEF AnswerInv

LEMMA InvIP == ASSUME Parts, NEW a \in Addresses, IP(a) PROVE Parts'
<1>1. /\ UNCHANGED <<cidr, curr, listed, phase, hosts, answer, late, cancelled, over>>
      /\ probe \in [Addresses -> {"none"} \cup ProbeSteps]
  BY DEF IP, Connected, NotAGateway, Nothing, Found, Lock, Add, listing, ending, Parts, TypeOK,
         ProbeSteps
<1>2. LastProbe'
  BY <1>1 DEF Parts, LastProbe
<1>3. ASSUME NEW s \in ProbeSteps, Comes(a, s), probe[a] # "none", slots' \in Nat,
             mu' \in Addresses \cup {None}, results' \subseteq Addresses, found' \subseteq Addresses
      PROVE  TypeOK' /\ HostsInv'
  BY <1>1, <1>3, OthersProbe DEF Parts, TypeOK, ProbeSteps
<1>4. slots \in Nat /\ results \subseteq Addresses /\ found \subseteq Addresses
      /\ mu \in Addresses \cup {None}
  BY DEF Parts, TypeOK
<1>5. ASSUME NEW s \in {"status", "din"}, Comes(a, s), probe[a] \in {"dial", "status"},
             UNCHANGED <<slots, mu, results, found>>
      PROVE  Parts'
  <2>1. s \in ProbeSteps \ {"done"} /\ probe[a] \notin {"none", "done"}
    BY <1>5 DEF ProbeSteps
  <2>2. Running' = Running /\ SlotsInv'
    BY <1>1, <1>5, <2>1, GoesOn
  <2>3. TypeOK' /\ HostsInv'
    BY <1>3, <1>4, <1>5, <2>1
  <2>4. FoundIsAdded'
    BY <1>1, <1>5, <2>1, OthersProbe DEF Parts, FoundIsAdded, TypeOK
  <2>5. AnswerInv'
    BY <1>1, <1>5, <2>2, AnswerStays
  <2> QED BY <1>2, <2>2, <2>3, <2>4, <2>5 DEF Parts
<1>6. CASE Connected(a) \/ NotAGateway(a)
  BY <1>5, <1>6 DEF Connected, NotAGateway, Comes, outcome
<1>7. CASE Nothing(a)
  <2>1. /\ Comes(a, "done") /\ probe[a] \in {"dial", "din"} /\ slots' = slots - 1
        /\ UNCHANGED <<mu, results, found>>
    BY <1>7 DEF Nothing, End, Released, Comes, outcome
  <2>2. Running' \subseteq Running /\ SlotsInv' /\ slots' \in Nat
    BY <1>1, <2>1, Ends
  <2>3. TypeOK' /\ HostsInv'
    BY <1>3, <1>4, <2>1, <2>2 DEF ProbeSteps
  <2>4. FoundIsAdded'
    BY <1>1, <2>1, OthersProbe DEF Parts, FoundIsAdded, TypeOK, ProbeSteps
  <2>5. AnswerInv'
    BY <1>1, <2>1, <2>2, AnswerStays
  <2> QED BY <1>2, <2>2, <2>3, <2>4, <2>5 DEF Parts
<1>8. CASE Found(a)
  <2>1. /\ Comes(a, "found") /\ probe[a] \in {"status", "din"} /\ found' = found \cup {a}
        /\ UNCHANGED <<slots, mu, results>>
    BY <1>8 DEF Found, Comes
  <2>2. Running' = Running /\ SlotsInv' /\ a \in Running
    BY <1>1, <2>1, GoesOn DEF ProbeSteps, Running
  <2>3. TypeOK' /\ HostsInv'
    BY <1>3, <1>4, <2>1 DEF ProbeSteps
  <2>4. FoundIsAdded'
    BY <1>1, <2>1, OthersProbe DEF Parts, FoundIsAdded, TypeOK, ProbeSteps
  <2>5. AnswerInv'
    BY <1>1, <2>1, <2>2, AnswerStays
  <2> QED BY <1>2, <2>2, <2>3, <2>4, <2>5 DEF Parts
<1>9. CASE Lock(a)
  <2>1. /\ Comes(a, "append") /\ probe[a] = "found" /\ mu = None /\ mu' = a
        /\ UNCHANGED <<slots, results, found>>
    BY <1>9 DEF Lock, Comes
  <2>2. Running' = Running /\ SlotsInv'
    BY <1>1, <2>1, GoesOn DEF ProbeSteps
  <2>3. TypeOK' /\ HostsInv'
    BY <1>3, <1>4, <2>1 DEF ProbeSteps
  <2>4. FoundIsAdded'
    BY <1>1, <2>1, OthersProbe, NetworkScanAssumption DEF Parts, FoundIsAdded, TypeOK, ProbeSteps
  <2>5. AnswerInv'
    BY <1>1, <2>1, <2>2, AnswerStays
  <2> QED BY <1>2, <2>2, <2>3, <2>4, <2>5 DEF Parts
<1>10. CASE Add(a)
  <2>1. /\ Comes(a, "done") /\ probe[a] = "append" /\ slots' = slots - 1
        /\ results' = results \cup {a} /\ mu' = None /\ found' = found
    BY <1>10 DEF Add, End, Released, Comes
  <2>2. Running' \subseteq Running /\ SlotsInv' /\ slots' \in Nat
    BY <1>1, <2>1, Ends
  <2>3. TypeOK' /\ HostsInv'
    BY <1>3, <1>4, <2>1, <2>2 DEF ProbeSteps
  <2>4. FoundIsAdded'
    BY <1>1, <2>1, OthersProbe, NetworkScanAssumption DEF Parts, FoundIsAdded, TypeOK, ProbeSteps
  <2>5. AnswerInv'
    BY <1>1, <2>1, <2>2, AnswerStays
  <2> QED BY <1>2, <2>2, <2>3, <2>4, <2>5 DEF Parts
<1> QED BY <1>6, <1>7, <1>8, <1>9, <1>10 DEF IP
-----------------------------------------------------------------------------
LEMMA InvInit == Init => Parts
<1> SUFFICES ASSUME Init PROVE Parts
  OBVIOUS
<1>1. /\ Size \in Nat /\ Size > 0 /\ 2^Bits \in Nat /\ Size < 2^Bits
      /\ First \in Nat /\ First + Size <= 2^Bits /\ curr = First
  BY NetworkFacts DEF Init, First, Size
<1>2. TypeOK
  <2>1. curr \in Addresses
    BY <1>1, InAddresses DEF Init
  <2>2. hosts \in Seq(Addresses) /\ listed \in Seq(Addresses)
    BY DEF Init
  <2> QED BY <2>1, <2>2 DEF Init, TypeOK
<1>3. HostsInv
  <2> DEFINE N == 2^Bits
  <2>1. Len(hosts) = 0 /\ First + 0 = First /\ (First + 0) % N = First
    <3>1. Len(hosts) = 0
      BY DEF Init
    <3>2. N \in Nat /\ First < N
      BY <1>1
    <3> HIDE DEF N
    <3> QED BY <1>1, <3>1, <3>2
  <2>2. ListIsInOrder
    BY <1>1, <2>1 DEF ListIsInOrder
  <2>3. HostsAreNew
    BY <2>1 DEF Init, HostsAreNew
  <2> QED BY <2>2, <2>3 DEF Init, HostsInv, HostsAreUsable
<1>4. SlotsInv
  <2>1. Running = {}
    BY DEF Init, Running
  <2> QED BY <2>1, FS_EmptySet, NetworkScanAssumption DEF Init, SlotsInv
<1>5. FoundIsAdded
  BY NetworkScanAssumption DEF Init, FoundIsAdded
<1>6. AnswerInv /\ LastProbe
  BY DEF Init, AnswerInv, NobodyComesLater, OnlyCutShortLoses, LastProbe
<1> QED BY <1>2, <1>3, <1>4, <1>5, <1>6 DEF Parts

LEMMA InvNext == Parts /\ [Next]_vars => Parts'
BY InvList, InvListed, InvLoop, InvStart, InvGiveUp, InvFinish, InvDrained, InvCancel, InvIP
DEF Next, Scan

LEMMA Invariance == Spec => []IInv
BY InvInit, InvNext, InvParts, PTL DEF Spec
-----------------------------------------------------------------------------
(***************************************************************************)
(* What is probed is every usable address of the network, each once, also  *)
(* in a network that ends with the highest address.                        *)
(***************************************************************************)
THEOREM UsableHostsAreListed == Spec => []HostsAreUsable
BY Invariance, PTL DEF IInv

(***************************************************************************)
(* The semaphore bounds the goroutines and loses no slot; and every        *)
(* variable has its type.                                                  *)
(***************************************************************************)
THEOREM SlotsBoundProbes == Spec => []ProbesAreBounded
BY Invariance, PTL DEF IInv

(***************************************************************************)
(* A scan that is not cut short returns all that was found; one that is    *)
(* loses, or garbles, only what was being probed at that moment.           *)
(***************************************************************************)
THEOREM ScansLoseOnlyLate == Spec => []OnlyCutShortLoses
BY Invariance, PTL DEF IInv

(***************************************************************************)
(* The select may start one more probe after the context was cancelled;    *)
(* the check before it lets no second one follow.                          *)
(***************************************************************************)
THEOREM CancelStopsProbes == Spec => []OneProbeAfterCancel
<1>1. IInv => OneProbeAfterCancel
  BY DEF IInv, LastProbe, OneProbeAfterCancel
<1> QED BY <1>1, Invariance, PTL
=============================================================================
