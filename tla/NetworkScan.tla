----------------------------- MODULE NetworkScan -----------------------------
(***************************************************************************)
(* The scan of a network for gateways: powerwall/scan/scan.go.             *)
(*                                                                         *)
(* Scan lists the hosts of a CIDR, then starts a goroutine per host, as    *)
(* many at a time as its semaphore has slots, and each adds what it finds  *)
(* to results under a mutex.  When its context is cancelled it returns     *)
(* results as they are, read without the mutex, after its goroutines have  *)
(* ended.                                                                  *)
(*                                                                         *)
(* An address is a number of Bits bits.  Left out: what is printed, what a *)
(* device says of itself, IPv6 (whose list of hosts is empty).             *)
(***************************************************************************)
EXTENDS Naturals, Sequences, FiniteSets

CONSTANTS
  Bits,        \* of an address
  Given,       \* the addresses a CIDR may be given by
  Ones,        \* the prefix lengths; of a /0 the list of hosts never ends
  Threads,     \* the slots of the semaphore
  None,        \* no answer yet, nobody
  Torn         \* what a slice whose header is read while it is written may hold

Addresses == 0..(2^Bits - 1)

ASSUME NetworkScanAssumption ==
  /\ Bits \in Nat /\ Given \subseteq Addresses /\ Ones \subseteq 1..Bits /\ Threads \in Nat \ {0}
  /\ None # Torn /\ {None, Torn} \cap Addresses = {}

\* Laws of arithmetic, which the provers do not know.
ASSUME PowersOfTwo ==
  \A k \in 0..Bits : 2^k \in Nat /\ 2^k > k /\ 2^Bits = 2^k * 2^(Bits - k)

VARIABLES
  cidr,        \* [ip, ones]: what is scanned
  phase,       \* where Scan is
  curr,        \* the address Hosts has come to
  hosts,       \* those left to probe
  slots,       \* taken in the semaphore
  probe,       \* [Addresses -> how far the host's goroutine has come]
  mu,          \* who holds the mutex of results, or None
  results,     \* the addresses of the devices in results
  answer,      \* those of the devices Scan returns, or None
  cancelled,   \* the context is
  found,       \* history: the addresses at which a device was found
  listed,      \* history: the list of hosts
  late,        \* history: the hosts being probed when Scan gave up
  over         \* history: the probes started after the context was cancelled

vars == <<cidr, phase, curr, hosts, slots, probe, mu, results, answer, cancelled,
          found, listed, late, over>>

listing == <<cidr, curr, listed>>
outcome == <<mu, results, found>>
ending == <<answer, late>>

Init ==
  /\ cidr \in [ip : Given, ones : Ones]
  /\ phase = "list"
  /\ curr = cidr.ip - (cidr.ip % 2^(Bits - cidr.ones))
  /\ hosts = <<>> /\ listed = <<>>
  /\ slots = 0 /\ probe = [a \in Addresses |-> "none"]
  /\ mu = None /\ results = {} /\ answer = None
  /\ cancelled = FALSE
  /\ found = {} /\ late = {} /\ over = 0
-----------------------------------------------------------------------------
(***************************************************************************)
(* Hosts.                                                                  *)
(***************************************************************************)
incIP(ip) == (ip + 1) % 2^Bits

InNetwork(ip) == ip \div 2^(Bits - cidr.ones) = cidr.ip \div 2^(Bits - cidr.ones)

\* Mutant: a network of two loses them.
TrimmedAll(ips) == SubSeq(ips, 2, Len(ips) - 1)

\* The network's own address and its broadcast address are not hosts.
Trimmed(ips) == IF cidr.ones < Bits - 1 /\ Len(ips) > 2 THEN SubSeq(ips, 2, Len(ips) - 1) ELSE ips

List ==
  /\ phase = "list" /\ InNetwork(curr)
  /\ hosts' = Append(hosts, curr) /\ curr' = incIP(curr)
  /\ UNCHANGED <<cidr, listed, phase, slots, probe, outcome, ending, cancelled, over>>

Listed ==
  /\ phase = "list" /\ ~InNetwork(curr)
  /\ hosts' = Trimmed(hosts) /\ listed' = hosts'
  /\ phase' = "loop"
  /\ UNCHANGED <<cidr, curr, slots, probe, outcome, ending, cancelled, over>>
-----------------------------------------------------------------------------
(***************************************************************************)
(* The loop of Scan.  "acquire" is its select; of two cases that are ready *)
(* either may be taken.                                                    *)
(***************************************************************************)
\* Mutant: the context is looked at in the select alone.
Unread == TRUE

Lives == ~cancelled

Loop ==
  /\ phase = "loop" /\ hosts # <<>> /\ Lives
  /\ phase' = "acquire"
  /\ UNCHANGED <<listing, hosts, slots, probe, outcome, ending, cancelled, over>>

\* Mutant: one probe too many.
Crowded == slots <= Threads

Free == slots < Threads

Start ==
  /\ phase = "acquire" /\ Free
  /\ slots' = slots + 1
  /\ probe' = [probe EXCEPT ![Head(hosts)] = "dial"]
  /\ hosts' = Tail(hosts)
  /\ phase' = "loop"
  /\ over' = IF cancelled THEN over + 1 ELSE over
  /\ UNCHANGED <<listing, outcome, ending, cancelled>>

\* What a read of results without the mutex may give.
Seen ==
  {results} \cup IF mu = None THEN {} ELSE {results \cup {mu}, results \cup {Torn}}

Running == {a \in Addresses : probe[a] \notin {"none", "done"}}

GiveUp ==
  /\ cancelled /\ phase \in {"loop", "acquire"} /\ hosts # <<>>
  /\ answer' \in Seen /\ late' = Running
  /\ phase' = "drain"
  /\ UNCHANGED <<listing, hosts, slots, probe, outcome, cancelled, over>>

\* Mutant: the results are taken before the last goroutines have ended.
WaitNot == TRUE

Waited == Running = {}

Finish ==
  /\ phase = "loop" /\ hosts = <<>> /\ Waited
  /\ answer' = results
  /\ phase' = "returned"
  /\ UNCHANGED <<listing, hosts, slots, probe, outcome, late, cancelled, over>>

\* The deferred wait.
Drained ==
  /\ phase = "drain" /\ Running = {}
  /\ phase' = "returned"
  /\ UNCHANGED <<listing, hosts, slots, probe, outcome, ending, cancelled, over>>
-----------------------------------------------------------------------------
(***************************************************************************)
(* IP, in the goroutine of host a: a connection, then /api/status, then    *)
(* /tedapi/din.                                                            *)
(***************************************************************************)
\* Mutant: a goroutine that found a device keeps its slot.
Leaked(a) == IF a \in found THEN slots ELSE slots - 1

Released(a) == slots - 1

End(a) == probe' = [probe EXCEPT ![a] = "done"] /\ slots' = Released(a)

Connected(a) ==
  /\ probe[a] = "dial"
  /\ probe' = [probe EXCEPT ![a] = "status"]
  /\ UNCHANGED <<listing, phase, hosts, slots, outcome, ending, cancelled, over>>

NotAGateway(a) ==
  /\ probe[a] = "status"
  /\ probe' = [probe EXCEPT ![a] = "din"]
  /\ UNCHANGED <<listing, phase, hosts, slots, outcome, ending, cancelled, over>>

Nothing(a) ==
  /\ probe[a] \in {"dial", "din"}
  /\ End(a)
  /\ UNCHANGED <<listing, phase, hosts, outcome, ending, cancelled, over>>

Found(a) ==
  /\ probe[a] \in {"status", "din"}
  /\ probe' = [probe EXCEPT ![a] = "found"] /\ found' = found \cup {a}
  /\ UNCHANGED <<listing, phase, hosts, slots, mu, results, ending, cancelled, over>>

Lock(a) ==
  /\ probe[a] = "found" /\ mu = None
  /\ mu' = a /\ probe' = [probe EXCEPT ![a] = "append"]
  /\ UNCHANGED <<listing, phase, hosts, slots, results, found, ending, cancelled, over>>

Add(a) ==
  /\ probe[a] = "append"
  /\ results' = results \cup {a} /\ mu' = None
  /\ End(a)
  /\ UNCHANGED <<listing, phase, hosts, found, ending, cancelled, over>>

Cancel ==
  /\ ~cancelled /\ phase # "returned"
  /\ cancelled' = TRUE
  /\ UNCHANGED <<listing, phase, hosts, slots, probe, outcome, ending, over>>

Scan == List \/ Listed \/ Loop \/ Start \/ GiveUp \/ Finish \/ Drained

IP(a) == Connected(a) \/ NotAGateway(a) \/ Nothing(a) \/ Found(a) \/ Lock(a) \/ Add(a)

Next == Scan \/ Cancel \/ \E a \in Addresses : IP(a)

Spec == Init /\ [][Next]_vars

\* Every request has a timeout; the mutex is contended by finitely many.
FairSpec == Spec /\ WF_vars(Scan) /\ \A a \in Addresses : WF_vars(IP(a))
-----------------------------------------------------------------------------
TypeOK ==
  /\ cidr \in [ip : Given, ones : Ones]
  /\ phase \in {"list", "loop", "acquire", "drain", "returned"}
  /\ curr \in Addresses
  /\ hosts \in Seq(Addresses) /\ listed \in Seq(Addresses)
  /\ slots \in Nat /\ over \in Nat
  /\ probe \in [Addresses -> {"none", "dial", "status", "din", "found", "append", "done"}]
  /\ mu \in Addresses \cup {None}
  /\ results \subseteq Addresses /\ found \subseteq Addresses
  /\ late \subseteq Addresses
  /\ answer = None \/ answer \subseteq Addresses \cup {Torn}
  /\ cancelled \in BOOLEAN

Size == 2^(Bits - cidr.ones)

Usable ==
  {a \in Addresses : InNetwork(a) /\ (Size > 2 => a % Size \notin {0, Size - 1})}

(***************************************************************************)
(* The hosts are the addresses of the network, each once, without the      *)
(* first and the last of a network of more than two (the list survives the *)
(* wrap at the highest address).                                           *)
(***************************************************************************)
HostsAreUsable ==
  phase \in {"loop", "acquire"} =>
    {listed[i] : i \in 1..Len(listed)} = Usable /\ Len(listed) = Cardinality(Usable)

(***************************************************************************)
(* No more goroutines probe at once than the semaphore has slots, and a    *)
(* slot that is taken is some goroutine's.                                 *)
(***************************************************************************)
ProbesAreBounded == TypeOK /\ Cardinality(Running) <= Threads /\ slots = Cardinality(Running)

(***************************************************************************)
(* A scan returns all that was found, and nothing else, unless it was cut  *)
(* short: then it loses only what was found by goroutines under way at     *)
(* that moment, and returns garbage only if there were any.                *)
(***************************************************************************)
OnlyCutShortLoses ==
  answer # None =>
    /\ found \ answer \subseteq late
    /\ answer \ found \subseteq (IF late = {} THEN {} ELSE {Torn})

\* After the context is cancelled at most one more probe is started.
OneProbeAfterCancel == over <= 1

\* Scan returns, with nothing running.
ScanReturns == <>[](phase = "returned" /\ Running = {})
-----------------------------------------------------------------------------
(***************************************************************************)
(* The inductive invariant behind the properties.                          *)
(***************************************************************************)
First == cidr.ip - (cidr.ip % Size)

ListIsInOrder ==
  phase = "list" =>
    /\ Len(hosts) <= Size /\ curr = (First + Len(hosts)) % 2^Bits
    /\ \A i \in 1..Len(hosts) : hosts[i] = First + (i - 1)

\* No host is probed twice.
HostsAreNew ==
  /\ \A i, j \in 1..Len(hosts) : hosts[i] = hosts[j] => i = j
  /\ \A i \in 1..Len(hosts) : probe[hosts[i]] = "none"
  /\ phase = "list" => \A a \in Addresses : probe[a] = "none"
  /\ phase = "acquire" => hosts # <<>>

\* What is found is in results, or on its way into them.
FoundIsAdded ==
  /\ results \subseteq found
  /\ \A a \in Addresses : probe[a] \in {"found", "append"} => a \in found
  /\ \A a \in found \ results : probe[a] \in {"found", "append"}
  /\ \A a \in Addresses : probe[a] = "append" <=> mu = a

NobodyComesLater ==
  IF phase \in {"drain", "returned"} THEN Running \subseteq late
  ELSE answer = None /\ late = {}

LastProbe == over <= 1 /\ (over > 0 => cancelled /\ phase \notin {"list", "acquire"})

IInv ==
  /\ ProbesAreBounded /\ HostsAreUsable /\ ListIsInOrder /\ HostsAreNew
  /\ FoundIsAdded /\ NobodyComesLater /\ OnlyCutShortLoses /\ LastProbe
=============================================================================
