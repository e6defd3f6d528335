----------------------------- MODULE CertCache -----------------------------
(***************************************************************************)
(* The certificates made for intercepted hosts: SSLFactory.newCert and     *)
(* CertUtil.genCert.                                                       *)
(*                                                                         *)
(* newCert runs on the event loops of the worker group and on the thread   *)
(* of preloadCertificate.  The cache is a ConcurrentHashMap, but the       *)
(* lookup, the generation and the put are three steps.  A certificate is   *)
(* its key, its day of issue and who made it.  Time passes in days.        *)
(***************************************************************************)
EXTENDS Integers, FiniteSets

CONSTANTS
  Threads,   \* the threads that call newCert
  Names,     \* host names as clients spell them
  Key(_),    \* host.trim().toLowerCase()
  MaxCalls,  \* bound: calls a thread makes
  Days       \* bound: the days, since the app started, on which it is looked at

ASSUME CacheAssumption ==
  /\ MaxCalls \in Nat /\ 0 \in Days /\ Days \subseteq Nat
  /\ \A n \in Names : Key(n) \in Names /\ Key(Key(n)) = Key(n)

VARIABLES
  now,        \* days since the app started
  cache,      \* certCache: the certificates by key, NoCert where there is none
  pc,         \* what each thread does
  key,        \* the key of the call each thread is in
  cert,       \* the certificate each thread has in hand
  calls,      \* calls each thread has made
  generated   \* how often each thread has generated for a key

certVars == <<now, cache, pc, key, cert, calls, generated>>

Keys == {Key(n) : n \in Names}
NoCert == [host |-> "", day |-> -1]

CertInit ==
  /\ now = 0
  /\ cache = [k \in Keys |-> NoCert]
  /\ pc = [t \in Threads |-> "idle"]
  /\ key = [t \in Threads |-> ""]
  /\ cert = [t \in Threads |-> NoCert]
  /\ calls = [t \in Threads |-> 0]
  /\ generated = [t \in Threads |-> [k \in Keys |-> 0]]

(* The product of two Ints, as its upper and its lower sixteen bits. *)
Times(a, b) ==
  LET low == (a % 65536) * b
      high == (a \div 65536) * b + low \div 65536
  IN  <<high % 65536, low % 65536>>

Signed(w) == (IF w[1] < 32768 THEN w[1] ELSE w[1] - 65536) * 65536 + w[2]

(* (12 * 30 * 24 * 60 * 60 * 1000).toLong() is an Int product that wraps;  *)
(* here in whole days.                                                     *)
Lifetime == Signed(Times(12 * 30 * 24 * 60 * 60, 1000)) \div (24 * 60 * 60 * 1000)

Valid(c) == now <= c.day + Lifetime

-----------------------------------------------------------------------------
(* certCache.get(key) *)
Lookup(t) ==
  /\ pc[t] = "idle" /\ calls[t] < MaxCalls
  /\ calls' = [calls EXCEPT ![t] = @ + 1]
  /\ \E n \in Names :
       /\ key' = [key EXCEPT ![t] = Key(n)]
       /\ cert' = [cert EXCEPT ![t] = cache[Key(n)]]
       /\ pc' = [pc EXCEPT ![t] = IF cache[Key(n)] = NoCert THEN "generate" ELSE "use"]
  /\ UNCHANGED <<now, cache, generated>>

genCert(t) ==
  /\ pc[t] = "generate" /\ pc' = [pc EXCEPT ![t] = "put"]
  /\ cert' = [cert EXCEPT ![t] = [host |-> key[t], day |-> now]]
  /\ generated' = [generated EXCEPT ![t][key[t]] = @ + 1]
  /\ UNCHANGED <<now, cache, key, calls>>

(* Fault: the new certificate is not kept. *)
PutNothing(t) ==
  /\ pc[t] = "put" /\ pc' = [pc EXCEPT ![t] = "use"]
  /\ UNCHANGED <<now, cache, key, cert, calls, generated>>

(* certCache.put(key, this) *)
Put(t) ==
  /\ pc[t] = "put" /\ pc' = [pc EXCEPT ![t] = "use"]
  /\ cache' = [cache EXCEPT ![key[t]] = cert[t]]
  /\ UNCHANGED <<now, key, cert, calls, generated>>

(* SniHandler builds the TLS handler of the connection with it. *)
Use(t) ==
  /\ pc[t] = "use" /\ pc' = [pc EXCEPT ![t] = "idle"]
  /\ UNCHANGED <<now, cache, key, cert, calls, generated>>

DaysPass ==
  /\ \E d \in Days : d > now /\ now' = d
  /\ UNCHANGED <<cache, pc, key, cert, calls, generated>>

CertNext ==
  \/ \E t \in Threads : Lookup(t) \/ genCert(t) \/ Put(t) \/ Use(t)
  \/ DaysPass

CertSpec == CertInit /\ [][CertNext]_certVars

-----------------------------------------------------------------------------
(* Threads that miss at the same time each make a certificate, but none    *)
(* makes a second one for a host, however the steps of newCert interleave  *)
(* and however the host is spelled.                                        *)
GeneratedOnce == \A t \in Threads, k \in Keys : generated[t][k] <= 1

(* A certificate that newCert hands out in the year of its issue is valid: *)
(* genCert writes its lifetime as twelve months of thirty days.            *)
ServedIsValid ==
  \A t \in Threads : pc[t] = "use" /\ now <= cert[t].day + 12 * 30 => Valid(cert[t])
=============================================================================
