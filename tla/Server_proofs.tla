----------------------------- MODULE Server_proofs -----------------------------
(***************************************************************************)
(* Proofs about Server for any clients, addresses, headers and deployments.*)
(*                                                                         *)
(* None of the invariants is inductive alone.  RateBound needs that a      *)
(* bucket accounts for what was let through, and that nothing is let       *)
(* through before the quota was found to have a period; the closing of the *)
(* pool needs that main reaches it after the last request; KeyIsSender     *)
(* that only the clients of the deployment have connections;               *)
(* ReadinessLagsOnePing that an outage lasts until the database is up.     *)
(***************************************************************************)
EXTENDS Server, FiniteSetTheorems, SequenceTheorems, WellFoundedInduction, TLAPS

-----------------------------------------------------------------------------
(* Numbers                                                                 *)

\* Every set of numbers that is not empty has a least one.
LEMMA LeastExists ==
    ASSUME NEW S, S \subseteq Nat, S # {}
    PROVE  \E m \in S : \A n \in S : m <= n
<1> DEFINE R == OpToRel(<, Nat)
<1>1. IsWellFoundedOn(R, Nat)
    BY NatLessThanWellFounded
<1>2. \A x, y \in Nat : x < y => <<x, y>> \in R
    BY DEF OpToRel
<1> HIDE DEF R
<1>3. PICK m \in S : \A n \in S : ~(<<n, m>> \in R)
    BY <1>1, WFMin
<1>4. \A n \in S : ~(n < m)
    BY <1>2, <1>3
<1>5. m \in Int /\ \A n \in S : n \in Int
    OBVIOUS
<1> QED
    BY <1>4, <1>5

\* Least finds the least index of a set of indices.
LEMMA LeastIsLeast ==
    ASSUME NEW S, S \subseteq Nat, S # {}
    PROVE  Least(S) \in S
<1>1. \E i \in S : \A j \in S : i <= j
    BY LeastExists
<1> QED
    BY <1>1 DEF Least

\* Greatest finds the greatest index of a bounded set of indices.
LEMMA GreatestIsGreatest ==
    ASSUME NEW n \in Nat, NEW S, S \subseteq 1..n, S # {}
    PROVE  Greatest(S) \in S /\ \A j \in S : j <= Greatest(S)
<1> DEFINE Mirror == {n - i : i \in S}
<1>1. Mirror \subseteq Nat /\ Mirror # {}
    <2>1. \A i \in S : n - i \in Nat
        OBVIOUS
    <2>2. PICK i \in S : TRUE
        OBVIOUS
    <2>3. n - i \in Mirror
        OBVIOUS
    <2> QED
        BY <2>1, <2>3
<1>2. PICK m \in Mirror : \A k \in Mirror : m <= k
    BY <1>1, LeastExists
<1>3. PICK i \in S : m = n - i
    OBVIOUS
<1>4. \A j \in S : j <= i
    <2> TAKE j \in S
    <2>1. m <= n - j
        BY <1>2
    <2> QED
        BY <2>1, <1>3
<1>5. \E k \in S : \A j \in S : j <= k
    BY <1>4
<1> QED
    BY <1>5 DEF Greatest

\* An index that no index of the set exceeds is what Greatest finds.
LEMMA GreatestIsThis ==
    ASSUME NEW n \in Nat, NEW S, S \subseteq 1..n, NEW g \in S, \A j \in S : j <= g
    PROVE  Greatest(S) = g
<1>1. Greatest(S) \in S /\ \A j \in S : j <= Greatest(S)
    BY GreatestIsGreatest
<1>2. \A x \in S : x \in Int
    OBVIOUS
<1>3. \A x \in S : x <= g /\ g <= x => x = g
    BY <1>2
<1> QED
    BY <1>1, <1>3

\* A product grows with its first factor.
LEMMA ProductGrows ==
    ASSUME NEW m \in Nat, NEW n \in Nat, NEW p \in Nat
    PROVE  /\ m * p \in Nat
           /\ (m + 1) * p = m * p + p
           /\ (m + n) * p = m * p + n * p
           /\ m < n => m * p + p <= n * p
           /\ p > 0 => m <= m * p
<1>1. /\ m * p \in Nat
      /\ (m + 1) * p = m * p + p
      /\ (m + n) * p = m * p + n * p
    OBVIOUS
<1>2. ASSUME m < n PROVE m * p + p <= n * p
    <2> DEFINE k == n - (m + 1)
    <2>1. k \in Nat /\ n = (m + 1) + k
        BY <1>2
    <2> HIDE DEF k
    <2>2. n * p = (m + 1) * p + k * p /\ k * p \in Nat
        BY <2>1
    <2> QED
        BY <2>2, <1>1
<1>3. ASSUME p > 0 PROVE m <= m * p
    <2> DEFINE q == p - 1
    <2>1. q \in Nat /\ p = q + 1
        BY <1>3
    <2> HIDE DEF q
    <2>2. m * p = m * q + m /\ m * q \in Nat
        BY <2>1
    <2> QED
        BY <2>2
<1> QED
    BY <1>1, <1>2, <1>3

-----------------------------------------------------------------------------
(* The deployment                                                          *)

\* What a configuration that the service was given promises.
LEMMA ConfigTypes ==
    ASSUME deployment \in Deployment
    PROVE  /\ Period(cfg) \in Nat
           /\ Depth(cfg) \in Nat
           /\ cfg.rate_limit_rps \in Nat
           /\ cfg.rate_limit_burst \in Nat
           /\ cfg.db_pool_max \in Nat
           /\ deployment.last \in Nat
           /\ deployment.clients \subseteq Client
           /\ deployment.path \in [deployment.clients -> Seq(Address) \ {<<>>}]
<1>1. /\ cfg.rate_limit_rps \in Nat
      /\ cfg.rate_limit_burst \in Nat
      /\ cfg.db_pool_max \in Nat
    BY DeploymentAssumption DEF cfg
<1>2. Depth(cfg) \in Nat
    BY <1>1, ProductGrows DEF Depth, Period
<1> QED
    BY <1>1, <1>2, DeploymentAssumption DEF Period

\* The deployment is what it was at the start.
LEMMA DeploymentStays ==
    ASSUME [Next]_vars
    PROVE  deployment' = deployment /\ cfg' = cfg
<1>1. deployment' = deployment
    BY DEF vars, Next, MainStep, LoadConfig, InitState, BuildRouter, Bind, Boot, Drained,
           Finish, WatcherStep, PingBegins, PingAcquires, PingFails, PingAnswers, Wait, Watched,
           ClientStep, Connect, StartRequest, AnswerOutside, Arrive, HandlerStep, Invalid,
           Acquire, AcquireFails, HandlerEnds, TimeOut, Deliver, Leave, Signal, Fault,
           StatementEnds, Second
<1> QED
    BY <1>1 DEF cfg

-----------------------------------------------------------------------------
(* The client address                                                      *)

\* What may stand in the header.
Entry == Address \cup {Malformed, Unreadable}

\* A path has a last address, the peer; before it come the addresses the
\* proxies wrote down, behind what the client wrote itself.
LEMMA EntriesShape ==
    ASSUME deployment \in Deployment, NEW c \in deployment.clients, NEW own \in deployment.lines
    PROVE  LET path == deployment.path[c]
               n == Len(path)
               f == Len(own)
               entries == Entries(c, own) IN
           /\ n \in Nat /\ n >= 1 /\ f \in Nat
           /\ DOMAIN path = 1..n
           /\ \A i \in 1..n : path[i] \in Address
           /\ Peer(c) = path[n]
           /\ DOMAIN entries = 1..(f + n - 1)
           /\ \A i \in DOMAIN entries : entries[i] \in Entry
           /\ \A i \in 1..f : entries[i] = own[i] /\ i \in DOMAIN own
           /\ \A i \in 1..(n - 1) : entries[f + i] = path[i]
<1> DEFINE path == deployment.path[c]
           n == Len(path)
           f == Len(own)
           walked == SubSeq(path, 1, n - 1)
<1>1. path \in Seq(Address) /\ path # <<>>
    BY ConfigTypes
<1>2. /\ n \in Nat /\ n >= 1
      /\ DOMAIN path = 1..n
      /\ \A i \in 1..n : path[i] \in Address
    BY <1>1, EmptySeq, LenProperties
<1>3. /\ walked \in Seq(Address)
      /\ Len(walked) = n - 1
      /\ \A i \in 1..(n - 1) : walked[i] = path[i]
    <2> HIDE DEF path
    <2>1. SubSeq(path, 1, n - 1) \in Seq(Address)
        BY <1>1, <1>2, SubSeqProperties
    <2>2. Len(SubSeq(path, 1, n - 1)) = n - 1
        BY <1>1, <1>2, SubSeqProperties
    <2>3. \A i \in 1..(n - 1) : SubSeq(path, 1, n - 1)[i] = path[1 + i - 1]
        BY <1>1, <1>2, SubSeqProperties
    <2> QED
        BY <1>2, <2>1, <2>2, <2>3
<1>4. own \in Seq(Entry) /\ f \in Nat /\ DOMAIN own = 1..f
    <2>1. own \in Seq(Entry)
        BY DeploymentAssumption DEF Entry
    <2> QED
        BY <2>1, LenProperties
<1>5. walked \in Seq(Entry)
    BY <1>3 DEF Entry
<1>6. Entries(c, own) = own \o walked
    BY DEF Entries
<1> HIDE DEF path, f, walked
<1>7. /\ own \o walked \in Seq(Entry)
      /\ Len(own \o walked) = f + (n - 1)
      /\ \A i \in 1..f : (own \o walked)[i] = own[i]
      /\ \A i \in 1..(n - 1) : (own \o walked)[f + i] = walked[i]
    <2>1. /\ own \o walked \in Seq(Entry)
          /\ Len(own \o walked) = Len(own) + Len(walked)
          /\ \A i \in 1..Len(own) + Len(walked) :
                (own \o walked)[i] = IF i <= Len(own) THEN own[i]
                                        ELSE walked[i - Len(own)]
        BY <1>4, <1>5, ConcatProperties
    <2> QED
        BY <2>1, <1>2, <1>3, <1>4 DEF f
<1>8. DOMAIN (own \o walked) = 1..(f + n - 1)
    BY <1>7, <1>2, <1>4, LenProperties
<1>9. \A i \in DOMAIN (own \o walked) :
          (own \o walked)[i] \in Entry
    BY <1>7, <1>8, <1>2, <1>4
<1>10. Peer(c) = path[n]
    BY DEF Peer, path
<1> QED
    BY <1>2, <1>3, <1>4, <1>6, <1>7, <1>8, <1>9, <1>10 DEF path, f

\* Whatever the headers say, a request counts for an address.
LEMMA KeyIsAddress ==
    ASSUME deployment \in Deployment, NEW c \in deployment.clients,
           NEW own \in deployment.lines, NEW address \in CountsFor(c, own)
    PROVE  address \in Address
<1>1. PICK realIp \in Address \cup {None} :
          address = ClientKey(cfg, Peer(c), Entries(c, own), realIp)
    BY DEF CountsFor
<1> DEFINE entries == Entries(c, own)
           n == Len(deployment.path[c])
           f == Len(own)
           last == f + n - 1
           parsed == {i \in DOMAIN entries : entries[i] # Malformed}
           untrusted == {i \in parsed : ~Trusted(cfg, entries[i])}
<1>2. /\ last \in Nat
      /\ DOMAIN entries = 1..last
      /\ \A i \in DOMAIN entries : entries[i] \in Entry
      /\ Peer(c) \in Address
    <2>1. /\ n \in Nat /\ n >= 1 /\ f \in Nat
          /\ \A i \in 1..n : deployment.path[c][i] \in Address
          /\ Peer(c) = deployment.path[c][n]
          /\ DOMAIN entries = 1..last
          /\ \A i \in DOMAIN entries : entries[i] \in Entry
        BY EntriesShape
    <2> HIDE DEF n, f, entries
    <2> QED
        BY <2>1
<1>3. Forwarded(cfg, entries) # None => Forwarded(cfg, entries) \in Address
    <2> HIDE DEF last, entries
    <2>1. Readable(entries) => \A i \in parsed : entries[i] \in Address
        BY <1>2 DEF Readable, Entry
    <2>2. parsed \subseteq 1..last /\ untrusted \subseteq 1..last
        BY <1>2
    <2>3. untrusted # {} => Greatest(untrusted) \in untrusted
        BY <1>2, <2>2, GreatestIsGreatest
    <2>4. parsed # {} => Least(parsed) \in parsed
        BY <2>2, LeastIsLeast
    <2>5. Forwarded(cfg, entries) = IF ~Readable(entries) THEN None
                                    ELSE IF untrusted # {} THEN entries[Greatest(untrusted)]
                                    ELSE IF parsed # {} THEN entries[Least(parsed)]
                                    ELSE None
        BY DEF Forwarded
    <2> HIDE DEF parsed
    <2> QED
        BY <2>1, <2>3, <2>4, <2>5
<1> HIDE DEF entries
<1> QED
    BY <1>1, <1>2, <1>3 DEF ClientKey, entries

\* The last address on c's way that is no trusted proxy.
UntrustedOnPath(c) ==
    {i \in DOMAIN deployment.path[c] : ~Trusted(cfg, deployment.path[c][i])}

\* The walk from the right does not get past an address the proxies wrote
\* down, so what the client wrote itself does not matter, as long as the header
\* is read at all.
LEMMA KeyNamesSender ==
    ASSUME deployment \in Deployment, NEW c \in deployment.clients,
           NEW own \in deployment.lines, NEW address \in CountsFor(c, own)
    PROVE  IF cfg.trust_proxy
           THEN UntrustedOnPath(c) # {} /\ (Readable(own) \/ ~Trusted(cfg, Peer(c))) =>
                    address = deployment.path[c][Greatest(UntrustedOnPath(c))]
           ELSE address = Peer(c)
<1>1. PICK realIp \in Address \cup {None} :
          address = ClientKey(cfg, Peer(c), Entries(c, own), realIp)
    BY DEF CountsFor
<1>2. CASE ~cfg.trust_proxy
    BY <1>1, <1>2 DEF ClientKey
<1>3. ASSUME cfg.trust_proxy, UntrustedOnPath(c) # {},
             Readable(own) \/ ~Trusted(cfg, Peer(c))
      PROVE  address = deployment.path[c][Greatest(UntrustedOnPath(c))]
    <2> DEFINE entries == Entries(c, own)
               path == deployment.path[c]
               n == Len(path)
               f == Len(own)
               g == Greatest(UntrustedOnPath(c))
               parsed == {i \in DOMAIN entries : entries[i] # Malformed}
               untrusted == {i \in parsed : ~Trusted(cfg, entries[i])}
    <2>1. /\ n \in Nat /\ n >= 1 /\ f \in Nat
          /\ DOMAIN path = 1..n
          /\ \A i \in 1..n : path[i] \in Address
          /\ Peer(c) = path[n]
          /\ DOMAIN entries = 1..(f + n - 1)
          /\ \A i \in 1..f : entries[i] = own[i] /\ i \in DOMAIN own
          /\ \A i \in 1..(n - 1) : entries[f + i] = path[i]
        BY EntriesShape
    <2> HIDE DEF n, f, entries
    <2>2. /\ g \in 1..n /\ ~Trusted(cfg, path[g])
          /\ \A i \in 1..n : ~Trusted(cfg, path[i]) => i <= g
        <3>1. UntrustedOnPath(c) \subseteq 1..n
            BY <2>1 DEF UntrustedOnPath
        <3>2. /\ g \in UntrustedOnPath(c)
              /\ \A i \in UntrustedOnPath(c) : i <= g
            BY <1>3, <2>1, <3>1, GreatestIsGreatest
        <3> HIDE DEF g
        <3> QED
            BY <2>1, <3>2 DEF UntrustedOnPath
    <2> HIDE DEF path, g
    <2>3. CASE ~Trusted(cfg, Peer(c))
        <3>1. g = n
            BY <2>1, <2>2, <2>3
        <3>2. address = Peer(c)
            BY <1>1, <2>3 DEF ClientKey
        <3> QED
            BY <2>1, <3>1, <3>2 DEF path, g
    <2>4. CASE Trusted(cfg, Peer(c))
        <3>1. g \in 1..(n - 1)
            BY <2>1, <2>2, <2>4
        <3>2. f + g \in untrusted /\ entries[f + g] = path[g]
            <4>1. entries[f + g] = path[g] /\ f + g \in DOMAIN entries
                BY <2>1, <3>1
            <4>2. path[g] \in Address /\ Malformed \notin Address
                BY <2>1, <2>2, AddressAssumption
            <4> QED
                BY <2>2, <4>1, <4>2
        <3>3. \A i \in untrusted : i <= f + g
            <4> SUFFICES ASSUME NEW i \in untrusted, ~(i <= f + g)
                         PROVE  FALSE
                OBVIOUS
            <4>1. i \in 1..(f + n - 1) /\ ~Trusted(cfg, entries[i])
                BY <2>1
            <4>2. i - f \in 1..(n - 1) /\ i = f + (i - f)
                BY <4>1, <2>1, <3>1
            <4>3. entries[i] = path[i - f]
                BY <4>2, <2>1
            <4>4. i - f <= g
                BY <2>1, <2>2, <4>1, <4>2, <4>3
            <4> QED
                BY <4>1, <4>4, <2>1, <3>1
        <3>4. untrusted \subseteq 1..(f + n - 1) /\ f + n - 1 \in Nat
            BY <2>1
        <3>5. Greatest(untrusted) = f + g
            <4> HIDE DEF untrusted
            <4> QED
                BY <3>2, <3>3, <3>4, GreatestIsThis
        <3>6. Forwarded(cfg, entries) = path[g]
            <4>1. Readable(entries)
                <5> SUFFICES ASSUME NEW i \in DOMAIN entries PROVE entries[i] # Unreadable
                    BY DEF Readable
                <5>1. CASE i \in 1..f
                    BY <5>1, <1>3, <2>1, <2>4 DEF Readable
                <5>2. CASE i \notin 1..f
                    <6>1. i - f \in 1..(n - 1) /\ i = f + (i - f)
                        BY <5>2, <2>1
                    <6>2. entries[i] = path[i - f] /\ path[i - f] \in Address
                        BY <6>1, <2>1
                    <6> QED
                        BY <6>2, DeploymentAssumption
                <5> QED
                    BY <5>1, <5>2
            <4>2. Forwarded(cfg, entries) = entries[Greatest(untrusted)]
                BY <4>1, <3>2 DEF Forwarded
            <4> HIDE DEF untrusted
            <4> QED
                BY <4>2, <3>2, <3>5
        <3>7. path[g] # None
            BY <2>1, <2>2, DeploymentAssumption
        <3> QED
            BY <1>1, <1>3, <2>4, <3>6, <3>7 DEF ClientKey, entries, path, g
    <2> QED
        BY <2>3, <2>4
<1> QED
    BY <1>2, <1>3

-----------------------------------------------------------------------------
(* Types                                                                   *)

\* Only clients of the deployment have a connection.
OnlyItsClients ==
    \A c \in Client : stage[c] # "none" => c \in deployment.clients

\* main reaches the closing of the pool after the last request; only Drained
\* closes it.
ClosedAfterRequests ==
    /\ closed => phase \in {"closing", "stopped"}
    /\ phase \in {"closing", "stopped"} => \A c \in Client : stage[c] = "none"

\* A status is held only while it is sent.
AnswersOnly == \A c \in Client : stage[c] # "answering" => reply[c] = 0

TInv == TypeOK /\ OnlyItsClients /\ AnswersOnly

\* The service starts with every variable in its type.
LEMMA TypeInit == Init => TInv
<1> SUFFICES ASSUME Init PROVE TInv
    OBVIOUS
<1> USE DEF Init, GateInit
<1>1. clock \in 0..deployment.last
    BY ConfigTypes
<1>2. debt \in [Address -> Nat] /\ admitted \in [Address -> Nat] /\ abandoned \in Nat
    OBVIOUS
<1>3. healthy \in BOOLEAN /\ closed \in BOOLEAN
    OBVIOUS
<1>4. /\ stage \in [Client -> {"none", "open", "sending", "waiting", "working", "answering"}]
      /\ key \in [Client -> Address \cup {None}]
      /\ line \in [Client -> deployment.lines \cup {<<>>}]
      /\ outage \in {"none", "fresh", "old"}
      /\ reply \in [Client -> {0, 200, 400, 401, 404, 408, 413, 429, 500, 503}]
    OBVIOUS
<1>5. OnlyItsClients /\ AnswersOnly
    BY DEF OnlyItsClients, AnswersOnly
<1> QED
    BY <1>1, <1>2, <1>3, <1>4, <1>5 DEF TInv, TypeOK

\* The limiter changes its bucket and its count, in their types.
LEMMA TakeTypes ==
    ASSUME TInv, NEW address \in Address, Take(cfg, address)
    PROVE  /\ clock' = clock
           /\ debt' \in [Address -> Nat]
           /\ admitted' \in [Address -> Nat]
<1>1. Period(cfg) \in Nat
    BY ConfigTypes DEF TInv, TypeOK
<1> QED
    BY <1>1 DEF TInv, TypeOK, Take

\* A step of one client.
LEMMA TypeClient ==
    ASSUME TInv, NEW c \in Client, ClientStep(c)
    PROVE  TInv'
<1> USE DEF TInv, TypeOK, OnlyItsClients, AnswersOnly, mainVars, gateVars, dbVars, requestVars,
            Respond, Forget
<1>1. CASE Connect(c)
    BY <1>1 DEF Connect
<1>2. CASE StartRequest(c)
    BY <1>2 DEF StartRequest
<1>3. CASE AnswerOutside(c)
    <2>1. PICK kind \in deployment.kinds \ {"newsfeed"} : Respond(c, OutsideStatus(kind))
        BY <1>3 DEF AnswerOutside
    <2>2. OutsideStatus(kind) \in {404, 200, 413, 503}
        BY <2>1, DeploymentAssumption DEF OutsideStatus, Kind
    <2> QED
        BY <1>3, <2>1, <2>2 DEF AnswerOutside
<1>4. CASE Arrive(c)
    <2>1. PICK own \in deployment.lines, presented \in Key \cup {None} :
              \E address \in CountsFor(c, own) :
                 /\ line' = [line EXCEPT ![c] = own]
                 /\ key' = [key EXCEPT ![c] = address]
                 /\ Pass(c, address, presented)
        BY <1>4 DEF Arrive
    <2>2. PICK address \in CountsFor(c, own) :
                 /\ line' = [line EXCEPT ![c] = own]
                 /\ key' = [key EXCEPT ![c] = address]
                 /\ Pass(c, address, presented)
        BY <2>1
    <2>3. c \in deployment.clients
        BY <1>4 DEF Arrive
    <2>4. address \in Address
        BY <2>3, KeyIsAddress
    <2>5. UNCHANGED gateVars \/ Take(cfg, address)
        BY <2>2 DEF Pass
    <2>6. clock' = clock /\ debt' \in [Address -> Nat] /\ admitted' \in [Address -> Nat]
        <3>1. CASE UNCHANGED gateVars
            BY <3>1
        <3>2. CASE Take(cfg, address)
            BY <2>4, <3>2, TakeTypes
        <3> QED
            BY <2>5, <3>1, <3>2
    <2>7. /\ key' \in [Client -> Address \cup {None}]
          /\ line' \in [Client -> deployment.lines \cup {<<>>}]
        BY <2>2, <2>4
    <2>8. /\ UNCHANGED <<deployment, phase, watcher, healthy, closed, db, outage, abandoned>>
          /\ stage[c] = "sending"
        BY <1>4 DEF Arrive
    <2>9. \/ \E status \in {401, 429} : Respond(c, status)
          \/ stage' = [stage EXCEPT ![c] = "waiting"] /\ reply' = reply
        BY <2>2 DEF Pass
    <2>10. CASE \E status \in {401, 429} : Respond(c, status)
        BY <2>3, <2>6, <2>7, <2>8, <2>10
    <2>11. CASE stage' = [stage EXCEPT ![c] = "waiting"] /\ reply' = reply
        BY <2>3, <2>6, <2>7, <2>8, <2>11
    <2> QED
        BY <2>9, <2>10, <2>11
<1>5. CASE Invalid(c)
    BY <1>5 DEF Invalid
<1>6. CASE Acquire(c)
    BY <1>6 DEF Acquire
<1>7. CASE AcquireFails(c)
    BY <1>7 DEF AcquireFails
<1>8. CASE HandlerEnds(c)
    BY <1>8 DEF HandlerEnds
<1>9. CASE TimeOut(c)
    BY <1>9 DEF TimeOut, Drop
<1>10. CASE Leave(c)
    BY <1>10 DEF Leave, Drop
<1>11. CASE Deliver(c)
    BY <1>11 DEF Deliver
<1> QED
    BY <1>1, <1>2, <1>3, <1>4, <1>5, <1>6, <1>7, <1>8, <1>9, <1>10, <1>11
    DEF ClientStep, HandlerStep

\* Every step, of whomever, keeps the types.
LEMMA TypeNext == TInv /\ [Next]_vars => TInv'
<1> SUFFICES ASSUME TInv, [Next]_vars PROVE TInv'
    OBVIOUS
<1> USE DEF TInv, TypeOK, OnlyItsClients, AnswersOnly, mainVars, clientVars, gateVars, dbVars,
            requestVars
<1>1. CASE MainStep
    <2>1. UNCHANGED <<gateVars, deployment, dbVars, clientVars, abandoned>>
        BY <1>1 DEF MainStep, LoadConfig, InitState, BuildRouter, Bind, Boot, Drained, Finish
    <2>2. healthy' \in BOOLEAN /\ closed' \in BOOLEAN
        <3>1. CASE InitState
            <4>1. healthy' = (Admissible(cfg) /\ Connects) /\ closed' = closed
                BY <3>1 DEF InitState, Boot
            <4>2. (Admissible(cfg) /\ Connects) \in BOOLEAN
                OBVIOUS
            <4> QED
                BY <4>1, <4>2
        <3>2. CASE Drained
            <4>1. closed' \in BOOLEAN
                BY <3>2, Zenon DEF Drained
            <4> QED
                BY <3>2, <4>1 DEF Drained
        <3> QED
            BY <1>1, <3>1, <3>2 DEF MainStep, LoadConfig, BuildRouter, Bind, Boot, Finish
    <2>3. watcher' \in {"off", "idle", "acquiring", "asking"}
        BY <1>1 DEF MainStep, LoadConfig, InitState, BuildRouter, Bind, Boot, Drained, Finish
    <2>4. phase' \in {"connecting", "building", "binding", "serving", "closing", "stopped",
                      "dead"}
        BY <1>1 DEF MainStep, LoadConfig, InitState, BuildRouter, Bind, Boot, Drained, Finish
    <2> QED
        BY <2>1, <2>2, <2>3, <2>4
<1>2. CASE WatcherStep
    <2>1. /\ UNCHANGED <<gateVars, deployment, phase, closed, db, clientVars, abandoned>>
          /\ outage' \in {outage, "old"}
        BY <1>2 DEF WatcherStep, PingBegins, PingAcquires, PingFails, PingAnswers, Wait,
                    Watched
    <2>2. watcher' \in {"idle", "acquiring", "asking"}
        BY <1>2 DEF WatcherStep, PingBegins, PingAcquires, PingFails, PingAnswers, Wait,
                    Watched
    <2>3. healthy' \in BOOLEAN
        <3>1. CASE PingFails
            BY <3>1 DEF PingFails, Watched
        <3>2. CASE PingAnswers
            <4>1. healthy' = (db = "up")
                BY <3>2 DEF PingAnswers, Watched
            <4> QED
                BY <4>1, Zenon
        <3> QED
            BY <1>2, <3>1, <3>2 DEF WatcherStep, PingBegins, PingAcquires, Wait
    <2> QED
        BY <2>1, <2>2, <2>3
<1>3. CASE \E c \in Client : ClientStep(c)
    BY <1>3, TypeClient
<1>4. CASE Signal
    BY <1>4 DEF Signal
<1>5. CASE Fault
    BY <1>5 DEF Fault
<1>6. CASE StatementEnds
    BY <1>6 DEF StatementEnds
<1>7. CASE Second
    BY <1>7, ConfigTypes DEF Second, Tick
<1>8. CASE UNCHANGED vars
    BY <1>8 DEF vars
<1> QED
    BY <1>1, <1>2, <1>3, <1>4, <1>5, <1>6, <1>7, <1>8 DEF Next

\* Every variable keeps its type; in particular no bucket falls below empty
\* and every request counts for an address.
THEOREM TypeCorrect == Spec => []TypeOK
<1>1. TInv => TypeOK
    BY DEF TInv
<1> QED
    BY <1>1, TypeInit, TypeNext, PTL DEF Spec

\* With the types goes that only the deployment's clients have connections.
THEOREM TypesInvariant == Spec => []TInv
    BY TypeInit, TypeNext, PTL DEF Spec

-----------------------------------------------------------------------------
(* The limiter                                                             *)

\* A bucket holds what was let through and not yet worked off, and no more
\* than its depth.
Buckets ==
    \A a \in Address :
        /\ debt[a] <= Depth(cfg)
        /\ debt[a] <= admitted[a] * Period(cfg)
        /\ admitted[a] * Period(cfg) <= clock + debt[a]

\* Only a request that is let through and a second that passes change the
\* buckets.
LEMMA GateStep ==
    ASSUME TInv, [Next]_vars
    PROVE  \/ UNCHANGED gateVars
           \/ Running /\ \E a \in Address : Take(cfg, a)
           \/ Tick(deployment.last)
<1> USE DEF mainVars, clientVars, gateVars, dbVars, requestVars
<1>1. CASE \E c \in Client : Arrive(c)
    <2>1. PICK c \in Client : Arrive(c)
        BY <1>1
    <2>2. PICK own \in deployment.lines, presented \in Key \cup {None} :
              \E address \in CountsFor(c, own) : Pass(c, address, presented)
        BY <2>1 DEF Arrive
    <2>5. PICK address \in CountsFor(c, own) : Pass(c, address, presented)
        BY <2>2
    <2>3. c \in deployment.clients
        BY <2>1 DEF Arrive, TInv, OnlyItsClients
    <2>4. address \in Address
        BY <2>3, KeyIsAddress DEF TInv, TypeOK
    <2> QED
        BY <2>1, <2>4, <2>5 DEF Arrive, Pass
<1>2. CASE Second
    BY <1>2 DEF Second
<1>3. CASE UNCHANGED vars
    BY <1>3 DEF vars
<1> QED
    BY <1>1, <1>2, <1>3
    DEF Next, MainStep, LoadConfig, InitState, BuildRouter, Bind, Boot, Drained, Finish,
        WatcherStep, PingBegins, PingAcquires, PingFails, PingAnswers, Wait, Watched,
        ClientStep, Connect, StartRequest, AnswerOutside, HandlerStep, Invalid, Acquire,
        AcquireFails, HandlerEnds, TimeOut, Deliver, Leave, Signal, Fault, StatementEnds

\* Buckets are empty at the start and have let nothing through.
LEMMA BucketsInit == Init => Buckets
<1> SUFFICES ASSUME Init, NEW a \in Address
             PROVE  /\ debt[a] <= Depth(cfg)
                    /\ debt[a] <= admitted[a] * Period(cfg)
                    /\ admitted[a] * Period(cfg) <= clock + debt[a]
    BY DEF Buckets
<1>1. Period(cfg) \in Nat /\ Depth(cfg) \in Nat
    BY ConfigTypes DEF Init
<1>2. debt[a] = 0 /\ admitted[a] = 0 /\ clock = 0
    BY DEF Init, GateInit
<1>3. 0 * Period(cfg) = 0
    BY <1>1
<1> QED
    BY <1>1, <1>2, <1>3

\* A request or a second keeps every bucket in balance.
LEMMA BucketsNext == TInv /\ Buckets /\ [Next]_vars => Buckets'
<1> SUFFICES ASSUME TInv, Buckets, [Next]_vars, NEW a \in Address
             PROVE  /\ debt'[a] <= Depth(cfg)
                    /\ debt'[a] <= admitted'[a] * Period(cfg)
                    /\ admitted'[a] * Period(cfg) <= clock' + debt'[a]
    BY DeploymentStays DEF Buckets, Depth, Period
<1> DEFINE p == Period(cfg)
           top == Depth(cfg)
           load == admitted[a] * p
<1>1. p \in Nat /\ top \in Nat
    BY ConfigTypes DEF TInv, TypeOK
<1>2. /\ debt \in [Address -> Nat] /\ debt[a] \in Nat
      /\ admitted \in [Address -> Nat] /\ admitted[a] \in Nat
      /\ clock \in Nat
    BY ConfigTypes DEF TInv, TypeOK
<1>3. load \in Nat /\ (admitted[a] + 1) * p = load + p
    BY <1>1, <1>2, ProductGrows
<1>4. debt[a] <= top /\ debt[a] <= load /\ load <= clock + debt[a]
    BY DEF Buckets
<1>5. CASE UNCHANGED gateVars
    BY <1>4, <1>5 DEF gateVars
<1>6. CASE Tick(deployment.last)
    <2>1. /\ clock' = clock + 1
          /\ admitted'[a] * p = load
          /\ debt'[a] = IF debt[a] = 0 THEN 0 ELSE debt[a] - 1
        BY <1>6 DEF Tick
    <2> HIDE DEF load, p, top
    <2>2. /\ debt'[a] <= top
          /\ debt'[a] <= load
          /\ load <= clock' + debt'[a]
        BY <1>1, <1>2, <1>3, <1>4, <2>1
    <2> QED
        BY <2>1, <2>2 DEF p, top
<1>7. ASSUME NEW b \in Address, Take(cfg, b)
      PROVE  /\ debt'[a] <= top
             /\ debt'[a] <= admitted'[a] * p
             /\ admitted'[a] * p <= clock' + debt'[a]
    <2>1. CASE a # b
        <3>1. debt'[a] = debt[a] /\ admitted'[a] = admitted[a] /\ clock' = clock
            BY <1>2, <1>7, <2>1 DEF Take
        <3> QED
            BY <1>4, <3>1
    <2>2. CASE a = b
        <3>1. /\ debt[a] + p <= top
              /\ debt'[a] = debt[a] + p
              /\ admitted'[a] = admitted[a] + 1
              /\ clock' = clock
            BY <1>2, <1>7, <2>2 DEF Take, Fits
        <3>2. admitted'[a] * p = load + p
            BY <1>3, <3>1
        <3> HIDE DEF load, p, top
        <3>3. /\ debt'[a] <= top
              /\ debt'[a] <= load + p
              /\ load + p <= clock' + debt'[a]
            BY <1>1, <1>2, <1>3, <1>4, <3>1
        <3> QED
            BY <3>2, <3>3
    <2> QED
        BY <2>1, <2>2
<1> QED
    BY <1>5, <1>6, <1>7, GateStep

\* Nobody is let through before the quota has been found to have a period.
QuotaChecked ==
    /\ phase \in {"binding", "serving", "draining", "closing", "stopped"} => Buildable(cfg)
    /\ \A a \in Address : admitted[a] > 0 => cfg.rate_limit_rps > 0

\* Only BuildRouter leads past the building of the router.
LEMMA QuotaNext == TInv /\ QuotaChecked /\ [Next]_vars => QuotaChecked'
<1> SUFFICES ASSUME TInv, QuotaChecked, [Next]_vars PROVE QuotaChecked'
    OBVIOUS
<1>1. phase' \in {"binding", "serving", "draining", "closing", "stopped"} => Buildable(cfg)
    <2>1. CASE BuildRouter
        BY <2>1 DEF BuildRouter, Boot
    <2>2. CASE ~BuildRouter
        BY <2>2
        DEF QuotaChecked, Next, MainStep, LoadConfig, InitState, Bind, Boot, Drained, Finish,
            WatcherStep, PingBegins, PingAcquires, PingFails, PingAnswers, Wait, Watched,
            ClientStep, Connect, StartRequest, AnswerOutside, Arrive, HandlerStep, Invalid,
            Acquire, AcquireFails, HandlerEnds, TimeOut, Deliver, Leave, Signal, Fault,
            StatementEnds, Second, vars, mainVars
    <2> QED
        BY <2>1, <2>2
<1>2. ASSUME NEW a \in Address, admitted'[a] > 0 PROVE cfg.rate_limit_rps > 0
    <2>1. CASE Running
        BY <2>1 DEF QuotaChecked, Running, Buildable
    <2>2. CASE ~Running
        <3>1. admitted' = admitted
            BY <2>2, GateStep DEF gateVars, Tick
        <3> QED
            BY <1>2, <3>1 DEF QuotaChecked
    <2> QED
        BY <2>1, <2>2
<1> QED
    BY <1>1, <1>2, DeploymentStays DEF QuotaChecked, Buildable

\* However the requests of any clients fall, an address gets through at most
\* the documented limit: its burst, and the configured rate for every second.
THEOREM RateIsBounded == Spec => []RateBound
<1>1. TInv /\ Buckets /\ QuotaChecked => RateBound
    <2> SUFFICES ASSUME TInv, Buckets, QuotaChecked, NEW a \in Address
                 PROVE  admitted[a] <= cfg.rate_limit_burst + cfg.rate_limit_rps * clock
        BY DEF RateBound
    <2> DEFINE n == admitted[a]
               p == cfg.rate_limit_rps
               burst == cfg.rate_limit_burst
               refill == clock * p
    <2>1. p \in Nat /\ burst \in Nat /\ clock \in Nat /\ n \in Nat /\ debt[a] \in Nat
        BY ConfigTypes DEF TInv, TypeOK
    <2>2. /\ debt[a] <= burst * p
          /\ n * p <= clock + debt[a]
          /\ n > 0 => p > 0
        BY DEF Buckets, Depth, Period, QuotaChecked
    <2> HIDE DEF n, p, burst
    <2>3. refill \in Nat /\ burst + refill \in Nat /\ burst * p \in Nat /\ p * clock = refill
        BY <2>1, ProductGrows
    <2>4. CASE n = 0
        BY <2>1, <2>3, <2>4 DEF n, p, burst
    <2>5. CASE n > 0
        <3>1. p > 0 /\ clock <= refill
            BY <2>1, <2>2, <2>5, ProductGrows
        <3> HIDE DEF refill
        <3>2. refill <= refill * p /\ refill * p \in Nat
            BY <2>1, <2>3, <3>1, ProductGrows
        <3>3. (burst + refill) * p = burst * p + refill * p
            BY <2>1, <2>3, ProductGrows
        <3>4. burst + refill < n => (burst + refill) * p + p <= n * p
            BY <2>1, <2>3, ProductGrows
        <3>5. n * p \in Nat
            BY <2>1, ProductGrows
        <3>6. n <= burst + refill
            BY <2>1, <2>2, <2>3, <3>1, <3>2, <3>3, <3>4, <3>5
        <3> QED
            BY <2>3, <3>6 DEF n, p, burst
    <2> QED
        BY <2>1, <2>4, <2>5
<1>2. Init => QuotaChecked
    BY DEF Init, GateInit, QuotaChecked
<1> QED
    BY <1>1, <1>2, TypesInvariant, BucketsInit, BucketsNext, QuotaNext, PTL DEF Spec

\* A bucket a request does not fit has let its burst through.
LEMMA FullBucket ==
    ASSUME TInv, Buckets, NEW a \in Address, ~Fits(cfg, a)
    PROVE  admitted[a] >= cfg.rate_limit_burst
<1> SUFFICES ASSUME ~(admitted[a] >= cfg.rate_limit_burst) PROVE FALSE
    OBVIOUS
<1> DEFINE p == Period(cfg)
           top == Depth(cfg)
           load == admitted[a] * p
<1>1. p \in Nat /\ top \in Nat /\ cfg.rate_limit_burst \in Nat
    BY ConfigTypes DEF TInv, TypeOK
<1>2. debt[a] \in Nat /\ admitted[a] \in Nat
    BY DEF TInv, TypeOK
<1>3. load \in Nat /\ load + p <= cfg.rate_limit_burst * p
    BY <1>1, <1>2, ProductGrows
<1>4. top = cfg.rate_limit_burst * p
    BY DEF Depth
<1>5. debt[a] <= load
    BY DEF Buckets
<1>6. ~(debt[a] + p <= top)
    BY DEF Fits
<1> HIDE DEF load, p, top
<1>7. load + p <= top
    BY <1>3, <1>4
<1> QED
    BY <1>1, <1>2, <1>3, <1>5, <1>6, <1>7

\* Whoever is answered 429 counts for an address that has used up its burst.
Refusals ==
    \A c \in Client : reply[c] = 429 =>
        key[c] \in Address /\ admitted[key[c]] >= cfg.rate_limit_burst

\* Only the limiter answers 429.
LEMMA OnlyArriveRefuses ==
    ASSUME TInv, [Next]_vars, NEW c \in Client, reply'[c] = 429
    PROVE  (reply'[c] = reply[c] /\ key'[c] = key[c]) \/ Arrive(c)
<1> USE DEF TInv, TypeOK, clientVars, requestVars, Respond, Forget
<1>1. ASSUME NEW d \in Client, AnswerOutside(d) PROVE reply'[c] = reply[c] /\ key'[c] = key[c]
    <2>1. PICK kind \in deployment.kinds \ {"newsfeed"} : Respond(d, OutsideStatus(kind))
        BY <1>1 DEF AnswerOutside
    <2>2. OutsideStatus(kind) \in {404, 200, 413, 503}
        BY <2>1, DeploymentAssumption DEF OutsideStatus, Kind
    <2>3. key' = key
        BY <1>1 DEF AnswerOutside
    <2> QED
        BY <2>1, <2>2, <2>3
<1>2. ASSUME NEW d \in Client, Arrive(d), d # c PROVE reply'[c] = reply[c] /\ key'[c] = key[c]
    BY <1>2 DEF Arrive, Pass
<1>3. ASSUME NEW d \in Client, ClientStep(d), ~AnswerOutside(d), ~Arrive(d)
      PROVE  reply'[c] = reply[c] /\ key'[c] = key[c]
    BY <1>3 DEF ClientStep, Connect, StartRequest, HandlerStep, Invalid, Acquire, AcquireFails,
                HandlerEnds, TimeOut, Deliver, Leave
<1>4. ASSUME \A d \in Client : ~ClientStep(d) PROVE reply' = reply /\ key' = key
    BY <1>4
    DEF Next, MainStep, LoadConfig, InitState, BuildRouter, Bind, Boot, Drained, Finish,
        WatcherStep, PingBegins, PingAcquires, PingFails, PingAnswers, Wait, Watched,
        Signal, Fault, StatementEnds, Second, vars
<1> QED
    BY <1>1, <1>2, <1>3, <1>4

\* What an address was let through is never taken back.
LEMMA RefusalsNext == TInv /\ Buckets /\ Refusals /\ [Next]_vars => Refusals'
<1> SUFFICES ASSUME TInv, Buckets, Refusals, [Next]_vars, NEW c \in Client, reply'[c] = 429
             PROVE  key'[c] \in Address /\ admitted'[key'[c]] >= cfg.rate_limit_burst
    BY DeploymentStays DEF Refusals
<1>1. cfg.rate_limit_burst \in Nat /\ admitted \in [Address -> Nat]
    BY ConfigTypes DEF TInv, TypeOK
<1>2. CASE reply'[c] = reply[c] /\ key'[c] = key[c]
    <2>1. key[c] \in Address /\ admitted[key[c]] >= cfg.rate_limit_burst
        BY <1>2 DEF Refusals
    <2>2. \A a \in Address : admitted'[a] \in {admitted[a], admitted[a] + 1}
        BY <1>1, GateStep DEF gateVars, Take, Tick
    <2> QED
        BY <1>1, <1>2, <2>1, <2>2
<1>3. CASE Arrive(c)
    <2>1. PICK own \in deployment.lines, presented \in Key \cup {None} :
              \E address \in CountsFor(c, own) :
                  key' = [key EXCEPT ![c] = address] /\ Pass(c, address, presented)
        BY <1>3 DEF Arrive
    <2>2. PICK address \in CountsFor(c, own) :
              key' = [key EXCEPT ![c] = address] /\ Pass(c, address, presented)
        BY <2>1
    <2>3. c \in deployment.clients /\ deployment \in Deployment /\ stage[c] = "sending"
        BY <1>3 DEF Arrive, TInv, TypeOK, OnlyItsClients
    <2>4. address \in Address /\ key'[c] = address
        BY <2>2, <2>3, KeyIsAddress DEF TInv, TypeOK
    <2>5. CASE ~Fits(cfg, address) /\ UNCHANGED gateVars
        BY <2>4, <2>5, FullBucket DEF gateVars
    <2>6. CASE Respond(c, 401)
        BY <2>6 DEF Respond, TInv, TypeOK
    <2>7. CASE stage' = [stage EXCEPT ![c] = "waiting"] /\ UNCHANGED reply
        <3>1. reply[c] = 0
            BY <2>3 DEF TInv, AnswersOnly
        <3> QED
            BY <2>7, <3>1
    <2> QED
        BY <2>2, <2>5, <2>6, <2>7 DEF Pass
<1> QED
    BY <1>2, <1>3, OnlyArriveRefuses

\* A request is refused only after the burst of its address was let through.
THEOREM RefusalsAreEarned == Spec => []RefusedOnlyAfterBurst
<1>1. Init => Refusals
    BY DEF Init, Refusals
<1>2. Refusals => RefusedOnlyAfterBurst
    BY DEF Refusals, RefusedOnlyAfterBurst
<1> QED
    BY <1>1, <1>2, TypesInvariant, BucketsInit, BucketsNext, RefusalsNext, PTL DEF Spec

-----------------------------------------------------------------------------
(* The key of a request                                                    *)

\* A request counts for its sender, and nothing else touches its key.
LEMMA KeyNext == TInv /\ KeyIsSender /\ [Next]_vars => KeyIsSender'
<1> SUFFICES ASSUME TInv, KeyIsSender, [Next]_vars, NEW c \in Client, key'[c] # None
             PROVE  IF cfg.trust_proxy
                    THEN /\ UntrustedOnPath(c) # {}
                         /\ Readable(line'[c]) \/ ~Trusted(cfg, Peer(c))
                         => key'[c] = deployment.path[c][Greatest(UntrustedOnPath(c))]
                    ELSE key'[c] = Peer(c)
    BY DeploymentStays DEF KeyIsSender, UntrustedOnPath, Trusted, Peer, Readable
<1>1. CASE key'[c] = key[c] /\ line'[c] = line[c]
    BY <1>1 DEF KeyIsSender, UntrustedOnPath
<1>2. CASE Arrive(c)
    <2>1. PICK own \in deployment.lines :
              \E address \in CountsFor(c, own) :
                  /\ line' = [line EXCEPT ![c] = own]
                  /\ key' = [key EXCEPT ![c] = address]
        BY <1>2 DEF Arrive
    <2>2. line'[c] = own /\ key'[c] \in CountsFor(c, own)
        BY <2>1 DEF TInv, TypeOK
    <2>3. c \in deployment.clients /\ deployment \in Deployment
        BY <1>2 DEF Arrive, TInv, TypeOK, OnlyItsClients
    <2> QED
        BY <2>2, <2>3, KeyNamesSender
<1>3. (key'[c] = key[c] /\ line'[c] = line[c]) \/ Arrive(c)
    <2> USE DEF TInv, TypeOK, clientVars, requestVars, Forget
    <2>1. ASSUME NEW d \in Client, Arrive(d), d # c PROVE key'[c] = key[c] /\ line'[c] = line[c]
        BY <2>1 DEF Arrive
    <2>2. ASSUME NEW d \in Client, ClientStep(d), ~Arrive(d)
          PROVE  key'[c] = key[c] /\ line'[c] = line[c]
        BY <2>2 DEF ClientStep, Connect, StartRequest, AnswerOutside, HandlerStep, Invalid,
                    Acquire, AcquireFails, HandlerEnds, TimeOut, Deliver, Leave
    <2>3. ASSUME \A d \in Client : ~ClientStep(d) PROVE key' = key /\ line' = line
        BY <2>3
        DEF Next, MainStep, LoadConfig, InitState, BuildRouter, Bind, Boot, Drained, Finish,
            WatcherStep, PingBegins, PingAcquires, PingFails, PingAnswers, Wait, Watched,
            Signal, Fault, StatementEnds, Second, vars
    <2> QED
        BY <2>1, <2>2, <2>3
<1> QED
    BY <1>1, <1>2, <1>3

\* A request whose forwarding header can be read counts for the last address on
\* its way that is not a trusted proxy, whatever stood in the header before.
THEOREM KeysNameSenders == Spec => []KeyIsSender
<1>1. Init => KeyIsSender
    BY DEF Init, KeyIsSender
<1> QED
    BY <1>1, TypesInvariant, KeyNext, PTL DEF Spec

-----------------------------------------------------------------------------
(* The pool                                                                *)

\* Who works changes by one handler at most.
LEMMA WorkingCounted ==
    /\ IsFiniteSet(Working)
    /\ Cardinality(Working) \in Nat
    /\ \A c \in Client \ Working :
          Cardinality(Working \cup {c}) = Cardinality(Working) + 1
    /\ \A c \in Working :
          Cardinality(Working \ {c}) = Cardinality(Working) - 1
<1>1. IsFiniteSet(Client) /\ Working \subseteq Client
    BY DeploymentAssumption DEF Working
<1>2. IsFiniteSet(Working)
    BY <1>1, FS_Subset
<1> QED
    BY <1>2, FS_CardinalityType, FS_AddElement, FS_RemoveElement

\* A step of a client takes a connection only if one is free, and otherwise
\* keeps or gives back what it holds.
LEMMA ClientHolds ==
    ASSUME TInv, NEW c \in Client, ClientStep(c)
    PROVE  /\ watcher' = watcher /\ closed' = closed /\ phase' = phase
           /\ \/ /\ Free
                 /\ Cardinality(Working') = Cardinality(Working) + 1
                 /\ abandoned' = abandoned
              \/ /\ Cardinality(Working') + abandoned' <= Cardinality(Working) + abandoned
                 /\ Cardinality(Working') \in Nat /\ abandoned' \in Nat
<1> USE DEF mainVars, gateVars, Respond
<1>1. /\ Cardinality(Working) \in Nat /\ abandoned \in Nat
      /\ stage \in [Client -> {"none", "open", "sending", "waiting", "working", "answering"}]
    BY WorkingCounted DEF TInv, TypeOK
<1>2. watcher' = watcher /\ closed' = closed /\ phase' = phase
    BY DEF ClientStep, Connect, StartRequest, AnswerOutside, Arrive, HandlerStep, Invalid,
           Acquire, AcquireFails, HandlerEnds, TimeOut, Deliver, Leave
<1>3. \A d \in Client : d # c => stage'[d] = stage[d]
    BY <1>1 DEF ClientStep, Connect, StartRequest, AnswerOutside, Arrive, Pass, HandlerStep,
           Invalid, Acquire, AcquireFails, HandlerEnds, TimeOut, Deliver, Leave
<1>4. CASE stage[c] # "working" /\ stage'[c] = "working"
    <2>1. Acquire(c)
        BY <1>1, <1>4
        DEF ClientStep, Connect, StartRequest, AnswerOutside, Arrive, Pass, HandlerStep,
            Invalid, AcquireFails, HandlerEnds, TimeOut, Deliver, Leave
    <2>2. Working' = Working \cup {c} /\ c \notin Working
        BY <1>3, <1>4 DEF Working
    <2> QED
        BY <1>2, <2>1, <2>2, WorkingCounted DEF Acquire
<1>5. CASE stage[c] = "working" /\ stage'[c] # "working"
    <2>1. Working' = Working \ {c} /\ c \in Working
        BY <1>3, <1>5 DEF Working
    <2>2. abandoned' \in {abandoned, abandoned + 1}
        BY DEF ClientStep, Connect, StartRequest, AnswerOutside, Arrive, HandlerStep, Invalid,
               Acquire, AcquireFails, HandlerEnds, TimeOut, Deliver, Leave, Drop
    <2>3. Cardinality(Working') = Cardinality(Working) - 1 /\ Cardinality(Working) > 0
        <3>1. IsFiniteSet(Working) /\ Working # {}
            BY <2>1, WorkingCounted
        <3>2. Cardinality(Working) # 0
            BY <3>1, FS_EmptySet
        <3> QED
            BY <1>1, <2>1, <3>2, WorkingCounted
    <2> HIDE DEF Respond
    <2> QED
        BY <1>1, <1>2, <2>2, <2>3
<1>6. CASE (stage[c] = "working") = (stage'[c] = "working")
    <2>1. Working' = Working
        BY <1>3, <1>6 DEF Working
    <2>2. abandoned' = abandoned
        BY <1>1, <1>6
        DEF ClientStep, Connect, StartRequest, AnswerOutside, Arrive, HandlerStep, Invalid,
            Acquire, AcquireFails, HandlerEnds, TimeOut, Deliver, Leave, Drop
    <2> QED
        BY <1>1, <1>2, <2>1, <2>2
<1> QED
    BY <1>4, <1>5, <1>6

\* The connections of handlers, left-behind statements and the ping.
Pinging == IF watcher = "asking" THEN 1 ELSE 0

-----------------------------------------------------------------------------
(* The end                                                                 *)

\* main closes the pool when no request is left, and admits none after it.
LEMMA ClosedNext == TInv /\ ClosedAfterRequests /\ [Next]_vars => ClosedAfterRequests'
<1> SUFFICES ASSUME TInv, ClosedAfterRequests, [Next]_vars PROVE ClosedAfterRequests'
    OBVIOUS
<1> USE DEF ClosedAfterRequests, mainVars, clientVars
<1>1. CASE MainStep
    BY <1>1 DEF MainStep, LoadConfig, InitState, BuildRouter, Bind, Boot, Drained, Finish
<1>2. CASE WatcherStep
    BY <1>2 DEF WatcherStep, PingBegins, PingAcquires, PingFails, PingAnswers, Wait, Watched
<1>3. ASSUME NEW c \in Client, ClientStep(c) PROVE ClosedAfterRequests'
    <2>1. phase \notin {"closing", "stopped"}
        BY <1>3 DEF ClientStep, Connect, StartRequest, AnswerOutside, Arrive, HandlerStep,
                    Invalid, Acquire, AcquireFails, HandlerEnds, TimeOut, Deliver, Leave, Running
    <2> QED
        BY <1>3, <2>1, ClientHolds
<1>4. CASE Signal
    BY <1>4 DEF Signal
<1>5. CASE UNCHANGED <<phase, closed, stage>>
    BY <1>5
<1> QED
    BY <1>1, <1>2, <1>3, <1>4, <1>5 DEF Next, Fault, StatementEnds, Second, vars

\* The pool is closed only when every connection of a client is gone.
THEOREM ClosingComesLast == Spec => []ClosedAfterRequests
<1>1. Init => ClosedAfterRequests
    BY DEF Init, ClosedAfterRequests
<1> QED
    BY <1>1, TypesInvariant, ClosedNext, PTL DEF Spec

\* No handler asks a closed pool for a connection, or works on one.
THEOREM HandlersHavePool == Spec => []HandlerHasPool
<1>1. ClosedAfterRequests => HandlerHasPool
    BY DEF ClosedAfterRequests, HandlerHasPool
<1> QED
    BY <1>1, ClosingComesLast, PTL

\* While main closes a pool of PostgreSQL or MariaDB, it hands out no more
\* connections; SQL Server's stays open.
ClosingIsClosed == phase = "closing" => closed = ~MsSql

\* Only Drained leads to the closing, and nothing opens the pool again.
LEMMA ClosingNext == ClosingIsClosed /\ [Next]_vars => ClosingIsClosed'
<1> SUFFICES ASSUME ClosingIsClosed, [Next]_vars, phase' = "closing"
             PROVE  closed' = ~MsSql
    BY DeploymentStays DEF ClosingIsClosed, MsSql
<1>1. CASE Drained
    BY <1>1 DEF Drained
<1>2. CASE UNCHANGED <<phase, closed>>
    BY <1>2 DEF ClosingIsClosed
<1> QED
    BY <1>1, <1>2
    DEF Next, MainStep, LoadConfig, InitState, BuildRouter, Bind, Boot, Finish, WatcherStep,
        PingBegins, PingAcquires, PingFails, PingAnswers, Wait, Watched, ClientStep, Connect,
        StartRequest, AnswerOutside, Arrive, HandlerStep, Invalid, Acquire, AcquireFails,
        HandlerEnds, TimeOut, Deliver, Leave, Signal, Fault, StatementEnds, Second, vars, mainVars

\* While the server drains, a client's connection stays where it is or gets further.
LEMMA DrainAdvances ==
    ASSUME TInv, [Next]_vars, phase = "draining", NEW c \in Client
    PROVE  \E i, j \in DOMAIN Course :
               i <= j /\ stage[c] = Course[i] /\ stage'[c] = Course[j]
<1> DEFINE Ahead(s, t) == \E i, j \in DOMAIN Course : i <= j /\ s = Course[i] /\ t = Course[j]
<1>1. DOMAIN Course = 1..6
    BY DEF Course
<1>2. \A s \in {"none", "open", "sending", "waiting", "working", "answering"} :
          Ahead(s, s) /\ Ahead(s, "none")
    BY <1>1 DEF Course
<1>3. /\ Ahead("sending", "waiting") /\ Ahead("waiting", "working")
      /\ \A s \in {"sending", "waiting", "working"} : Ahead(s, "answering")
    BY <1>1 DEF Course
<1>4. stage \in [Client -> {"none", "open", "sending", "waiting", "working", "answering"}]
    BY DEF TInv, TypeOK
<1>5. ASSUME NEW d \in Client, ClientStep(d)
      PROVE  \/ stage'[c] \in {stage[c], "none"}
             \/ stage[c] = "sending" /\ stage'[c] = "waiting"
             \/ stage[c] = "waiting" /\ stage'[c] = "working"
             \/ stage[c] \in {"sending", "waiting", "working"} /\ stage'[c] = "answering"
    BY <1>4, <1>5
    DEF ClientStep, Connect, StartRequest, AnswerOutside, Arrive, Pass, HandlerStep, Invalid,
        Acquire, AcquireFails, HandlerEnds, TimeOut, Deliver, Leave, Respond
<1>6. ASSUME \A d \in Client : ~ClientStep(d) PROVE stage' = stage
    BY <1>6
    DEF Next, MainStep, LoadConfig, InitState, BuildRouter, Bind, Boot, Drained, Finish,
        WatcherStep, PingBegins, PingAcquires, PingFails, PingAnswers, Wait, Watched,
        Signal, Fault, StatementEnds, Second, vars, clientVars
<1> HIDE DEF Ahead
<1>7. Ahead(stage[c], stage'[c])
    BY <1>2, <1>3, <1>4, <1>5, <1>6
<1> QED
    BY <1>7 DEF Ahead

\* While the pool closes, what is held is only given back.
LEMMA ClosingGivesBack ==
    ASSUME TInv, ClosedAfterRequests, ClosingIsClosed, [Next]_vars, phase = "closing", ~MsSql
    PROVE  Held' <= Held
<1>1. closed /\ ~Free
    BY DEF ClosingIsClosed, Free
<1>2. /\ Cardinality(Working) \in Nat /\ abandoned \in Nat /\ Pinging \in {0, 1}
      /\ Held = Cardinality(Working) + abandoned + Pinging
    BY WorkingCounted DEF TInv, TypeOK, Held, Busy, Pinging
<1>3. stage' = stage
    <2>1. ASSUME NEW c \in Client, ClientStep(c) PROVE FALSE
        BY <2>1 DEF ClosedAfterRequests, ClientStep, Connect, StartRequest, AnswerOutside,
                    Arrive, HandlerStep, Invalid, Acquire, AcquireFails, HandlerEnds,
                    TimeOut, Deliver, Leave, Running
    <2> QED
        BY <2>1
        DEF Next, MainStep, LoadConfig, InitState, BuildRouter, Bind, Boot, Drained, Finish,
            WatcherStep, PingBegins, PingAcquires, PingFails, PingAnswers, Wait, Watched,
            Signal, Fault, StatementEnds, Second, vars, clientVars
<1>4. abandoned' \in {abandoned, abandoned - 1} /\ (watcher' = "asking" => watcher = "asking")
    BY <1>1
    DEF ClosedAfterRequests, Next, MainStep, LoadConfig, InitState, BuildRouter, Bind, Boot,
        Drained, Finish, WatcherStep, PingBegins, PingAcquires, PingFails, PingAnswers, Wait,
        Watched, ClientStep, Connect, StartRequest, AnswerOutside, Arrive, HandlerStep,
        Invalid, Acquire, AcquireFails, HandlerEnds, TimeOut, Deliver, Leave, Running, Signal,
        Fault, StatementEnds, Second, vars, mainVars
<1>5. Pinging' <= Pinging /\ Pinging' \in {0, 1}
    BY <1>4 DEF Pinging
<1>6. Held' = Cardinality(Working) + abandoned' + Pinging'
    BY <1>3 DEF Held, Busy, Pinging, Working
<1> QED
    BY <1>2, <1>4, <1>5, <1>6

\* A shutdown only advances, whatever clients, timeouts, the watcher and the
\* database do meanwhile: the drain turns no connection back, and nothing
\* takes a connection from a pool that closes.
THEOREM ShutdownGoesForward == Spec => ShutdownAdvances
<1>1. Init => ClosingIsClosed
    BY DEF Init, ClosingIsClosed
<1>2. TInv /\ ClosedAfterRequests /\ ClosingIsClosed /\ [Next]_vars =>
          [/\ phase = "draining" =>
                  \A c \in Client : \E i, j \in DOMAIN Course :
                      i <= j /\ stage[c] = Course[i] /\ stage'[c] = Course[j]
           /\ phase = "closing" /\ ~MsSql => Held' <= Held]_vars
    <2> SUFFICES ASSUME TInv, ClosedAfterRequests, ClosingIsClosed, [Next]_vars
                 PROVE  /\ phase = "draining" =>
                               \A c \in Client : \E i, j \in DOMAIN Course :
                                   i <= j /\ stage[c] = Course[i] /\ stage'[c] = Course[j]
                        /\ phase = "closing" /\ ~MsSql => Held' <= Held
        OBVIOUS
    <2>1. ASSUME phase = "draining", NEW c \in Client
          PROVE  \E i, j \in DOMAIN Course :
                     i <= j /\ stage[c] = Course[i] /\ stage'[c] = Course[j]
        BY <2>1, DrainAdvances
    <2>2. ASSUME phase = "closing", ~MsSql PROVE Held' <= Held
        BY <2>2, ClosingGivesBack
    <2> QED
        BY <2>1, <2>2
<1> QED
    BY <1>1, <1>2, TypesInvariant, ClosingComesLast, ClosingNext, PTL
    DEF Spec, ShutdownAdvances

-----------------------------------------------------------------------------
(* Readiness                                                               *)

\* An outage lasts until the database is up; a ping that began in it does not
\* find the database up, however it ends.
OutageNoted ==
    /\ outage = "none" <=> db = "up"
    /\ phase \in {"loading", "connecting"} => watcher = "off"
    /\ outage = "old" => watcher # "off"
    /\ outage = "old" /\ watcher = "idle" => ~healthy

\* Every step, of whomever, keeps the outage and the flag in order.
LEMMA OutageNext == TInv /\ OutageNoted /\ [Next]_vars => OutageNoted'
<1> SUFFICES ASSUME TInv, OutageNoted, [Next]_vars PROVE OutageNoted'
    OBVIOUS
<1> USE DEF OutageNoted, mainVars, dbVars
<1>1. CASE MainStep
    <2>1. UNCHANGED dbVars /\ phase' \notin {"loading"}
        BY <1>1 DEF MainStep, LoadConfig, InitState, BuildRouter, Bind, Boot, Drained, Finish
    <2>2. CASE InitState
        BY <2>1, <2>2 DEF InitState, Boot
    <2>3. CASE ~InitState
        <3>1. UNCHANGED <<healthy, watcher>>
            BY <1>1, <2>3 DEF MainStep, LoadConfig, BuildRouter, Bind, Drained, Finish
        <3>2. phase' = "connecting" => phase = "loading"
            BY <1>1, <2>3 DEF MainStep, LoadConfig, BuildRouter, Bind, Boot, Drained, Finish
        <3> QED
            BY <2>1, <3>1, <3>2
    <2> QED
        BY <2>2, <2>3
<1>2. CASE WatcherStep
    <2>1. UNCHANGED <<phase, db>> /\ phase \notin {"loading", "connecting"}
        BY <1>2 DEF WatcherStep, PingBegins, PingAcquires, PingFails, PingAnswers, Wait,
                    Watched, Watching
    <2>2. CASE PingBegins
        BY <2>1, <2>2 DEF PingBegins, Wait, TInv, TypeOK
    <2>3. CASE PingAcquires
        BY <2>1, <2>3 DEF PingAcquires, Wait
    <2>4. CASE PingFails
        BY <2>1, <2>4 DEF PingFails, Watched
    <2>5. CASE PingAnswers
        BY <2>1, <2>5 DEF PingAnswers, Watched
    <2> QED
        BY <1>2, <2>2, <2>3, <2>4, <2>5 DEF WatcherStep
<1>3. CASE Fault
    BY <1>3 DEF Fault, TInv, TypeOK
<1>4. CASE UNCHANGED <<dbVars, watcher, healthy>> /\ (phase' = phase \/ Signal)
    BY <1>4 DEF Signal
<1> QED
    BY <1>1, <1>2, <1>3, <1>4
    DEF Next, ClientStep, Connect, StartRequest, AnswerOutside, Arrive, HandlerStep, Invalid,
        Acquire, AcquireFails, HandlerEnds, TimeOut, Deliver, Leave, Signal, StatementEnds,
        Second, vars

\* The readiness probe is never more than one ping behind an outage.
THEOREM ReadinessLags == Spec => []ReadinessLagsOnePing
<1>1. Init => OutageNoted
    BY DEF Init, OutageNoted
<1>2. OutageNoted => ReadinessLagsOnePing
    BY DEF OutageNoted, ReadinessLagsOnePing, OutsideStatus
<1> QED
    BY <1>1, <1>2, TypesInvariant, OutageNext, PTL DEF Spec

=============================================================================
