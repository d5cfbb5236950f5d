------------------------------ MODULE AccessGate ------------------------------
(***************************************************************************)
(* The layers in front of the newsfeed handlers: which client address a    *)
(* request counts for, the rate limiter's bucket of that address, the API  *)
(* key.  The limiter is the one of the governor crate: a bucket is the     *)
(* time, in seconds, until it is empty again; a request adds a period and  *)
(* is refused if that does not fit.                                        *)
(***************************************************************************)
EXTENDS ServerConfig, Sequences

CONSTANTS
    None,
    Unreadable  \* a header entry with bytes other than visible ASCII

VARIABLES
    clock,     \* seconds since the start
    debt,      \* debt[a]: the seconds until the bucket of a is empty
    admitted   \* history: the requests let through for a

gateVars == <<clock, debt, admitted>>

GateInit ==
    /\ clock = 0
    /\ debt = [a \in Address |-> 0]
    /\ admitted = [a \in Address |-> 0]

-----------------------------------------------------------------------------
(* The client address                                                      *)

Trusted(cfg, a) == \E cidr \in ProxyCidrs(cfg) : a \in cidr

Greatest(S) == CHOOSE i \in S : \A j \in S : j <= i
Least(S) == CHOOSE i \in S : \A j \in S : i <= j

\* Mutant of Forwarded: the leftmost address, the one the client wrote.
ForwardedLeftmost(cfg, entries) ==
    LET parsed == {i \in DOMAIN entries : entries[i] \notin {Malformed, Unreadable}} IN
    IF parsed # {} THEN entries[Least(parsed)] ELSE None

\* to_str takes the header as a whole or not at all.
Readable(entries) == \A i \in DOMAIN entries : entries[i] # Unreadable

\* The walk through a readable X-Forwarded-For from the right: entries that do
\* not parse are stepped over, the first untrusted one is it; failing that,
\* the last one seen.
Forwarded(cfg, entries) ==
    LET parsed == {i \in DOMAIN entries : entries[i] # Malformed}
        untrusted == {i \in parsed : ~Trusted(cfg, entries[i])} IN
    IF ~Readable(entries) THEN None
    ELSE IF untrusted # {} THEN entries[Greatest(untrusted)]
    ELSE IF parsed # {} THEN entries[Least(parsed)]
    ELSE None

\* SecureIpExtractor::extract.  An absent header is an empty one, or None.
ClientKey(cfg, peer, entries, realIp) ==
    IF ~cfg.trust_proxy \/ ~Trusted(cfg, peer) THEN peer
    ELSE IF Forwarded(cfg, entries) # None THEN Forwarded(cfg, entries)
    ELSE IF realIp \notin {None, Malformed} THEN realIp
    ELSE peer

-----------------------------------------------------------------------------
(* The bucket                                                              *)

\* per_second(n) makes n the seconds between two tokens.
Period(cfg) == cfg.rate_limit_rps
Depth(cfg) == cfg.rate_limit_burst * Period(cfg)

\* Mutant of Fits: the request in hand is not counted.
FitsOneMore(cfg, a) == debt[a] <= Depth(cfg)

\* Mutant of Fits: the last request of a burst is refused.
FitsOneLess(cfg, a) == debt[a] + Period(cfg) < Depth(cfg)

Fits(cfg, a) == debt[a] + Period(cfg) <= Depth(cfg)

Take(cfg, a) ==
    /\ Fits(cfg, a)
    /\ debt' = [debt EXCEPT ![a] = @ + Period(cfg)]
    /\ admitted' = [admitted EXCEPT ![a] = @ + 1]
    /\ UNCHANGED clock

\* Mutant of Tick: an empty bucket saves up for later.
TickWithoutFloor(last) ==
    /\ clock < last
    /\ clock' = clock + 1
    /\ debt' = [a \in Address |-> debt[a] - 1]
    /\ UNCHANGED admitted

\* A second passes; last is a bound on the clock.
Tick(last) ==
    /\ clock < last
    /\ clock' = clock + 1
    /\ debt' = [a \in Address |-> IF debt[a] = 0 THEN 0 ELSE debt[a] - 1]
    /\ UNCHANGED admitted

-----------------------------------------------------------------------------
(* The key                                                                 *)

\* is_api_key_valid.
ValidKey(cfg, key) == key # None /\ key \in cfg.api_keys

=============================================================================
