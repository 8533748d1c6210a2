------------------------------ MODULE MCSubmit ------------------------------
(* Small instances of Submit for TLC. *)
EXTENDS Submit, TLC

CONSTANTS h1, h2, u1, u2, a1, k1, k2

Outbox == {[outbox |-> TRUE, cacheWriter |-> FALSE]}

OutboxAndCache == {[outbox |-> TRUE, cacheWriter |-> TRUE]}

Direct == {[outbox |-> FALSE, cacheWriter |-> FALSE]}

DirectAndCache == {[outbox |-> FALSE, cacheWriter |-> TRUE]}

EitherMode == Outbox \cup DirectAndCache

CacheOrDirect == OutboxAndCache \cup Direct

\* Requests, users and cache keys are interchangeable.
Interchangeable ==
    Permutations(Handlers) \cup Permutations(Users) \cup Permutations(Keys)
=============================================================================
