--------------------------- MODULE NonceAuthority ---------------------------
(***************************************************************************)
(* The single use of authority assertions (sidecar/auth_authority.mjs):    *)
(* the time window an assertion is valid in, the cache of nonces already   *)
(* used, and the file that carries that cache over a restart.              *)
(*                                                                         *)
(* authorizeAuthorityAction runs without an await, so one call is one      *)
(* action.  The model is of one sidecar process with a clock that does not *)
(* run backwards.  The signature, issuer, audience and role checks decide  *)
(* whether an assertion is looked at and are left out: every assertion     *)
(* here passes them.  A nonce belongs to one signed assertion.             *)
(***************************************************************************)
EXTENDS Integers

CONSTANTS
    Nonces,         \* assertions, named by their nonce
    MaxLifetime,    \* ASSERTION_MAX_LIFETIME_MS
    ClockSkew,      \* ASSERTION_CLOCK_SKEW_MS
    MaxTime         \* bound on the clock

ASSUME WindowAssumption ==
    /\ MaxLifetime \in Nat \ {0}
    /\ ClockSkew \in Nat
    /\ MaxTime \in Nat

VARIABLES
    now,            \* Date.now()
    claims,         \* issued_at and expires_at of each assertion
    seen,           \* seenNonces: nonce -> expiry, 0 when absent
    disk,           \* the entries of the nonce cache file, 0 when absent
    readable,       \* the file parses as JSON
    accepted,       \* the assertions accepted at least once
    twice,          \* the assertions accepted more than once
    cacheLost       \* the process started on a file that does not parse

vars == <<now, claims, seen, disk, readable, accepted, twice, cacheLost>>

Times == 0..MaxTime
NoNonces == [n \in Nonces |-> 0]

Init ==
    /\ now = 0
    /\ claims \in [Nonces -> [issued : Times, expires : Times]]
    /\ seen = NoNonces
    /\ disk = NoNonces
    /\ readable = TRUE
    /\ accepted = {}
    /\ twice = {}
    /\ cacheLost = FALSE

\* validateAssertionClaims: the checks on time.
ClaimsValid(n) ==
    /\ claims[n].expires > now
    /\ claims[n].issued <= now + ClockSkew
    /\ claims[n].issued >= now - MaxLifetime - ClockSkew
    /\ claims[n].expires - claims[n].issued <= MaxLifetime

\* Mutant: a nonce is kept for the lifetime only.
ExpiryWithoutSkew == now + MaxLifetime

\* How long reserveNonce remembers a nonce.
Expiry == now + MaxLifetime + ClockSkew

\* The entries that have not expired.
Live(entries) == [n \in Nonces |-> IF entries[n] > now THEN entries[n] ELSE 0]

\* loadPersistentNonces: live entries of the file over those in memory.
Loaded ==
    [n \in Nonces |-> IF readable /\ disk[n] > now THEN disk[n] ELSE seen[n]]

\* cleanupNonces drops what has expired, and then writes the file.
Cleaned == Live(Loaded)

\* The file after writeFileSync of entries over file d: written, or failed with
\* the old content, a truncated one, or the new one in place.
Write(d, entries) ==
    {[ok |-> TRUE,  readable |-> TRUE,  entries |-> entries],
     [ok |-> FALSE, readable |-> d.readable, entries |-> d.entries],
     [ok |-> FALSE, readable |-> FALSE, entries |-> NoNonces],
     [ok |-> FALSE, readable |-> TRUE,  entries |-> entries]}

\* The file after cleanupNonces, whose write is only made if something expired
\* and whose failure is ignored.
AfterCleanup ==
    LET d == [ok |-> TRUE, readable |-> readable, entries |-> disk]
    IN  IF Cleaned = Loaded THEN {d} ELSE Write(d, Cleaned)

Accept(n) ==
    /\ accepted' = accepted \cup {n}
    /\ twice' = twice \cup ({n} \cap accepted)

\* Mutant: the result of persistNonces is ignored.
ReserveUnpersisted(n) ==
    \E d \in AfterCleanup :
        \E w \in Write(d, [Cleaned EXCEPT ![n] = Expiry]) :
            /\ disk' = w.entries
            /\ readable' = w.readable
            /\ seen' = [Cleaned EXCEPT ![n] = Expiry]
            /\ Accept(n)

\* reserveNonce for a nonce that is not remembered: accepted once it is on disk.
Reserve(n) ==
    \E d \in AfterCleanup :
        \E w \in Write(d, [Cleaned EXCEPT ![n] = Expiry]) :
            /\ disk' = w.entries
            /\ readable' = w.readable
            /\ seen' = IF w.ok THEN [Cleaned EXCEPT ![n] = Expiry] ELSE Cleaned
            /\ IF w.ok THEN Accept(n) ELSE UNCHANGED <<accepted, twice>>

\* authorizeAuthorityAction with a valid assertion whose nonce is new.
AuthorizeNew(n) ==
    /\ ClaimsValid(n)
    /\ Cleaned[n] = 0
    /\ Reserve(n)
    /\ UNCHANGED <<now, claims, cacheLost>>

\* The same with a nonce that is remembered: ERR_AUTH_REPLAY.
AuthorizeReplay(n) ==
    /\ ClaimsValid(n)
    /\ Cleaned[n] # 0
    /\ \E d \in AfterCleanup : disk' = d.entries /\ readable' = d.readable
    /\ seen' = Cleaned
    /\ UNCHANGED <<now, claims, accepted, twice, cacheLost>>

\* The process ends and starts again; torn: it ended inside writeFileSync.
Restart(torn) ==
    /\ readable' = (readable /\ ~torn)
    /\ seen' = NoNonces
    /\ cacheLost' = (cacheLost \/ ~readable')
    /\ UNCHANGED <<now, claims, disk, accepted, twice>>

Tick ==
    /\ now < MaxTime
    /\ now' = now + 1
    /\ UNCHANGED <<claims, seen, disk, readable, accepted, twice, cacheLost>>

Next ==
    \/ \E n \in Nonces : AuthorizeNew(n) \/ AuthorizeReplay(n)
    \/ \E torn \in BOOLEAN : Restart(torn)
    \/ Tick

Spec == Init /\ [][Next]_vars
-----------------------------------------------------------------------------
\* Types; an entry of the cache never outlives the retention time.
TypeOK ==
    /\ now \in Times
    /\ claims \in [Nonces -> [issued : Times, expires : Times]]
    /\ seen \in [Nonces -> 0..(now + MaxLifetime + ClockSkew)]
    /\ disk \in [Nonces -> 0..(now + MaxLifetime + ClockSkew)]
    /\ readable \in BOOLEAN
    /\ accepted \subseteq Nonces /\ twice \subseteq accepted
    /\ cacheLost \in BOOLEAN

\* Single use: no assertion is accepted twice, over any number of restarts and
\* failed writes of the cache file, unless the process has started on a file
\* that a cut-short write left unparsable.
AcceptedOnce == ~cacheLost => twice = {}

\* An assertion is accepted only in a step that leaves its nonce on disk for as
\* long as the assertion is valid.
PersistedBeforeAccepted ==
    [][\A n \in (accepted' \ accepted) \cup (twice' \ twice) :
          readable' /\ disk'[n] >= claims[n].expires]_vars

\* A used assertion that has not expired is remembered: in memory, or on disk
\* right after a restart; and on disk whenever the file is readable.
Recorded ==
    ~cacheLost => \A n \in Nonces :
        (n \in accepted /\ claims[n].expires > now) =>
            /\ readable => disk[n] >= claims[n].expires
            /\ ~readable => seen[n] >= claims[n].expires
=============================================================================
