------------------------ MODULE NonceAuthorityProofs ------------------------
(***************************************************************************)
(* Single use of authority assertions, for every lifetime, clock skew and  *)
(* set of assertions.                                                      *)
(***************************************************************************)
EXTENDS NonceAuthority, TLAPS

IInv == TypeOK /\ Recorded /\ AcceptedOnce

Entries == [Nonces -> 0..(now + MaxLifetime + ClockSkew)]

\* The heart of the matter: a nonce reserved while its assertion is valid is
\* kept until the assertion has expired, because issued_at may lie at most the
\* skew ahead and expires_at at most the lifetime after that.
LEMMA RetentionCoversValidity ==
    ASSUME TypeOK, NEW n \in Nonces, ClaimsValid(n)
    PROVE  claims[n].expires <= Expiry /\ Expiry > now
  BY WindowAssumption DEF TypeOK, ClaimsValid, Expiry, Times

\* The cache as a call finds it, after reading the file and cleaning up.
LEMMA CleanedLemma ==
    ASSUME TypeOK
    PROVE  /\ Cleaned \in Entries
           /\ \A n \in Nonces :
                /\ readable /\ disk[n] > now => Cleaned[n] = disk[n]
                /\ ~readable /\ seen[n] > now => Cleaned[n] = seen[n]
<1>1. now \in Nat /\ MaxLifetime \in Nat /\ ClockSkew \in Nat
  BY WindowAssumption DEF TypeOK, Times
<1>2. Loaded \in Entries
  BY <1>1 DEF TypeOK, Loaded, Entries
<1>3. QED BY <1>1, <1>2 DEF TypeOK, Cleaned, Live, Loaded, Entries

\* What a used and still valid assertion gives: the cache has its nonce.
LEMMA StillRemembered ==
    ASSUME TypeOK, Recorded, ~cacheLost, NEW n \in accepted,
           claims[n].expires > now
    PROVE  Cleaned[n] >= claims[n].expires /\ Cleaned[n] # 0
<1>1. n \in Nonces /\ claims[n].expires \in Nat /\ now \in Nat
  BY DEF TypeOK, Times
<1>2. Cleaned[n] \in Int /\ disk[n] \in Int /\ seen[n] \in Int
  BY <1>1, CleanedLemma DEF TypeOK, Entries
<1>3. CASE readable
  BY <1>1, <1>2, <1>3, CleanedLemma DEF Recorded
<1>4. CASE ~readable
  BY <1>1, <1>2, <1>4, CleanedLemma DEF Recorded
<1>5. QED BY <1>3, <1>4

\* The file after the clean-up of a call.
LEMMA AfterCleanupLemma ==
    ASSUME NEW d \in AfterCleanup
    PROVE  \/ d.readable = readable /\ d.entries = disk
           \/ d.readable = FALSE /\ d.entries = NoNonces
           \/ d.readable = TRUE /\ d.entries = Cleaned
<1> DEFINE old == [ok |-> TRUE, readable |-> readable, entries |-> disk]
<1>1. CASE Cleaned = Loaded
  BY <1>1 DEF AfterCleanup
<1>2. CASE Cleaned # Loaded
  <2>1. d \in Write(old, Cleaned)
    BY <1>2 DEF AfterCleanup
  <2>2. old.readable = readable /\ old.entries = disk
    OBVIOUS
  <2>3. QED BY <2>1, <2>2 DEF Write
<1>3. QED BY <1>1, <1>2

\* The caches the steps below start from are well typed.
LEMMA EntriesFacts ==
    ASSUME TypeOK
    PROVE  /\ NoNonces \in Entries /\ disk \in Entries /\ seen \in Entries
           /\ now \in Nat /\ Expiry \in 0..(now + MaxLifetime + ClockSkew)
  BY WindowAssumption DEF TypeOK, Entries, NoNonces, Times, Expiry

\* A call with a new nonce.
LEMMA AuthorizeNewStep ==
    ASSUME IInv, NEW n \in Nonces, AuthorizeNew(n)
    PROVE  /\ IInv'
           /\ \A m \in (accepted' \ accepted) \cup (twice' \ twice) :
                 readable' /\ disk'[m] >= claims[m].expires
<1> DEFINE new == [Cleaned EXCEPT ![n] = Expiry]
<1>1. TypeOK /\ Recorded /\ AcceptedOnce
  BY DEF IInv
<1>2. ClaimsValid(n) /\ Cleaned[n] = 0 /\ UNCHANGED <<now, claims, cacheLost>>
  BY DEF AuthorizeNew
<1>a. PICK d \in AfterCleanup : \E v \in Write(d, new) :
            /\ disk' = v.entries
            /\ readable' = v.readable
            /\ seen' = IF v.ok THEN new ELSE Cleaned
            /\ IF v.ok THEN Accept(n) ELSE UNCHANGED <<accepted, twice>>
  BY DEF AuthorizeNew, Reserve
<1>3. PICK w \in Write(d, new) :
            /\ disk' = w.entries
            /\ readable' = w.readable
            /\ seen' = IF w.ok THEN new ELSE Cleaned
            /\ IF w.ok THEN Accept(n) ELSE UNCHANGED <<accepted, twice>>
  BY <1>a
<1>4. Cleaned \in Entries /\ new \in Entries
  BY <1>1, CleanedLemma, EntriesFacts DEF Entries
<1>12. /\ new[n] = Expiry
       /\ \A m \in Nonces : m # n => new[m] = Cleaned[m]
  BY <1>4 DEF Entries
<1> HIDE DEF new
<1>5. \/ readable' = readable /\ disk' = disk
      \/ readable' = FALSE /\ disk' = NoNonces
      \/ readable' = TRUE /\ disk' = Cleaned
      \/ readable' = TRUE /\ disk' = new
  <2>1. \/ d.readable = readable /\ d.entries = disk
        \/ d.readable = FALSE /\ d.entries = NoNonces
        \/ d.readable = TRUE /\ d.entries = Cleaned
    BY AfterCleanupLemma
  <2>2. \/ w.readable = d.readable /\ w.entries = d.entries
        \/ w.readable = FALSE /\ w.entries = NoNonces
        \/ w.readable = TRUE /\ w.entries = new
    BY DEF Write
  <2>3. QED BY <1>3, <2>1, <2>2
<1>6. w.ok => readable' = TRUE /\ disk' = new /\ seen' = new
  <2>1. w.ok => w.readable = TRUE /\ w.entries = new
    BY DEF Write
  <2>2. QED BY <1>3, <2>1
<1>7. seen' = new \/ seen' = Cleaned
  BY <1>3
<1>8. \/ accepted' = accepted \cup {n} /\ twice' = twice \cup ({n} \cap accepted) /\ w.ok
      \/ accepted' = accepted /\ twice' = twice
  BY <1>3 DEF Accept
<1>9. ~cacheLost => n \notin accepted
  BY <1>1, <1>2, StillRemembered DEF ClaimsValid
<1>10. TypeOK'
  BY <1>1, <1>2, <1>4, <1>5, <1>7, <1>8, EntriesFacts DEF TypeOK, Entries
<1>11. AcceptedOnce'
  BY <1>1, <1>2, <1>8, <1>9 DEF AcceptedOnce
<1>13. new[n] >= claims[n].expires
  BY <1>1, <1>2, <1>12, RetentionCoversValidity DEF TypeOK, Times, Expiry
<1>14. Recorded'
  <2>1. SUFFICES ASSUME ~cacheLost, NEW m \in Nonces, m \in accepted',
                        claims[m].expires > now
                 PROVE  /\ readable' => disk'[m] >= claims[m].expires
                        /\ ~readable' => seen'[m] >= claims[m].expires
    BY <1>2 DEF Recorded
  <2>2. CASE m \in accepted
    <3>1. Cleaned[m] >= claims[m].expires /\ m # n
      BY <1>1, <1>9, <2>1, <2>2, StillRemembered
    <3>2. new[m] >= claims[m].expires
      BY <1>12, <3>1
    <3>3. readable => disk[m] >= claims[m].expires
      BY <1>1, <2>1, <2>2 DEF Recorded
    <3>4. QED BY <1>5, <1>7, <3>1, <3>2, <3>3
  <2>3. CASE m \notin accepted
    <3>1. m = n /\ w.ok
      BY <1>8, <2>1, <2>3
    <3>2. QED BY <1>6, <1>13, <3>1
  <2>4. QED BY <2>2, <2>3
<1>15. ASSUME NEW m \in (accepted' \ accepted) \cup (twice' \ twice)
       PROVE  readable' /\ disk'[m] >= claims[m].expires
  BY <1>6, <1>8, <1>13, <1>15
<1>16. QED BY <1>10, <1>11, <1>14, <1>15 DEF IInv

\* A call with a nonce that is remembered.
LEMMA AuthorizeReplayStep ==
    ASSUME IInv, NEW n \in Nonces, AuthorizeReplay(n)
    PROVE  IInv' /\ UNCHANGED <<accepted, twice>>
<1>1. TypeOK /\ Recorded /\ AcceptedOnce
  BY DEF IInv
<1>2. seen' = Cleaned /\ UNCHANGED <<now, claims, accepted, twice, cacheLost>>
  BY DEF AuthorizeReplay
<1>3. PICK d \in AfterCleanup : disk' = d.entries /\ readable' = d.readable
  BY DEF AuthorizeReplay
<1>4. \/ readable' = readable /\ disk' = disk
      \/ readable' = FALSE /\ disk' = NoNonces
      \/ readable' = TRUE /\ disk' = Cleaned
  BY <1>3, AfterCleanupLemma
<1>5. TypeOK'
  BY <1>1, <1>2, <1>4, CleanedLemma, EntriesFacts DEF TypeOK, Entries
<1>6. AcceptedOnce'
  BY <1>1, <1>2 DEF AcceptedOnce
<1>7. Recorded'
  <2>1. SUFFICES ASSUME ~cacheLost, NEW m \in Nonces, m \in accepted,
                        claims[m].expires > now
                 PROVE  /\ readable' => disk'[m] >= claims[m].expires
                        /\ ~readable' => seen'[m] >= claims[m].expires
    BY <1>2 DEF Recorded
  <2>2. Cleaned[m] >= claims[m].expires
    BY <1>1, <2>1, StillRemembered
  <2>3. readable => disk[m] >= claims[m].expires
    BY <1>1, <2>1 DEF Recorded
  <2>4. QED BY <1>2, <1>4, <2>2, <2>3
<1>8. QED BY <1>2, <1>5, <1>6, <1>7 DEF IInv

\* A restart empties the memory; what was accepted is on disk, or the file does
\* not parse and the cache counts as lost.
LEMMA RestartStep ==
    ASSUME IInv, NEW torn \in BOOLEAN, Restart(torn)
    PROVE  IInv' /\ UNCHANGED <<accepted, twice>>
<1>1. TypeOK /\ Recorded /\ AcceptedOnce
  BY DEF IInv
<1>2. TypeOK'
  BY <1>1, EntriesFacts DEF TypeOK, Entries, Restart
<1>3. AcceptedOnce'
  BY <1>1 DEF AcceptedOnce, Restart
<1>4. Recorded'
  BY <1>1 DEF Recorded, Restart
<1>5. QED BY <1>2, <1>3, <1>4 DEF IInv, Restart

\* Time passing only shrinks the set of assertions that are still valid.
LEMMA TickStep ==
    ASSUME IInv, Tick
    PROVE  IInv' /\ UNCHANGED <<accepted, twice>>
<1>1. TypeOK /\ Recorded /\ AcceptedOnce
  BY DEF IInv
<1>2. now \in Nat /\ now' = now + 1 /\ now' \in Times
  BY <1>1, WindowAssumption DEF TypeOK, Tick, Times
<1>3. TypeOK'
  <2>1. 0..(now + MaxLifetime + ClockSkew) \subseteq 0..(now' + MaxLifetime + ClockSkew)
    BY <1>2, WindowAssumption
  <2>2. seen \in [Nonces -> 0..(now' + MaxLifetime + ClockSkew)]
    BY <1>1, <2>1 DEF TypeOK
  <2>3. disk \in [Nonces -> 0..(now' + MaxLifetime + ClockSkew)]
    BY <1>1, <2>1 DEF TypeOK
  <2>4. QED BY <1>1, <1>2, <2>2, <2>3 DEF TypeOK, Tick
<1>4. AcceptedOnce'
  BY <1>1 DEF AcceptedOnce, Tick
<1>5. Recorded'
  <2>1. SUFFICES ASSUME ~cacheLost, NEW m \in Nonces, m \in accepted,
                        claims[m].expires > now + 1
                 PROVE  /\ readable => disk[m] >= claims[m].expires
                        /\ ~readable => seen[m] >= claims[m].expires
    BY <1>2 DEF Recorded, Tick
  <2>2. claims[m].expires > now
    BY <1>1, <1>2, <2>1 DEF TypeOK, Times
  <2>3. QED BY <1>1, <2>1, <2>2 DEF Recorded
<1>6. QED BY <1>3, <1>4, <1>5 DEF IInv, Tick

\* The invariant holds at the start: nothing has been accepted.
LEMMA InitInvariant == Init => IInv
<1>1. SUFFICES ASSUME Init PROVE IInv
  OBVIOUS
<1>2. now \in Times /\ 0 \in 0..(now + MaxLifetime + ClockSkew)
  BY <1>1, WindowAssumption DEF Init, Times
<1>3. NoNonces \in [Nonces -> 0..(now + MaxLifetime + ClockSkew)]
  BY <1>2 DEF NoNonces
<1>4. TypeOK
  BY <1>1, <1>2, <1>3 DEF Init, TypeOK
<1>5. Recorded /\ AcceptedOnce
  BY <1>1 DEF Init, Recorded, AcceptedOnce
<1>6. QED BY <1>4, <1>5 DEF IInv

\* Every step keeps the invariant, and accepts only what it leaves on disk.
LEMMA StepInvariant ==
    ASSUME IInv, [Next]_vars
    PROVE  /\ IInv'
           /\ [\A n \in (accepted' \ accepted) \cup (twice' \ twice) :
                  readable' /\ disk'[n] >= claims[n].expires]_vars
<1>1. CASE UNCHANGED vars
  BY <1>1 DEF IInv, TypeOK, Recorded, AcceptedOnce, vars, Times
<1>2. ASSUME NEW n \in Nonces, AuthorizeNew(n)
      PROVE  /\ IInv'
             /\ \A m \in (accepted' \ accepted) \cup (twice' \ twice) :
                   readable' /\ disk'[m] >= claims[m].expires
  BY <1>2, AuthorizeNewStep
<1>3. ASSUME NEW n \in Nonces, AuthorizeReplay(n)
      PROVE  IInv' /\ UNCHANGED <<accepted, twice>>
  BY <1>3, AuthorizeReplayStep
<1>4. ASSUME NEW torn \in BOOLEAN, Restart(torn)
      PROVE  IInv' /\ UNCHANGED <<accepted, twice>>
  BY <1>4, RestartStep
<1>5. CASE Tick
  BY <1>5, TickStep
<1>6. QED BY <1>1, <1>2, <1>3, <1>4, <1>5 DEF Next

\* The inductive invariant: types, single use, and the record of every used
\* assertion that could still be presented.
THEOREM Invariance == Spec => []IInv
<1>1. IInv /\ [Next]_vars => IInv'
  BY StepInvariant
<1>2. QED BY InitInvariant, <1>1, PTL DEF Spec

\* authorizeAuthorityAction never accepts an assertion twice, over restarts and
\* failed writes, as long as the process never started on an unparsable file.
THEOREM SingleUse == Spec => []AcceptedOnce
<1>1. IInv => AcceptedOnce
  BY DEF IInv
<1>2. QED BY Invariance, <1>1, PTL

\* Types, and the bound on how long an entry is kept.
THEOREM TypeCorrect == Spec => []TypeOK
<1>1. IInv => TypeOK
  BY DEF IInv
<1>2. QED BY Invariance, <1>1, PTL

\* A used assertion that is still valid is on disk, or in memory while the file
\* does not parse.
THEOREM RecordedCorrect == Spec => []Recorded
<1>1. IInv => Recorded
  BY DEF IInv
<1>2. QED BY Invariance, <1>1, PTL

\* reserveNonce has the nonce on disk, for as long as the assertion is valid,
\* in the very step that accepts the assertion.
THEOREM PersistCorrect == Spec => PersistedBeforeAccepted
<1>1. IInv /\ [Next]_vars =>
        [\A n \in (accepted' \ accepted) \cup (twice' \ twice) :
            readable' /\ disk'[n] >= claims[n].expires]_vars
  BY StepInvariant
<1>2. QED BY Invariance, <1>1, PTL DEF Spec, PersistedBeforeAccepted
=============================================================================
