-------------------------- MODULE SignerRegistry --------------------------
(***************************************************************************)
(* The signer registry of custody mode (src/shared/custody_keys.js): whose *)
(* keys may sign receipts, and the rotation a customer performs on it      *)
(* (src/examples/custody_rotation_example.mjs).  The registry is a file the*)
(* customer edits: a new key set is added as pending, then made the active *)
(* one while the old set becomes historical.  Nothing checks a single edit;*)
(* every use of the registry checks all of it.                             *)
(*                                                                         *)
(* A key stands for its public key and, unless the file says otherwise,    *)
(* for the hash of it.                                                     *)
(***************************************************************************)
EXTENDS Naturals, FiniteSets, Sequences

CONSTANTS
    Tenants,       \* tenant_id
    SignerRecords, \* signer entries the customers write: signer_id, key_id,
                   \* public_key and public_key_hash
    ReuseAllowed,  \* policy.allow_signer_reuse_across_tenants
    MaxSets,       \* bound: signer sets per tenant entry
    MaxEditsR,     \* bound: edits of the file
    MaxIssued      \* bound: receipts issued

ASSUME SignerRegistryAssumption == {MaxSets, MaxEditsR, MaxIssued} \subseteq Nat

VARIABLES
    registry,  \* the file: tenant entries, each a sequence of signer sets
    issued,    \* receipts issued so far
    edits      \* edits so far

rvars == <<registry, issued, edits>>

----------------------------------------------------------------------------
(* Reading the registry.                                                   *)

\* normalizeSigner, for every signer of the file, with where it was found:
\* tenant entry t, set s of the entry, position i in the set.
Entries ==
    {e \in (DOMAIN registry) \X (1..MaxSets) \X (1..2) :
        /\ e[2] \in DOMAIN registry[e[1]].sets
        /\ e[3] \in DOMAIN registry[e[1]].sets[e[2]].signers}

At(e) == registry[e[1]].sets[e[2]].signers[e[3]]
TenantOf(e) == registry[e[1]].tenant
SetOf(e) == registry[e[1]].sets[e[2]]

\* The hash the file gives must be that of the key it gives.
Normalizes(e) == At(e).hash = At(e).key

\* The check of one tenant entry: the versions of its sets differ, every set has
\* one signer or says that it is a quorum, exactly one set is active, and no
\* signer_id occurs twice.
ValidTenant(t) ==
    LET sets == registry[t].sets
    IN  /\ \A s, u \in DOMAIN sets : s # u => sets[s].version # sets[u].version
        /\ \A s \in DOMAIN sets : sets[s].signers # <<>>
        /\ \A s \in DOMAIN sets : sets[s].quorum \/ Len(sets[s].signers) = 1
        /\ \A e, f \in {g \in Entries : g[1] = t} : e # f => At(e).signer # At(f).signer
        /\ Cardinality({s \in DOMAIN sets : sets[s].status = "active"}) = 1

\* The checks between entries: no signer_id, key_id or key in two tenants, and
\* one identity for every key.
Isolated(e, f) ==
    /\ TenantOf(e) # TenantOf(f) =>
         /\ At(e).signer # At(f).signer \/ ReuseAllowed
         /\ At(e).keyId # At(f).keyId
         /\ At(e).hash # At(f).hash
    /\ At(e).hash = At(f).hash =>
         At(e).signer = At(f).signer /\ At(e).keyId = At(f).keyId

\* validateSignerRegistry
ValidRegistry ==
    /\ \A t \in DOMAIN registry : ValidTenant(t)
    /\ \A e \in Entries : Normalizes(e)
    /\ \A e, f \in Entries : Isolated(e, f)

\* activeSignerForTenant: the active entries of a tenant; anything but one refuses.
ActiveSigners(tenant) ==
    {e \in Entries : TenantOf(e) = tenant /\ SetOf(e).status = "active"}

\* The mutant of Matches: only the active set is searched.
MatchesActive(r) ==
    {e \in ActiveSigners(r.tenant) : SetOf(e).version = r.version /\ At(e).hash = r.hash}

\* resolveReceiptSigner: the entries a receipt names.
Matches(r) ==
    {e \in Entries : /\ TenantOf(e) = r.tenant
                     /\ SetOf(e).version = r.version
                     /\ At(e).signer = r.signer
                     /\ At(e).keyId = r.keyId
                     /\ At(e).hash = r.hash}

\* verifyCustodyReceipt: it names one entry, whose key made its signature.
VerifyCustodyReceipt(r) ==
    /\ ValidRegistry
    /\ Cardinality(Matches(r)) = 1
    /\ \A e \in Matches(r) : At(e).key = r.signedBy

----------------------------------------------------------------------------
(* What the customer does with the file.                                   *)

Edited == /\ edits < MaxEditsR
          /\ edits' = edits + 1
          /\ UNCHANGED issued

Version(sets) == Len(sets) + 1

NewSet(sets, status, signers) ==
    [version |-> Version(sets), status |-> status, signers |-> signers,
     quorum |-> Len(signers) > 1]

\* A tenant is enrolled with its first set, perhaps one that is listed already:
\* nothing looks for a tenant_id that occurs twice.
Enrol ==
    /\ Edited
    /\ \E tenant \in Tenants, r \in SignerRecords :
         registry' = Append(registry, [tenant |-> tenant,
                                       sets |-> <<NewSet(<<>>, "active", <<r>>)>>])

\* Rotation, first step: a further set, pending, of one signer or a quorum of two.
AddPending ==
    /\ Edited
    /\ \E t \in DOMAIN registry, r \in SignerRecords :
        LET old == registry[t].sets
            first == old[1].signers[1]
        IN  /\ Len(old) < MaxSets
            /\ \E signers \in {<<r>>, <<r, [first EXCEPT !.signer = r.signer]>>} :
                 registry' = [registry EXCEPT ![t].sets =
                                Append(@, NewSet(old, "pending", signers))]

\* Set s becomes active and the active one historical.
Activated(sets, s) ==
    [u \in DOMAIN sets |->
        [sets[u] EXCEPT !.status = IF u = s THEN "active"
                                   ELSE IF @ = "active" THEN "historical" ELSE @]]

\* Rotation, second step: the new set becomes active and the old one historical.
Activate ==
    /\ Edited
    /\ \E t \in DOMAIN registry :
         \E s \in DOMAIN registry[t].sets :
           /\ registry[t].sets[s].status = "pending"
           /\ registry' = [registry EXCEPT ![t].sets = Activated(@, s)]

\* buildUnsignedCustodyReceipt for the tenant's active signer, and the signature
\* of the customer's own signer over it.
Issue ==
    /\ Cardinality(issued) < MaxIssued
    /\ ValidRegistry
    /\ \E tenant \in Tenants :
         /\ Cardinality(ActiveSigners(tenant)) = 1
         /\ \E e \in ActiveSigners(tenant) :
              issued' = issued \cup
                {[tenant |-> tenant, version |-> SetOf(e).version, signer |-> At(e).signer,
                  keyId |-> At(e).keyId, hash |-> At(e).hash, signedBy |-> At(e).key]}
    /\ UNCHANGED <<registry, edits>>

InitR == registry = <<>> /\ issued = {} /\ edits = 0

NextR == Enrol \/ AddPending \/ Activate \/ Issue

SpecR == InitR /\ [][NextR]_rvars

----------------------------------------------------------------------------
(* Properties.                                                             *)

ListedOnce(tenant) ==
    \A t, u \in DOMAIN registry :
        registry[t].tenant = tenant /\ registry[u].tenant = tenant => t = u

\* Rotation is safe: in whatever registry enrolments and rotations lead to, if it
\* is accepted at all, a receipt issued before names its signer and no other key,
\* and no key that signed for one tenant is another tenant's.  As long as its
\* tenant is listed once, it still verifies (custody.md: "Old receipts keep their
\* original metadata and continue verifying"), and the tenant can go on issuing
\* unless its active set is a quorum.  A tenant listed twice may match twice, and
\* have two active signers.
RotationSafe ==
    ValidRegistry =>
      /\ \A r \in issued : Matches(r) # {} /\ \A e \in Matches(r) : At(e).key = r.signedBy
      /\ \A r \in issued : ListedOnce(r.tenant) => VerifyCustodyReceipt(r)
      /\ \A r \in issued, e \in Entries : At(e).key = r.signedBy => TenantOf(e) = r.tenant
      /\ \A e \in Entries :
           SetOf(e).status = "active" /\ ~SetOf(e).quorum /\ ListedOnce(TenantOf(e)) =>
             Cardinality(ActiveSigners(TenantOf(e))) = 1
============================================================================
