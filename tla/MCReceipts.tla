----------------------------- MODULE MCReceipts -----------------------------
(* The pipeline, the verification of its receipts, the custody sidecar, the *)
(* signer registry, the release builds and the custody runtime share no     *)
(* state: a behaviour of this module is one of one of them.                 *)
EXTENDS MCPipeline, ReceiptVerification, CustodySidecar, SignerRegistry, ReleaseBuild,
        CustodyRuntime, TLC

VARIABLE which   \* the program this behaviour is of

CONSTANTS k1, k2, h1, h2,
          r1, r2, leak,  \* revisions; the last holds a private key
          q1, q2,        \* keys of the sidecar builds
          pol1, pol2,    \* the two policies
          proc1, proc2   \* the two processes of the custody runtime

MCVersionOf == [r \in Revisions |-> "1"]
\* The empty content is the fixed one.
MCSizeOf == [c \in Revisions \cup BuildKeys \cup {Fixed, Severed, Garbage, NoFile, Provenance} |->
                IF c = Fixed THEN 0 ELSE IF c = r2 THEN 2 ELSE 1]
MCCopied == [custody |-> <<"server", "wrapper">>, sidecar |-> <<"server", "verifier", "wrapper">>]
MCEnvironment == [commit |-> NoFile, tag |-> FALSE, strict |-> TRUE, distribute |-> TRUE]

\* Three honest signers, a key under a second name, and a wrong hash.
MCSignerRecords ==
    {[signer |-> 1, keyId |-> 1, key |-> 1, hash |-> 1],
     [signer |-> 2, keyId |-> 2, key |-> 2, hash |-> 2],
     [signer |-> 3, keyId |-> 3, key |-> 3, hash |-> 3],
     [signer |-> 2, keyId |-> 3, key |-> 1, hash |-> 1],
     [signer |-> 3, keyId |-> 1, key |-> 2, hash |-> 3]}

SignerEntry(id, mode, key, enabled) ==
    [id |-> id, mode |-> mode, key |-> key, endpoint |-> TRUE, timeouts |-> TRUE,
     enabled |-> enabled]

\* One HTTP signer, the same with its key replaced, one with a signer of another
\* mode first, and one with a key used twice.
MCSignerConfigs ==
    {[version |-> 1, threshold |-> 1, signers |-> <<SignerEntry("a", "external_http", k1, TRUE)>>],
     [version |-> 1, threshold |-> 1, signers |-> <<SignerEntry("a", "external_http", k2, TRUE)>>],
     [version |-> 2, threshold |-> 1, signers |-> <<SignerEntry("b", "aws_kms", k2, TRUE),
                                                    SignerEntry("a", "external_http", k1, TRUE)>>],
     [version |-> 2, threshold |-> 1, signers |-> <<SignerEntry("b", "external_http", k1, TRUE),
                                                    SignerEntry("a", "external_http", k1, TRUE)>>]}

MCBodies ==
    {[kind |-> "json", over |-> {}, signer |-> "a"],
     [kind |-> "json", over |-> {"hours", "cost"}, signer |-> Null],
     [kind |-> "null", over |-> {}, signer |-> Null],
     [kind |-> "garbage", over |-> {}, signer |-> Null]}

\* One allowed, one whose cost overflows, one malformed.
MCPaperRequests ==
    {Plain(i1, NoToken),
     [Plain(i2, NoToken) EXCEPT !.gpus = 4, !.hours = 3, !.auto = TRUE],
     [Plain(i1, NoToken) EXCEPT !.faults = {"syntax"}]}

\* Three configurations: unpinned, pinned to pol1, and one that cannot be read.
MCConfigs ==
    {[wellFormed |-> TRUE, mode |-> "required", expected |-> NoPolicy, audited |-> FALSE],
     [wellFormed |-> TRUE, mode |-> "required", expected |-> pol1, audited |-> TRUE],
     [wellFormed |-> FALSE, mode |-> "required", expected |-> NoPolicy, audited |-> FALSE]}

MCSymmetry == Permutations(Procs)

MCInit ==
    /\ which \in {"pipeline", "paper", "sidecar", "registry", "package", "zip", "custody"}
    /\ Init /\ InitP /\ InitC /\ InitR /\ InitL /\ InitK
    /\ which # "custody" => lock = Nothing /\ config.expected = NoPolicy
    /\ policy = pol1
    /\ which # "pipeline" => worker
    /\ which # "paper" => secret
    /\ which # "sidecar" => file.version = 1 /\ file.signers[1].key = k1 /\ svcKey = k1
    /\ which \notin {"package", "zip"} => tree = r1 /\ head = r1

Others(mine) ==
    /\ UNCHANGED which
    /\ mine # "pipeline" => UNCHANGED vars
    /\ mine # "paper" => UNCHANGED pvars
    /\ mine # "sidecar" => UNCHANGED cvars
    /\ mine # "registry" => UNCHANGED rvars
    /\ mine # "release" => UNCHANGED lvars
    /\ mine # "custody" => UNCHANGED kvars

MCNext ==
    \/ which = "pipeline" /\ Next /\ Others("pipeline")
    \/ which = "paper" /\ NextP /\ Others("paper")
    \/ which = "sidecar" /\ NextC /\ Others("sidecar")
    \/ which = "registry" /\ NextR /\ Others("registry")
    \/ which = "custody" /\ NextK /\ Others("custody")
    \/ which = "package" /\ NextL /\ made' = {} /\ Others("release")
    \/ which = "zip" /\ NextL /\ ~(build'.kind = "custody" /\ build'.pc # "off") /\ Others("release")

MCSpec == MCInit /\ [][MCNext]_<<vars, pvars, cvars, rvars, lvars, kvars, which>>
=============================================================================
