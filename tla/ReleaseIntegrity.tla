------------------------- MODULE ReleaseIntegrity -------------------------
(***************************************************************************)
(* The release package of the custody runtime and its verification         *)
(* (src/release/integrity.ts, src/shared/forbidden_content.js).            *)
(*                                                                         *)
(* A package is a record of what reading manifest.json gives ("ok", or why *)
(* not), the artifacts the manifest lists (file -> digest and size) and    *)
(* the files on disk other than the manifest (file -> content).  A content *)
(* stands for its SHA-256.                                                 *)
(***************************************************************************)
EXTENDS Naturals, FiniteSets

CONSTANTS Provenance,     \* provenance.json
          Garbage,        \* a content that is not JSON
          ForbiddenNames, \* files whose path matches a rule of the scan
          ForbiddenTexts, \* contents whose text matches a rule of the scan
          SizeOf          \* content -> bytes

ManifestStates == {"ok", "missing", "unparsable", "other_schema", "other_type"}

\* walkPackageFiles: every file of the package except manifest.json.
PackageFiles(pkg) == DOMAIN pkg.files

\* scanForbiddenContent
ForbiddenFiles(pkg) ==
    {f \in PackageFiles(pkg) :
        f \in ForbiddenNames \/ pkg.files[f] \in ForbiddenTexts}

\* What safeReadJson says of provenance.json.
ProvenanceState(pkg) ==
    IF Provenance \notin PackageFiles(pkg) THEN "missing"
    ELSE IF pkg.files[Provenance] = Garbage THEN "unparsable" ELSE "ok"

\* Why one listed artifact fails, in the order the loop tests it; {} if not.
ArtifactReason(pkg, f) ==
    IF f \notin PackageFiles(pkg) THEN {"FILE_MISSING"}
    ELSE IF pkg.files[f] # pkg.artifacts[f].sha256 THEN {"MANIFEST_HASH_MISMATCH"}
    ELSE IF SizeOf[pkg.files[f]] # pkg.artifacts[f].bytes THEN {"MANIFEST_SIZE_MISMATCH"}
    ELSE {}

\* verifyReleaseIntegrity: {} for a PASS, else the reasons the refusal may
\* give.  (The first failing artifact in manifest order names the reason; the
\* order is not modelled, so artifacts that fail differently give several.)
VerifyReleaseIntegrity(pkg) ==
    LET read(state, unparsable) ==
            IF state = "missing" THEN {"FILE_MISSING"} ELSE {unparsable}
        artifacts == UNION {ArtifactReason(pkg, f) : f \in DOMAIN pkg.artifacts}
    IN  IF pkg.manifest \in {"missing", "unparsable"}
          THEN read(pkg.manifest, "MANIFEST_PARSE_FAILED")
        ELSE IF ProvenanceState(pkg) # "ok"
          THEN read(ProvenanceState(pkg), "PROVENANCE_PARSE_FAILED")
        ELSE IF pkg.manifest = "other_schema" THEN {"INVALID_MANIFEST_SCHEMA"}
        ELSE IF pkg.manifest = "other_type" THEN {"INVALID_PACKAGE_TYPE"}
        ELSE IF ForbiddenFiles(pkg) # {} THEN {"FORBIDDEN_ARTIFACT_PRESENT"}
        ELSE IF artifacts # {} THEN artifacts
        ELSE IF PackageFiles(pkg) \subseteq DOMAIN pkg.artifacts THEN {}
        ELSE {"EXTRA_FILE"}

\* The package the build published: every file listed with its digest and
\* size, none of them forbidden.
Published(files) ==
    [manifest  |-> "ok",
     artifacts |-> [f \in DOMAIN files |->
                      [sha256 |-> files[f], bytes |-> SizeOf[files[f]]]],
     files     |-> files]
============================================================================
