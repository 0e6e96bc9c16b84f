---------------------------- MODULE ReleaseBuild ----------------------------
(***************************************************************************)
(* The two release builds: the custody package                             *)
(* (scripts/build_release_package.mjs), checked and copied into a          *)
(* distribution directory per version, and the zipped sidecar package      *)
(* (scripts/build_sidecar_custody_release.mjs), signed with a key made for *)
(* the build and verified from a fresh extract                             *)
(* (sidecar-custody/verify-release.js).                                    *)
(*                                                                         *)
(* The repository goes on changing while a build reads it, and a build may *)
(* be killed between and within its writes.  One build runs at a time: the *)
(* scripts take no lock.  A content stands for its SHA-256; a file copied  *)
(* from the repository has the revision of the working tree as content,    *)
(* provenance.json the commit it names.                                    *)
(***************************************************************************)
EXTENDS ReleaseIntegrity, Sequences, SequencesExt

CONSTANTS
    Revisions,     \* states of the working tree; HEAD is one of them
    VersionOf,     \* revision -> version of its package.json
    Copied,        \* kind of build -> sequence of files copied or generated
    Generated,     \* files (wrappers, docs, node) not read from the tree
    Fixed,         \* their content
    AllowedPaths,  \* isAllowedProductionPath
    Verifier,      \* app/release/verify-release.js
    Manifest,      \* manifest.json
    Signature,     \* manifest.sig
    BuildKeys,     \* Ed25519 keys made by sidecar builds
    NoFile,        \* no such file or directory, no commit
    Severed,       \* the content of a file whose write was cut
    Environment,   \* [commit, tag, strict, distribute] of the build's environment
    MaxRepoEdits   \* bound: changes of the repository

ASSUME ReleaseBuildAssumption ==
    /\ MaxRepoEdits \in Nat
    /\ \A f \in ToSet(Copied["custody"]) : f \in AllowedPaths \ ForbiddenNames

Kinds == {"custody", "sidecar"}

\* A whole distribution, what its files and its manifest hold, and what of it a
\* distribution directory may hold.
BuildFiles == ToSet(Copied["custody"]) \cup {Provenance}
Contents == Revisions \cup {Fixed, Environment.commit, NoFile}
Listings == [BuildFiles -> [sha256 : Contents, bytes : {SizeOf[c] : c \in Contents}]]
FileTrees == UNION {[D -> Contents \cup {Severed}] : D \in SUBSET BuildFiles}
Distributions == [files : FileTrees, artifacts : Listings \cup {NoFile, Severed}]

ASSUME BuildFilesAssumption ==
    /\ Copied["custody"] \in Seq(AllowedPaths) /\ Copied["custody"] # <<>>
    /\ Garbage \notin Contents
    /\ NoFile \notin Listings /\ Severed \notin Listings /\ NoFile \notin Distributions

\* The files of a sidecar package, and what they and its signed manifest hold.
SidecarFiles == ToSet(Copied["sidecar"]) \cup {Provenance}
SidecarContents == Contents \cup BuildKeys
SidecarListings ==
    [SidecarFiles -> [sha256 : SidecarContents, bytes : {SizeOf[c] : c \in SidecarContents}]]
Signatures == [key : BuildKeys, of : SidecarListings]
ZipNames == SidecarFiles \cup {Manifest, Signature}
ZipContents == SidecarContents \cup SidecarListings \cup Signatures

\* One file per path, only the fixed content may be empty, and what marks a cut
\* or an absent file is no name, content, manifest, signature or extract.
ASSUME ZipAssumption ==
    /\ Copied["sidecar"] \in Seq(ToSet(Copied["sidecar"]))
    /\ \A i, j \in DOMAIN Copied["sidecar"] :
         Copied["sidecar"][i] = Copied["sidecar"][j] => i = j
    /\ Verifier \in ToSet(Copied["sidecar"]) /\ Manifest # Signature
    /\ {Manifest, Signature, Provenance} \cap ToSet(Copied["sidecar"]) = {}
    /\ Provenance \notin {Manifest, Signature}
    /\ \A c \in SidecarContents : SizeOf[c] \in Nat /\ (SizeOf[c] = 0 => c = Fixed)
    /\ Severed \notin ZipContents
    /\ NoFile \notin ZipNames /\ NoFile \notin SidecarListings
    /\ \A D \in SUBSET ZipNames : NoFile \notin [D -> ZipContents]

VARIABLES
    tree,      \* revision of the working tree
    head,      \* commit of HEAD, or NoFile (no .git, or an unreadable HEAD)
    tags,      \* tags: [commit, annotated, packed]
    build,     \* the running build
    out,       \* kind -> files of its output directory
    listing,   \* kind -> artifacts of its manifest.json, or NoFile
    dist,      \* version -> distribution directory, or NoFile
    reported,  \* version -> the distribution a build reported, or NoFile
    zip,       \* the zip file, or NoFile
    made,      \* keys made so far
    repoEdits  \* changes of the repository so far

repo == <<tree, head, tags>>
lvars == <<tree, head, tags, build, out, listing, dist, reported, zip, made, repoEdits>>

With(f, x, v) == [y \in DOMAIN f \cup {x} |-> IF y = x THEN v ELSE f[y]]
NoFiles == [f \in {} |-> Fixed]

-----------------------------------------------------------------------------
(* Provenance (scripts/release_provenance_helpers.mjs).                     *)

ReadGitCommit == head

\* A loose tag file holds the commit only when the tag is not annotated; the
\* packed references hold the peeled commit of an annotated tag too.
ReadGitTagForCommit(commit) ==
    /\ commit # NoFile
    /\ head # NoFile
    /\ \E t \in tags : t.commit = commit /\ (t.annotated => t.packed)

\* readGitCommit(...) ?? MNDE_RELEASE_COMMIT
NamedCommit == IF ReadGitCommit # NoFile THEN ReadGitCommit ELSE Environment.commit

\* provenance_status
ProvenanceStatus(commit, tagged) ==
    IF commit = NoFile THEN "incomplete" ELSE IF tagged THEN "complete" ELSE "partial"

-----------------------------------------------------------------------------
(* The build process.                                                       *)

NoBuild == [kind |-> "custody", pc |-> "off", n |-> 0, version |-> NoFile,
            key |-> NoFile, extract |-> NoFiles]

In(kind, pc) == build.kind = kind /\ build.pc = pc
Continues(pc) == build' = [build EXCEPT !.pc = pc]
\* The script ends, by an exception or not; what it wrote stays.
Ends == build' = NoBuild

\* main: the output directory is removed and made again.
StartBuild ==
    /\ build.pc = "off"
    /\ \E kind \in Kinds :
        \E key \in IF kind = "sidecar" THEN BuildKeys \ made ELSE {NoFile} :
        /\ build' = [NoBuild EXCEPT !.kind = kind, !.pc = "copy", !.key = key]
        /\ out' = [out EXCEPT ![kind] = NoFiles]
        /\ listing' = [listing EXCEPT ![kind] = NoFile]
        /\ made' = made \cup ({key} \ {NoFile})
    /\ UNCHANGED <<repo, dist, reported, zip, repoEdits>>

\* One file of the list of the build that runs.
CopyNext(content(_)) ==
    LET names == Copied[build.kind]
        f == names[build.n + 1]
    IN  /\ out' = [out EXCEPT ![build.kind] = With(@, f, content(f))]
        /\ build' = [build EXCEPT !.n = @ + 1,
                                  !.pc = IF build.n + 1 = Len(names) THEN "provenance" ELSE "copy"]

\* copyRuntimeSourceFiles, copyRuntimeArtifacts, writeWrappers,
\* copyConfigTemplate, copyCustodyDocsAndExamples, copyLifecycleFiles.
CopyFile ==
    /\ In("custody", "copy")
    /\ CopyNext(LAMBDA f : IF f \in Generated THEN Fixed ELSE tree)
    /\ UNCHANGED <<repo, listing, dist, reported, zip, made, repoEdits>>

\* copyReleaseFiles: the verifier is the source with the public key put in.
CopyReleaseFile ==
    /\ In("sidecar", "copy")
    /\ CopyNext(LAMBDA f : IF f = Verifier THEN build.key
                           ELSE IF f \in Generated THEN Fixed ELSE tree)
    /\ UNCHANGED <<repo, listing, dist, reported, zip, made, repoEdits>>

\* The commit and its tag are read now, after the files were.
WriteProvenance ==
    /\ In("custody", "provenance")
    /\ LET tagged == ReadGitTagForCommit(NamedCommit) \/ Environment.tag
       IN  IF Environment.strict /\ ProvenanceStatus(NamedCommit, tagged) # "complete"
           THEN Ends /\ UNCHANGED out
           ELSE /\ out' = [out EXCEPT !["custody"] = With(@, Provenance, NamedCommit)]
                /\ build' = [build EXCEPT !.pc = "clean", !.version = VersionOf[tree]]
    /\ UNCHANGED <<repo, listing, dist, reported, zip, made, repoEdits>>

\* The sidecar's build asks for no complete provenance: a missing tag becomes
\* "v" and the version.
WriteProvenanceSidecar ==
    /\ In("sidecar", "provenance")
    /\ out' = [out EXCEPT !["sidecar"] = With(@, Provenance, NamedCommit)]
    /\ Continues("clean")
    /\ UNCHANGED <<repo, listing, dist, reported, zip, made, repoEdits>>

Forbidden(files) == {f \in DOMAIN files : f \in ForbiddenNames \/ files[f] \in ForbiddenTexts}

\* assertPackageClean, assertCleanPackage
AssertClean ==
    /\ build.pc \in {"clean", "clean again"}
    /\ IF Forbidden(out[build.kind]) # {} THEN Ends
       ELSE Continues(IF build.pc = "clean" THEN "manifest" ELSE "zip")
    /\ UNCHANGED <<repo, out, listing, dist, reported, zip, made, repoEdits>>

ArtifactsOf(files) ==
    [f \in DOMAIN files |-> [sha256 |-> files[f], bytes |-> SizeOf[files[f]]]]

\* writeManifest
WriteManifest ==
    /\ In("custody", "manifest")
    /\ IF DOMAIN out["custody"] \subseteq AllowedPaths
         THEN /\ listing' = [listing EXCEPT !["custody"] = ArtifactsOf(out["custody"])]
              /\ Continues("assert")
         ELSE Ends /\ UNCHANGED listing
    /\ UNCHANGED <<repo, out, dist, reported, zip, made, repoEdits>>

\* assertManifestMatchesExactly
AssertManifestMatchesExactly ==
    /\ In("custody", "assert")
    /\ IF ArtifactsOf(out["custody"]) = listing["custody"] THEN Continues("publish") ELSE Ends
    /\ UNCHANGED <<repo, out, listing, dist, reported, zip, made, repoEdits>>

\* A distribution directory as verifyReleaseIntegrity reads it.
PackageAt(files, artifacts) ==
    [manifest  |-> IF artifacts = NoFile THEN "missing"
                   ELSE IF artifacts = Severed THEN "unparsable" ELSE "ok",
     artifacts |-> IF artifacts \in {NoFile, Severed} THEN NoFiles ELSE artifacts,
     files     |-> files]

\* A check that looks only for the manifest takes an unfinished directory for
\* a free one.
PublishUnfinished ==
    /\ In("custody", "publish")
    /\ IF ~Environment.distribute \/ (dist[build.version] # NoFile
                                      /\ dist[build.version].artifacts # NoFile)
         THEN Ends /\ UNCHANGED dist
         ELSE /\ dist' = [dist EXCEPT ![build.version] =
                            IF @ = NoFile THEN [files |-> NoFiles, artifacts |-> NoFile] ELSE @]
              /\ Continues("distribute")
    /\ UNCHANGED <<repo, out, listing, reported, zip, made, repoEdits>>

\* publishImmutableDistribution up to the copy: without a distribution root
\* the build is done, and an existing version is refused.
Publish ==
    /\ In("custody", "publish")
    /\ IF ~Environment.distribute \/ dist[build.version] # NoFile
         THEN Ends /\ UNCHANGED dist
         ELSE /\ dist' = [dist EXCEPT ![build.version] = [files |-> NoFiles, artifacts |-> NoFile]]
              /\ Continues("distribute")
    /\ UNCHANGED <<repo, out, listing, reported, zip, made, repoEdits>>

\* cpSync: the next entry in directory order, whatever that is.
Distributed == dist[build.version]
CopyToDistribution ==
    /\ In("custody", "distribute")
    /\ \/ \E f \in DOMAIN out["custody"] \ DOMAIN Distributed.files :
            dist' = [dist EXCEPT ![build.version].files = With(@, f, out["custody"][f])]
       \/ /\ Distributed.artifacts = NoFile
          /\ dist' = [dist EXCEPT ![build.version].artifacts = listing["custody"]]
    /\ UNCHANGED <<repo, build, out, listing, reported, zip, made, repoEdits>>

\* setReadOnlyRecursive, then the report on standard output.
ReportDistribution ==
    /\ In("custody", "distribute")
    /\ Distributed.artifacts # NoFile
    /\ DOMAIN out["custody"] \subseteq DOMAIN Distributed.files
    /\ reported' = [reported EXCEPT ![build.version] = Distributed]
    /\ Ends
    /\ UNCHANGED <<repo, out, listing, dist, zip, made, repoEdits>>

-----------------------------------------------------------------------------
(* The zip file.  A unit of the stream is one field, one name or one unit   *)
(* of data: a stored entry is its signature, its sizes, its name and its    *)
(* data.                                                                    *)

\* writeManifestAndSignature
WriteManifestAndSignature ==
    /\ In("sidecar", "manifest")
    /\ listing' = [listing EXCEPT !["sidecar"] = ArtifactsOf(out["sidecar"])]
    /\ Continues("clean again")
    /\ UNCHANGED <<repo, out, dist, reported, zip, made, repoEdits>>

HeaderUnits == 2
NameUnits == 1

\* Every file of OUT_DIR in the order of walkFiles, with content and size.
ZipEntries ==
    [i \in 1 .. Len(Copied["sidecar"]) |->
        LET f == Copied["sidecar"][i]
        IN  [name |-> f, content |-> out["sidecar"][f], size |-> SizeOf[out["sidecar"][f]]]]
    \o << [name |-> Manifest, content |-> listing["sidecar"], size |-> 1],
          [name |-> Signature, content |-> [key |-> build.key, of |-> listing["sidecar"]], size |-> 1],
          [name |-> Provenance, content |-> out["sidecar"][Provenance],
           size |-> SizeOf[out["sidecar"][Provenance]]] >>

LocalRecord(e) ==
    <<[is |-> "local"], [is |-> "sizes", size |-> e.size], [is |-> "name", name |-> e.name]>>
    \o [i \in 1 .. e.size |-> [is |-> "data", content |-> e.content]]

\* writeZip: all local records, then the central directory.
ZipStream(entries) ==
    FlattenSeq([i \in DOMAIN entries |-> LocalRecord(entries[i])])
    \o [i \in DOMAIN entries |-> [is |-> "central"]] \o <<[is |-> "end"]>>

\* What a file is extracted as whose data starts at offset o: data cut short by
\* the end of the zip file is written as it is.
DataAt(bytes, o, size) ==
    IF size = 0 THEN Fixed
    ELSE IF o + size <= Len(bytes) THEN bytes[o + 1].content ELSE Severed

\* The loop of extractStoredZip from offset o on, when later[p] is what it
\* extracts from a later offset p on: the files, or NoFile when a read past the
\* end throws.
ExtractAt(bytes, o, later) ==
    IF o + 1 > Len(bytes) \/ bytes[o + 1].is # "local" THEN NoFiles
    ELSE IF o + HeaderUnits > Len(bytes) THEN NoFile
    ELSE LET size == bytes[o + 2].size
             start == o + HeaderUnits + NameUnits
             name == IF start > Len(bytes) THEN NoFile ELSE bytes[start].name
             rest == IF start + size > Len(bytes) THEN NoFiles ELSE later[start + size]
         IN  IF name = NoFile \/ rest = NoFile THEN NoFile
             ELSE With(rest, name, DataAt(bytes, start, size))

\* The central directory is never read.
ExtractStoredZip(bytes) ==
    LET from[o \in 0 .. Len(bytes)] == ExtractAt(bytes, o, from)
    IN  from[0]

\* Why verify-release.js refuses a listed artifact, and the extra files.
Missing(tree_, artifacts) == DOMAIN artifacts \ DOMAIN tree_
Mismatched(tree_, artifacts) ==
    {f \in DOMAIN artifacts \cap DOMAIN tree_ :
        tree_[f] # artifacts[f].sha256 \/ SizeOf[tree_[f]] # artifacts[f].bytes}
Extra(tree_, artifacts) == DOMAIN tree_ \ (DOMAIN artifacts \cup {Manifest, Signature})

\* verifyManifestSignature, by the key in the extracted verifier itself.
SignatureVerifies(tree_) ==
    /\ {Manifest, Signature} \subseteq DOMAIN tree_
    /\ tree_[Signature] # Severed
    /\ tree_[Signature] = [key |-> tree_[Verifier], of |-> tree_[Manifest]]

\* A verifier that leaves out the files it cannot find.
VerifyPresent(tree_) ==
    /\ Verifier \in DOMAIN tree_ /\ tree_[Verifier] \in BuildKeys
    /\ SignatureVerifies(tree_)
    /\ tree_[Manifest] \notin {NoFile, Severed}
    /\ Forbidden([f \in DOMAIN tree_ \ {Manifest, Signature} |-> tree_[f]]) = {}
    /\ Mismatched(tree_, tree_[Manifest]) = {} /\ Extra(tree_, tree_[Manifest]) = {}

\* verifyReleaseIntegrity of sidecar-custody/verify-release.js, imported from
\* the tree it verifies.
VerifyRelease(tree_) ==
    /\ Verifier \in DOMAIN tree_ /\ tree_[Verifier] \in BuildKeys
    /\ SignatureVerifies(tree_)
    /\ tree_[Manifest] \notin {NoFile, Severed}
    /\ Forbidden([f \in DOMAIN tree_ \ {Manifest, Signature} |-> tree_[f]]) = {}
    /\ Missing(tree_, tree_[Manifest]) = {}
    /\ Mismatched(tree_, tree_[Manifest]) = {} /\ Extra(tree_, tree_[Manifest]) = {}

\* zipAndVerify: the old zip is removed, the new one written, extracted and
\* verified.
WriteZip ==
    /\ In("sidecar", "zip")
    /\ zip' = ZipStream(ZipEntries)
    /\ Continues("verify")
    /\ UNCHANGED <<repo, out, listing, dist, reported, made, repoEdits>>

VerifyExtract ==
    /\ In("sidecar", "verify")
    /\ LET extracted == ExtractStoredZip(zip)
       IN  IF extracted = NoFile THEN Ends
           ELSE IF VerifyRelease(extracted)
                THEN build' = [build EXCEPT !.pc = "zipped", !.extract = extracted]
                ELSE Ends
    /\ UNCHANGED <<repo, out, listing, dist, reported, zip, made, repoEdits>>

ReportZip ==
    /\ In("sidecar", "zipped")
    /\ Ends
    /\ UNCHANGED <<repo, out, listing, dist, reported, zip, made, repoEdits>>

-----------------------------------------------------------------------------
(* Kills, and the repository.                                               *)

\* The build is killed; a file or the zip may be half written.
KillBuild ==
    /\ build.pc # "off"
    /\ Ends
    /\ \/ UNCHANGED <<dist, zip>>
       \/ /\ In("custody", "distribute")
          /\ \/ \E f \in DOMAIN out["custody"] \ DOMAIN Distributed.files :
                  dist' = [dist EXCEPT ![build.version].files = With(@, f, Severed)]
             \/ /\ Distributed.artifacts = NoFile
                /\ dist' = [dist EXCEPT ![build.version].artifacts = Severed]
          /\ UNCHANGED zip
       \/ /\ In("sidecar", "zip")
          /\ LET stream == ZipStream(ZipEntries)
             IN  \E n \in 0 .. Len(stream) : zip' = SubSeq(stream, 1, n)
          /\ UNCHANGED dist
    /\ UNCHANGED <<repo, out, listing, reported, made, repoEdits>>

RepoChanges == repoEdits < MaxRepoEdits /\ repoEdits' = repoEdits + 1
NotBuilt == UNCHANGED <<build, out, listing, dist, reported, zip, made>>

EditTree ==
    /\ RepoChanges /\ NotBuilt
    /\ \E r \in Revisions : tree' = r
    /\ UNCHANGED <<head, tags>>

CommitTree ==
    /\ RepoChanges /\ NotBuilt
    /\ head # NoFile
    /\ head' = tree
    /\ UNCHANGED <<tree, tags>>

TagHead ==
    /\ RepoChanges /\ NotBuilt
    /\ head # NoFile
    /\ \E annotated \in BOOLEAN :
        tags' = tags \cup {[commit |-> head, annotated |-> annotated, packed |-> FALSE]}
    /\ UNCHANGED <<tree, head>>

PackRefs ==
    /\ RepoChanges /\ NotBuilt
    /\ tags' = {[t EXCEPT !.packed = TRUE] : t \in tags}
    /\ UNCHANGED <<tree, head>>

-----------------------------------------------------------------------------
InitL ==
    /\ tree \in Revisions /\ head \in {tree, NoFile}
    /\ tags = {}
    /\ build = NoBuild
    /\ out = [k \in Kinds |-> NoFiles]
    /\ listing = [k \in Kinds |-> NoFile]
    /\ dist = [v \in {VersionOf[r] : r \in Revisions} |-> NoFile]
    /\ reported = dist
    /\ zip = NoFile
    /\ made = {}
    /\ repoEdits = 0

NextL ==
    \/ StartBuild \/ CopyFile \/ CopyReleaseFile \/ WriteProvenance \/ WriteProvenanceSidecar
    \/ AssertClean \/ WriteManifest \/ AssertManifestMatchesExactly
    \/ Publish \/ CopyToDistribution \/ ReportDistribution
    \/ WriteManifestAndSignature \/ WriteZip \/ VerifyExtract \/ ReportZip
    \/ KillBuild
    \/ EditTree \/ CommitTree \/ TagHead \/ PackRefs

SpecL == InitL /\ [][NextL]_lvars

-----------------------------------------------------------------------------
\* Whatever the crashes and rebuilds, a distribution directory that passes
\* verification holds one whole build (no file of another build mixed in), and
\* one a build reported is still exactly what was reported, verifies and names
\* nothing forbidden (publishImmutableDistribution).
DistributionsWhole ==
    \A v \in DOMAIN dist :
        /\ reported[v] # NoFile =>
             /\ dist[v] = reported[v]
             /\ VerifyReleaseIntegrity(PackageAt(dist[v].files, dist[v].artifacts)) = {}
        /\ dist[v] # NoFile =>
             (VerifyReleaseIntegrity(PackageAt(dist[v].files, dist[v].artifacts)) = {}
                => DOMAIN dist[v].files = ToSet(Copied["custody"]) \cup {Provenance})

\* However much of the zip file a killed build left, its extract passes
\* verification only when no file of the build is missing or cut, and it does
\* pass when the build verified it (writeZip, extractStoredZip,
\* verifyReleaseIntegrity).
ZipWhole ==
    zip # NoFile =>
        LET extracted == ExtractStoredZip(zip)
        IN  /\ (extracted # NoFile /\ VerifyRelease(extracted)) =>
                 /\ DOMAIN extracted = ToSet(Copied["sidecar"]) \cup {Manifest, Signature, Provenance}
                 /\ \A f \in DOMAIN extracted : extracted[f] # Severed
            /\ In("sidecar", "verify") => extracted # NoFile /\ VerifyRelease(extracted)
=============================================================================
