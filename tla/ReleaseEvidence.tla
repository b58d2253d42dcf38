-------------------------- MODULE ReleaseEvidence --------------------------
(***************************************************************************)
(* The verifier of egressweave.release_evidence: main verifies a sealed    *)
(* directory, publishes a manifest of its digests, and verifies both once  *)
(* more, while other processes may write the files.  The verifier looks at *)
(* one file at a time; what it holds of one may be stale by the time it    *)
(* looks at the next.  ReleaseCandidate says how runs of it begin and end. *)
(*                                                                         *)
(* A content stands for its digest.  That of the checksum file is what it  *)
(* lists of the payload; an SBOM is a record with the artifact it binds    *)
(* and the package it says that is, the identity one with its source.      *)
(* Torn is a file that was not written to its end, and does not parse.  A  *)
(* look at a file is one step: a look that overlaps a write yields a       *)
(* content, perhaps one that nothing lists.                                *)
(***************************************************************************)
EXTENDS Naturals, Sequences, SequencesExt

CONSTANTS
    Contents,   \* for each file, the contents other processes may give it
    Extras,     \* the kinds of further archives, "wheel" or "sdist", by their names
    Package,    \* the name and the version that the names of the files give
    Requested,  \* the source revision the caller expects
    MaxWrites,  \* bound on the writes of other processes
    Gone,       \* no regular file at this path
    Torn,       \* a file that ends early
    Foreign,    \* a manifest file of another process
    Unseen

ASSUME WritesAssumption == MaxWrites \in Nat

SbomOf == [sdist |-> "sdistSbom", wheel |-> "wheelSbom"]
Artifacts == DOMAIN SbomOf
Sboms == {SbomOf[a] : a \in Artifacts}
Payload == Artifacts \cup Sboms \cup {"identity"}
Files == Payload \cup {"sums"}

ASSUME ExtrasAssumption == DOMAIN Extras \cap Files = {}

VARIABLES
    files,     \* the evidence directory
    extras,    \* the further archives in it, which no command writes
    output,    \* the digests in the manifest file; or Gone, Torn, Foreign
    stage,     \* "first": verification; "create" and "fill" the manifest;
               \* "second"; "reread"; then "done" or "refused"
    at,        \* position in Looks of the verification under way
    before,    \* digest_before of the file under way
    content,   \* what was read of each file that is parsed
    digest,    \* checksum_digest and observed_digests
    manifest,  \* the digests of the first verification
    snapshots, \* history: the directory at each instant of a verification
    fresh,     \* history: no write of it brought a former content back
    writes     \* writes so far

history == <<snapshots, fresh>>
looking == <<at, before, content, digest>>
vars == <<files, output, stage, looking, manifest, history, writes>>

NoneSeen == [f \in Files |-> Unseen]
-----------------------------------------------------------------------------
(* The looks of one verification, in the order of build_evidence_manifest *)

Look(how, file) == [how |-> how, file |-> file]
Parse(file) == <<Look("before", file), Look("read", file), Look("after", file)>>

PayloadOrder == <<"wheel", "sdist", "wheelSbom", "sdistSbom", "identity">>
Each(how) == [i \in DOMAIN PayloadOrder |-> Look(how, PayloadOrder[i])]

\* The directory is listed first: it holds these files and no other.
Looks == <<Look("list", "sums")>> \o Parse("sums") \o Each("hash") \o Parse("identity")
             \o Parse("sdistSbom") \o Parse("wheelSbom")
             \o Each("again") \o <<Look("again", "sums")>>

\* Mutant: the parsed content is not compared with the digest of the payload.
ParsedAnyDigest(f) ==
    /\ content[f] # Torn
    /\ f = "sums" => DOMAIN content[f] = Payload
    /\ f = "identity" => content[f].source = Requested
    /\ \A a \in Artifacts : SbomOf[a] = f => /\ content[f].binds = digest[a]
                                             /\ content[f].package = Package

\* Mutant: an SBOM may bind any artifact.
ParsedAnyArtifact(f) ==
    /\ content[f] # Torn
    /\ IF f = "sums" THEN DOMAIN content[f] = Payload ELSE content[f] = digest[f]
    /\ f = "identity" => content[f].source = Requested
    /\ f \in Sboms => content[f].package = Package

\* What is required of a file that was parsed, once it was read stably.
Parsed(f) ==
    /\ content[f] # Torn
    /\ IF f = "sums" THEN DOMAIN content[f] = Payload ELSE content[f] = digest[f]
    /\ f = "identity" => content[f].source = Requested
    /\ \A a \in Artifacts : SbomOf[a] = f => /\ content[f].binds = digest[a]
                                             /\ content[f].package = Package

\* Mutant: the payload is not hashed again.
AcceptsNoAgain(how, f) ==
    CASE how = "after" -> content[f] = before /\ content[f] = files[f] /\ Parsed(f)
      [] OTHER         -> TRUE

Accepts(how, f) ==
    CASE how = "after" -> content[f] = before /\ content[f] = files[f] /\ Parsed(f)
      [] how = "again" -> files[f] = digest[f]
      [] how = "list"  -> extras = {} /\ \A file \in Files : files[file] # Gone
      [] OTHER         -> TRUE

\* The checksums are compared once the whole payload is hashed.
ChecksumsAgree(d) == \A f \in Payload : content["sums"][f] = d[f]

Remember(how, f) ==
    /\ before' = IF how = "before" THEN files[f] ELSE before
    /\ content' = IF how = "read" THEN [content EXCEPT ![f] = files[f]] ELSE content
    /\ digest' = IF how = "hash" \/ <<how, f>> = <<"after", "sums">>
                 THEN [digest EXCEPT ![f] = files[f]] ELSE digest

Refuse == /\ stage' = "refused"
          /\ UNCHANGED <<looking, output, manifest>>

Verifying == stage \in {"first", "second"}

\* A file that is gone or not regular is refused whatever the look.
TakeLook ==
    /\ Verifying /\ at <= Len(Looks)
    /\ LET how == Looks[at].how
           f == Looks[at].file
       IN  IF files[f] # Gone /\ Accepts(how, f)
           THEN /\ Remember(how, f)
                /\ IF how = "hash" /\ f = Last(PayloadOrder) /\ ~ChecksumsAgree(digest')
                   THEN stage' = "refused" /\ UNCHANGED at
                   ELSE at' = at + 1 /\ UNCHANGED stage
                /\ UNCHANGED <<output, manifest>>
           ELSE Refuse
    /\ UNCHANGED <<files, history, writes>>

\* A verification ends: the second must give the manifest of the first.
Conclude ==
    /\ Verifying /\ at > Len(Looks)
    /\ IF stage = "first"
       THEN /\ stage' = "create"
            /\ manifest' = digest
       ELSE /\ stage' = IF digest = manifest THEN "reread" ELSE "refused"
            /\ UNCHANGED manifest
    /\ UNCHANGED <<files, output, looking, history, writes>>

Begin(as) ==
    /\ stage' = as /\ at' = 1
    /\ before' = Unseen /\ content' = NoneSeen /\ digest' = NoneSeen
    /\ snapshots' = {files'} /\ fresh' = TRUE

\* The manifest file is created, never replaced.
CreateManifest ==
    /\ stage = "create"
    /\ IF output = Gone
       THEN /\ output' = Torn
            /\ stage' = "fill"
            /\ UNCHANGED <<looking, manifest>>
       ELSE Refuse
    /\ UNCHANGED <<files, history, writes>>

\* It is written and synced, and must still be the file that was created, if
\* perhaps with other bytes of a process that opened it too.
FillManifest ==
    /\ stage = "fill"
    /\ UNCHANGED <<files, writes>>
    /\ \/ /\ output # Gone
          /\ output' \in {manifest} \cup ({output} \ {Torn})
          /\ Begin("second")
          /\ UNCHANGED manifest
       \/ /\ output # Torn
          /\ Refuse /\ UNCHANGED history

\* The closed manifest file is read again.
Reread == /\ stage = "reread"
          /\ stage' = IF output = manifest THEN "done" ELSE "refused"
          /\ UNCHANGED <<files, output, looking, manifest, history, writes>>
-----------------------------------------------------------------------------
(* Other processes *)

MayWrite == writes < MaxWrites /\ stage \notin {"done", "refused"}

\* What the directory was before a verification began is of no account.
Recorded == IF Verifying
            THEN /\ snapshots' = snapshots \cup {files'}
                 /\ fresh' = (fresh /\ \A f \in Files, d \in snapshots :
                                  files'[f] # files[f] => d[f] # files'[f])
            ELSE UNCHANGED history

Write(f, c) == /\ MayWrite /\ files[f] # c
               /\ files' = [files EXCEPT ![f] = c]
               /\ Recorded
               /\ writes' = writes + 1
               /\ UNCHANGED <<extras, output, stage, looking, manifest>>

WriteOutput == /\ MayWrite
               /\ output' \in {Gone, Foreign} \ {output}
               /\ writes' = writes + 1
               /\ UNCHANGED <<files, extras, stage, looking, manifest, history>>

WriteExtras == /\ MayWrite
               /\ extras' \in SUBSET DOMAIN Extras \ {extras}
               /\ writes' = writes + 1
               /\ UNCHANGED <<files, output, stage, looking, manifest, history>>

Verifier == TakeLook \/ Conclude \/ CreateManifest \/ FillManifest \/ Reread
Others == (\E f \in Files : \E c \in Contents[f] : Write(f, c)) \/ WriteOutput \/ WriteExtras
-----------------------------------------------------------------------------
(* Properties *)

NamesOneRelease(m) ==
    /\ \A f \in Payload : m["sums"][f] = m[f]
    /\ \A a \in Artifacts : m[SbomOf[a]].binds = m[a] /\ m[SbomOf[a]].package = Package
    /\ m["identity"].source = Requested

\* Whatever is written while the verifier reads, and even if it is written
\* back before anyone looks again, a manifest speaks of one release: the
\* checksums it names list its artifacts, SBOMs and identity, each SBOM names
\* its artifact and the package of the file names, and the identity is of the revision asked for.  That holds of
\* a manifest file too, even of one that was never confirmed because the second
\* verification failed or the process died before it.
ManifestIsOneRelease ==
    /\ manifest # NoneSeen => NamesOneRelease(manifest)
    /\ output \notin {Gone, Torn, Foreign} => NamesOneRelease(output)

\* The digests of a verification were those of the directory at one instant of
\* it, unless a content came back; so that, when success is reported, the
\* directory was as the manifest says at an instant after its publication.
VerifiedDirectoryExisted ==
    /\ stage \in {"create", "fill", "reread", "done"} /\ manifest # NoneSeen /\ fresh
    => manifest \in snapshots
=============================================================================
