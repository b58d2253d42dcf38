-------------------------- MODULE PrepareEvidence --------------------------
(***************************************************************************)
(* prepare_release_evidence of scripts/ci/prepare_release_evidence.py: it  *)
(* takes a directory with the two archives alone, copies them, describes   *)
(* the copies from the reviewed manifest, hashes the archives, writes the  *)
(* other four files and hands over to the verifier of ReleaseEvidence.     *)
(* Other processes may write the files and the manifest at any time.       *)
(***************************************************************************)
EXTENDS ReleaseEvidence, ReleaseSbom

CONSTANT Reviewed   \* what the reviewed dependency manifest may say

ASSUME ReviewedAssumption == \A m \in Reviewed : IsManifest(m)

VARIABLES
    copied,    \* the archives as selected, then as in the private copies
    intended,  \* what the run puts in each file
    reviewed,  \* the dependency manifest; Unseen by other commands
    edited     \* history: it was edited during this run

inputs == <<reviewed, edited>>
prepareVars == <<copied, intended, inputs>>

NoCopy == [a \in Artifacts |-> Unseen]
-----------------------------------------------------------------------------
(* prepare_release_evidence *)

Step(do, file) == [do |-> do, file |-> file]

Make(file) == <<Step("create", file), Step("fill", file)>>

\* The checksums hash the archives in the order of their names.
Steps == <<Step("select", "wheel"), Step("copy", "wheel"), Step("copy", "sdist"),
           Step("lock", "wheel"), Step("describe", "wheel"),
           Step("lock", "sdist"), Step("describe", "sdist"),
           Step("hash", "wheel"), Step("hash", "sdist")>>
         \o Make("wheelSbom") \o Make("sdistSbom") \o Make("identity") \o Make("sums")

Doing(do) == stage = "prepare" /\ Steps[at].do = do
Subject == Steps[at].file

\* The verifier begins after the last step.
Proceed == IF at < Len(Steps)
           THEN at' = at + 1 /\ UNCHANGED <<stage, before, content, digest, history>>
           ELSE Begin("first")

RefuseStep == Refuse /\ UNCHANGED <<files, history, copied, intended>>

\* Nothing but the two archives may be there.
Select ==
    /\ Doing("select")
    /\ IF extras = {} /\ \A f \in Files : files[f] # Gone <=> f \in Artifacts
       THEN /\ copied' = [a \in Artifacts |-> files[a]]
            /\ Proceed /\ UNCHANGED <<files, output, manifest, intended>>
       ELSE RefuseStep
    /\ UNCHANGED <<writes, inputs>>

\* A replaced archive is refused, one written in place and as long is not seen.
Copy ==
    /\ Doing("copy")
    /\ \/ /\ files[Subject] # Gone
          /\ copied' = [copied EXCEPT ![Subject] = files[Subject]]
          /\ Proceed /\ UNCHANGED <<files, output, manifest, intended>>
       \/ files[Subject] # copied[Subject] /\ RefuseStep
    /\ UNCHANGED <<writes, inputs>>

\* validate_runtime_lock reads the reviewed manifest,
LockCheck ==
    /\ Doing("lock")
    /\ IF LockBound(reviewed)
       THEN Proceed /\ UNCHANGED <<files, output, manifest, copied, intended>>
       ELSE RefuseStep
    /\ UNCHANGED <<writes, inputs>>

\* and build_sbom reads it again.
Describe ==
    /\ Doing("describe")
    /\ IF Describes(reviewed, copied[Subject])
       THEN /\ intended' = [intended EXCEPT ![SbomOf[Subject]] =
                                Sbom(reviewed, copied[Subject])]
            /\ Proceed /\ UNCHANGED <<files, output, manifest, copied>>
       ELSE RefuseStep
    /\ UNCHANGED <<writes, inputs>>

\* The archives are hashed in the directory, not their copies.
Hash ==
    /\ Doing("hash")
    /\ IF files[Subject] # Gone
       THEN /\ intended' = [intended EXCEPT ![Subject] = files[Subject]]
            /\ Proceed /\ UNCHANGED <<files, output, manifest, copied>>
       ELSE RefuseStep
    /\ UNCHANGED <<writes, inputs>>

Create ==
    /\ Doing("create")
    /\ IF files[Subject] = Gone
       THEN /\ files' = [files EXCEPT ![Subject] = Torn]
            /\ Proceed /\ UNCHANGED <<output, manifest, copied, intended>>
       ELSE RefuseStep
    /\ UNCHANGED <<writes, inputs>>

IdentityPayload == [source |-> Requested]

\* Mutant: the identity is not listed.
ChecksumPayloadNoIdentity == [f \in Payload \ {"identity"} |-> intended[f]]

ChecksumPayload == [f \in Payload |-> IF f = "identity" THEN IdentityPayload ELSE intended[f]]

PayloadOf(f) == CASE f = "identity" -> IdentityPayload
                  [] f = "sums"     -> ChecksumPayload
                  [] OTHER          -> intended[f]

\* Written to its end, the file must still be the one that was created, if
\* perhaps with other bytes of a process that opened it too.
Fill ==
    /\ Doing("fill")
    /\ \/ /\ files[Subject] # Gone
          /\ \E c \in {PayloadOf(Subject)} \cup ({files[Subject]} \ {Torn}) :
                 files' = [files EXCEPT ![Subject] = c]
          /\ intended' = [intended EXCEPT ![Subject] = PayloadOf(Subject)]
          /\ Proceed /\ UNCHANGED <<output, manifest, copied>>
       \/ files[Subject] # Torn /\ RefuseStep
    /\ UNCHANGED <<writes, inputs>>

\* What a run generates when no one interferes.
Generates(m, archives) ==
    [f \in Payload |-> CASE f \in Artifacts -> archives[f]
                         [] f = "wheelSbom" -> Sbom(m, archives["wheel"])
                         [] f = "sdistSbom" -> Sbom(m, archives["sdist"])
                         [] f = "identity"  -> IdentityPayload]

\* No file that was written to its end is like one that is gone or torn.
ASSUME MarksAssumption ==
    \A m \in Reviewed, archives \in [Artifacts -> DOMAIN Declares] :
        LET payload == Generates(m, archives)
        IN  /\ payload \notin {Gone, Torn}
            /\ \A f \in Payload \ Artifacts : payload[f] \notin {Gone, Torn}

Prepare == Select \/ Copy \/ LockCheck \/ Describe \/ Hash \/ Create \/ Fill
-----------------------------------------------------------------------------
(* Another process edits the reviewed manifest; edits that no later step *)
(* reads are left out.                                                    *)

Edit(m) == /\ MayWrite /\ reviewed # m
           /\ stage = "prepare" /\ \E i \in at..Len(Steps) : Steps[i].do = "describe"
           /\ reviewed' = m /\ edited' = TRUE
           /\ writes' = writes + 1
           /\ UNCHANGED <<files, output, stage, looking, manifest, history, copied, intended>>
-----------------------------------------------------------------------------
(* Properties *)

\* What a preparation hands off, unless another process replaced its checksum
\* file, is what it generated, and its artifacts are the archives that were
\* parsed: though the parser read private copies and the checksums were taken
\* from the directory later, no write in between parts them.
SealedIsParsed ==
    /\ intended # NoneSeen /\ stage = "done" /\ manifest["sums"] = intended["sums"]
    => /\ manifest = intended
       /\ \A a \in Artifacts : manifest[a] = copied[a]

\* While no one edits the reviewed manifest, an SBOM describes exactly the
\* packages that its archive's requirements lead to, each pinned as in the
\* runtime lock, without a cycle and without a package nobody needs.
SbomsAreLockBound ==
    \A a \in Artifacts : intended[SbomOf[a]] # Unseen /\ ~edited =>
        LET graph == intended[SbomOf[a]].graph
        IN  /\ graph.roots = RequiredNames(Declares[copied[a]])
            /\ IsClosure(graph) /\ IsAcyclic(graph)
            /\ \A p \in graph.parts : p.name \in DOMAIN Lock /\ p.pin = Lock[p.name]
=============================================================================
