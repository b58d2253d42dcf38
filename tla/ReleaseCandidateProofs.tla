----------------------- MODULE ReleaseCandidateProofs -----------------------
(***************************************************************************)
(* Proofs about ReleaseCandidate, for all contents, any number of writes   *)
(* by other processes and of runs, and a stop at any step: a manifest      *)
(* speaks of one release, it was the directory at one instant, what is     *)
(* handed off or published is what was parsed, an SBOM says of its archive *)
(* what the reviewed manifest and the lock say, and the verifier accepts   *)
(* what an undisturbed preparation wrote.                                  *)
(***************************************************************************)
EXTENDS ReleaseCandidate, FiniteSetTheorems, SequenceTheorems, WellFoundedInduction, TLAPS

\* f is a function over D.
Over(f, D) == f = [x \in D |-> f[x]]

\* What the variables are, as far as the proofs need it.
Shape ==
    /\ stage \in Commands \cup {"create", "fill", "second", "reread", "done", "refused",
                                "stopped"}
    /\ at \in Nat \ {0}
    /\ Verifying => at <= 25
    /\ stage = "prepare" => at <= 17
    /\ stage = "check" => at <= 15
    /\ Over(files, Files) /\ Over(content, Files) /\ Over(digest, Files)
    /\ Over(intended, Files) /\ Over(manifest, Files)
    /\ \A d \in snapshots : Over(d, Files)
    /\ Over(copied, Artifacts) /\ Over(accepted, Artifacts) /\ Over(listed, Artifacts)
-----------------------------------------------------------------------------
(* The programs of the three commands, step by step *)

\* The looks of a verification: the directory is listed (1), the checksum file
\* is parsed (2 to 4), the payload is hashed (5 to 9), identity and SBOMs are
\* parsed (10 to 18), and everything is hashed again (19 to 24).
LEMMA LooksAre ==
    /\ Len(Looks) = 24
    /\ Looks[1] = Look("list", "sums") /\ Looks[2] = Look("before", "sums")
    /\ Looks[3] = Look("read", "sums") /\ Looks[4] = Look("after", "sums")
    /\ Looks[5] = Look("hash", "wheel") /\ Looks[6] = Look("hash", "sdist")
    /\ Looks[7] = Look("hash", "wheelSbom") /\ Looks[8] = Look("hash", "sdistSbom")
    /\ Looks[9] = Look("hash", "identity") /\ Looks[10] = Look("before", "identity")
    /\ Looks[11] = Look("read", "identity") /\ Looks[12] = Look("after", "identity")
    /\ Looks[13] = Look("before", "sdistSbom") /\ Looks[14] = Look("read", "sdistSbom")
    /\ Looks[15] = Look("after", "sdistSbom") /\ Looks[16] = Look("before", "wheelSbom")
    /\ Looks[17] = Look("read", "wheelSbom") /\ Looks[18] = Look("after", "wheelSbom")
    /\ Looks[19] = Look("again", "wheel") /\ Looks[20] = Look("again", "sdist")
    /\ Looks[21] = Look("again", "wheelSbom") /\ Looks[22] = Look("again", "sdistSbom")
    /\ Looks[23] = Look("again", "identity") /\ Looks[24] = Look("again", "sums")
  BY DEF Looks, Parse, Each, PayloadOrder

\* The steps of a preparation: the archives are copied (1 to 3), described (4
\* to 7) and hashed (8 and 9), then the other files are written.
LEMMA StepsAre ==
    /\ Len(Steps) = 17
    /\ Steps[1] = Step("select", "wheel")
    /\ Steps[2] = Step("copy", "wheel") /\ Steps[3] = Step("copy", "sdist")
    /\ Steps[4] = Step("lock", "wheel") /\ Steps[5] = Step("describe", "wheel")
    /\ Steps[6] = Step("lock", "sdist") /\ Steps[7] = Step("describe", "sdist")
    /\ Steps[8] = Step("hash", "wheel") /\ Steps[9] = Step("hash", "sdist")
    /\ Steps[10] = Step("create", "wheelSbom") /\ Steps[11] = Step("fill", "wheelSbom")
    /\ Steps[12] = Step("create", "sdistSbom") /\ Steps[13] = Step("fill", "sdistSbom")
    /\ Steps[14] = Step("create", "identity") /\ Steps[15] = Step("fill", "identity")
    /\ Steps[16] = Step("create", "sums") /\ Steps[17] = Step("fill", "sums")
  BY DEF Steps, Make

\* The steps of a check: each archive is copied and parsed (2 to 5), then hashed
\* and compared (6 to 9), the checksums are written (10 and 11), the patterns
\* are expanded, the archives copied (13 and 14) and confirmed.
LEMMA CheckStepsAre ==
    /\ CheckSteps[1] = CheckStep("select", "wheel")
    /\ CheckSteps[2] = CheckStep("snapshot", "wheel") /\ CheckSteps[3] = CheckStep("parse", "wheel")
    /\ CheckSteps[4] = CheckStep("snapshot", "sdist") /\ CheckSteps[5] = CheckStep("parse", "sdist")
    /\ CheckSteps[6] = CheckStep("hash", "wheel") /\ CheckSteps[7] = CheckStep("compare", "wheel")
    /\ CheckSteps[8] = CheckStep("hash", "sdist") /\ CheckSteps[9] = CheckStep("compare", "sdist")
    /\ CheckSteps[10] = CheckStep("create", "sums") /\ CheckSteps[11] = CheckStep("fill", "sums")
    /\ CheckSteps[12] = CheckStep("expand", "wheel")
    /\ CheckSteps[13] = CheckStep("publish", "wheel")
    /\ CheckSteps[14] = CheckStep("publish", "sdist")
    /\ CheckSteps[15] = CheckStep("confirm", "sums")
  BY DEF CheckSteps, Both

\* The files of a release.
LEMMA FilesAre ==
    /\ Artifacts = {"sdist", "wheel"} /\ Sboms = {"sdistSbom", "wheelSbom"}
    /\ SbomOf["sdist"] = "sdistSbom" /\ SbomOf["wheel"] = "wheelSbom"
    /\ Payload = {"sdist", "wheel", "sdistSbom", "wheelSbom", "identity"}
    /\ Files = {"sdist", "wheel", "sdistSbom", "wheelSbom", "identity", "sums"}
    /\ Last(PayloadOrder) = "identity"
  BY DEF Artifacts, Sboms, SbomOf, Payload, Files, PayloadOrder, Last

\* A function stays one over its domain when it is changed at one place.
LEMMA OverExcept ==
    ASSUME NEW f, NEW D, NEW x, NEW v, Over(f, D)
    PROVE  Over([f EXCEPT ![x] = v], D)
  BY DEF Over

\* A step of a preparation goes on, refuses, or hands over to the verifier.
LEMMA PrepareSteps ==
    ASSUME Shape, Prepare
    PROVE  /\ stage = "prepare" /\ UNCHANGED <<output, manifest, writes>>
           /\ \/ /\ stage' = "refused" /\ at' = at
                 /\ UNCHANGED <<before, content, digest, history>>
              \/ /\ stage' = "prepare" /\ at < 17 /\ at' = at + 1
                 /\ UNCHANGED <<before, content, digest, history>>
              \/ at = 17 /\ Begin("first")
           /\ Over(files', Files) /\ Over(copied', Artifacts) /\ Over(intended', Files)
<1>1. Proceed /\ stage = "prepare" =>
         \/ /\ stage' = "prepare" /\ at < 17 /\ at' = at + 1
            /\ UNCHANGED <<before, content, digest, history>>
         \/ at = 17 /\ Begin("first")
  BY StepsAre DEF Proceed, Shape
<1>2. RefuseStep => /\ stage' = "refused" /\ at' = at
                    /\ UNCHANGED <<before, content, digest, history, files, copied, intended,
                                   output, manifest>>
  BY DEF RefuseStep, Refuse, looking
<1>3. Over(files, Files) /\ Over(copied, Artifacts) /\ Over(intended, Files)
  BY DEF Shape
<1>4. CASE Select
  <2>1. CASE extras = {} /\ \A f \in Files : files[f] # Gone <=> f \in Artifacts
    <3>1. /\ stage = "prepare" /\ copied' = [a \in Artifacts |-> files[a]]
          /\ Proceed /\ UNCHANGED <<files, output, manifest, intended, writes>>
      BY <1>4, <2>1 DEF Select, Doing
    <3>2. Over(copied', Artifacts)
      BY <3>1 DEF Over
    <3> QED
      BY <1>1, <1>3, <3>1, <3>2
  <2>2. CASE ~(extras = {} /\ \A f \in Files : files[f] # Gone <=> f \in Artifacts)
    BY <1>2, <1>3, <1>4, <2>2 DEF Select, Doing
  <2> QED
    BY <2>1, <2>2
<1>5. CASE Copy
  <2>1. CASE RefuseStep
    BY <1>2, <1>3, <1>5, <2>1 DEF Copy, Doing
  <2>2. CASE copied' = [copied EXCEPT ![Subject] = files[Subject]] /\ Proceed
             /\ UNCHANGED <<files, output, manifest, intended>>
    BY <1>1, <1>3, <1>5, <2>2, OverExcept DEF Copy, Doing
  <2> QED
    BY <1>5, <2>1, <2>2 DEF Copy
<1>6. CASE LockCheck
  BY <1>1, <1>2, <1>3, <1>6 DEF LockCheck, Doing
<1>7. CASE Describe
  <2>1. CASE RefuseStep
    BY <1>2, <1>3, <1>7, <2>1 DEF Describe, Doing
  <2>2. CASE intended' = [intended EXCEPT ![SbomOf[Subject]] = Sbom(reviewed, copied[Subject])]
             /\ Proceed /\ UNCHANGED <<files, output, manifest, copied>>
    BY <1>1, <1>3, <1>7, <2>2, OverExcept DEF Describe, Doing
  <2> QED
    BY <1>7, <2>1, <2>2 DEF Describe
<1>8. CASE Hash
  <2>1. CASE RefuseStep
    BY <1>2, <1>3, <1>8, <2>1 DEF Hash, Doing
  <2>2. CASE intended' = [intended EXCEPT ![Subject] = files[Subject]]
             /\ Proceed /\ UNCHANGED <<files, output, manifest, copied>>
    BY <1>1, <1>3, <1>8, <2>2, OverExcept DEF Hash, Doing
  <2> QED
    BY <1>8, <2>1, <2>2 DEF Hash
<1>9. CASE Create
  <2>1. CASE RefuseStep
    BY <1>2, <1>3, <1>9, <2>1 DEF Create, Doing
  <2>2. CASE files' = [files EXCEPT ![Subject] = Torn]
             /\ Proceed /\ UNCHANGED <<output, manifest, copied, intended>>
    BY <1>1, <1>3, <1>9, <2>2, OverExcept DEF Create, Doing
  <2> QED
    BY <1>9, <2>1, <2>2 DEF Create
<1>10. CASE Fill
  <2>1. CASE RefuseStep
    BY <1>2, <1>3, <1>10, <2>1 DEF Fill, Doing
  <2>2. CASE /\ \E c : files' = [files EXCEPT ![Subject] = c]
             /\ intended' = [intended EXCEPT ![Subject] = PayloadOf(Subject)]
             /\ Proceed /\ UNCHANGED <<output, manifest, copied>>
    <3>1. PICK c : files' = [files EXCEPT ![Subject] = c]
      BY <2>2
    <3>2. Over(files', Files)
      BY <1>3, <3>1, OverExcept
    <3>3. Over(intended', Files)
      BY <1>3, <2>2, OverExcept
    <3> QED
      BY <1>1, <1>3, <1>10, <2>2, <3>2, <3>3 DEF Fill, Doing
  <2>3. RefuseStep \/ /\ \E c : files' = [files EXCEPT ![Subject] = c]
                      /\ intended' = [intended EXCEPT ![Subject] = PayloadOf(Subject)]
                      /\ Proceed /\ UNCHANGED <<output, manifest, copied>>
    BY <1>10 DEF Fill
  <2> QED
    BY <2>1, <2>2, <2>3
<1> QED
  BY <1>4, <1>5, <1>6, <1>7, <1>8, <1>9, <1>10 DEF Prepare

\* A step of a check goes on, refuses, or ends with the last one.
LEMMA DistributionSteps ==
    ASSUME Shape, CheckDistribution
    PROVE  /\ stage = "check"
           /\ UNCHANGED <<output, manifest, before, content, digest, history, writes>>
           /\ \/ stage' = "refused" /\ at' = at
              \/ stage' = "check" /\ at' = at + 1 /\ at < 15
              \/ stage' = "done" /\ at' = at /\ ConfirmPublished
           /\ Over(files', Files) /\ Over(accepted', Artifacts) /\ Over(listed', Artifacts)
<1>1. \A do : Checking(do) /\ do # "confirm" => at < 15
  BY CheckStepsAre DEF Checking, CheckStep, Shape
<1>2. ASSUME NEW do, Checking(do), do # "confirm", NEW c, PassIf(c)
      PROVE  /\ stage = "check"
             /\ \/ stage' = "refused" /\ at' = at
                \/ stage' = "check" /\ at' = at + 1 /\ at < 15
  BY <1>1, <1>2 DEF PassIf, Checking
<1>3. Over(files, Files) /\ Over(accepted, Artifacts) /\ Over(listed, Artifacts)
  BY DEF Shape
<1>4. CASE SelectArchives
  <2>1. Over(accepted', Artifacts)
    BY <1>4 DEF SelectArchives, Over
  <2> QED
    BY <1>2, <1>3, <1>4, <2>1 DEF SelectArchives, OnlyChecks
<1>5. CASE Snapshot
  BY <1>2, <1>3, <1>5, OverExcept DEF Snapshot, OnlyChecks
<1>6. CASE ParseSnapshot \/ CompareArchive
  BY <1>2, <1>3, <1>6 DEF ParseSnapshot, CompareArchive, OnlyChecks, checkVars
<1>7. CASE HashArchive
  BY <1>2, <1>3, <1>7, OverExcept DEF HashArchive, OnlyChecks
<1>8. CASE CreateSums
  BY <1>2, <1>3, <1>8, OverExcept DEF CreateSums, OnlyChecks, checkVars
<1>9. CASE FillSums
  <2>1. Over(files', Files)
    BY <1>3, <1>9, OverExcept DEF FillSums
  <2> QED
    BY <1>2, <1>3, <1>9, <2>1 DEF FillSums, OnlyChecks, checkVars
<1>10. CASE ExpandPatterns \/ CopyToPublish
  BY <1>2, <1>3, <1>10 DEF ExpandPatterns, CopyToPublish, OnlyChecks
<1>11. CASE ConfirmPublished
  BY <1>3, <1>11 DEF ConfirmPublished, Checking, OnlyChecks, checkVars
<1> QED
  BY <1>4, <1>5, <1>6, <1>7, <1>8, <1>9, <1>10, <1>11 DEF CheckDistribution

\* What a look at a file does: it is refused, or remembered.
LEMMA LookSteps ==
    ASSUME Shape, TakeLook
    PROVE  /\ Verifying /\ at \in 1..24
           /\ UNCHANGED <<files, output, manifest, history, writes>>
           /\ \/ stage' = "refused" /\ at' = at
              \/ stage' = stage /\ at' = at + 1
           /\ \/ stage' = "refused"
              \/ /\ Accepts(Looks[at].how, Looks[at].file)
                 /\ Looks[at].how = "hash" /\ Looks[at].file = "identity" =>
                        ChecksumsAgree(digest')
           /\ UNCHANGED <<before, content, digest>> \/ Remember(Looks[at].how, Looks[at].file)
<1>1. Verifying /\ at \in 1..24 /\ UNCHANGED <<files, history, writes>>
  BY LooksAre DEF TakeLook, Shape
<1> DEFINE how == Looks[at].how
           f == Looks[at].file
<1>2. \/ /\ files[f] # Gone /\ Accepts(how, f) /\ Remember(how, f)
         /\ UNCHANGED <<output, manifest>>
         /\ IF how = "hash" /\ f = Last(PayloadOrder) /\ ~ChecksumsAgree(digest')
            THEN stage' = "refused" /\ UNCHANGED at
            ELSE at' = at + 1 /\ UNCHANGED stage
      \/ Refuse
  BY DEF TakeLook
<1> HIDE DEF how, f
<1>3. CASE Refuse
  BY <1>1, <1>3 DEF Refuse, looking
<1>4. CASE ~Refuse
  <2>1. /\ Accepts(how, f) /\ Remember(how, f) /\ UNCHANGED <<output, manifest>>
        /\ \/ stage' = "refused" /\ at' = at
           \/ /\ stage' = stage /\ at' = at + 1
              /\ how = "hash" /\ f = "identity" => ChecksumsAgree(digest')
    BY <1>2, <1>4, FilesAre
  <2> QED
    BY <1>1, <2>1 DEF how, f
<1> QED
  BY <1>3, <1>4

\* What remembering changes.
LEMMA Remembered ==
    ASSUME Shape, NEW how, NEW f, Remember(how, f)
    PROVE  /\ Over(content', Files) /\ Over(digest', Files)
           /\ content' = content \/ (how = "read" /\ content' = [content EXCEPT ![f] = files[f]])
           /\ IF how = "hash" \/ <<how, f>> = <<"after", "sums">>
              THEN digest' = [digest EXCEPT ![f] = files[f]]
              ELSE digest' = digest
<1>1. /\ content' = content \/ (how = "read" /\ content' = [content EXCEPT ![f] = files[f]])
      /\ IF how = "hash" \/ <<how, f>> = <<"after", "sums">>
         THEN digest' = [digest EXCEPT ![f] = files[f]]
         ELSE digest' = digest
  BY DEF Remember
<1>2. Over(content, Files) /\ Over(digest, Files)
  BY DEF Shape
<1>3. Over(content', Files)
  BY <1>1, <1>2, OverExcept
<1>4. Over(digest', Files)
  <2>1. digest' = digest \/ digest' = [digest EXCEPT ![f] = files[f]]
    BY <1>1
  <2> QED
    BY <1>2, <2>1, OverExcept
<1> QED
  BY <1>1, <1>3, <1>4

\* No verification has begun to look, and nothing is in memory.
LEMMA NothingSeen == /\ Over(NoneSeen, Files) /\ Over(NoCopy, Artifacts)
                     /\ Over(NothingAccepted, Artifacts)
                     /\ \A f \in Files : NoneSeen[f] = Unseen
                     /\ \A a \in Artifacts : NothingAccepted[a] = Unseen
  BY DEF Over, NoneSeen, NoCopy, NothingAccepted

\* A program that begins.
LEMMA Begun ==
    ASSUME NEW as, Begin(as)
    PROVE  /\ stage' = as /\ at' = 1 /\ content' = NoneSeen /\ digest' = NoneSeen
           /\ snapshots' = {files'} /\ Over(content', Files) /\ Over(digest', Files)
           /\ Over(files', Files) => \A d \in snapshots' : Over(d, Files)
<1>1. /\ stage' = as /\ at' = 1 /\ content' = NoneSeen /\ digest' = NoneSeen
      /\ snapshots' = {files'}
  BY DEF Begin
<1> QED
  BY <1>1, NothingSeen

\* A command begins in that shape.
LEMMA InitShape == CandidateInit => Shape
<1> SUFFICES ASSUME CandidateInit PROVE Shape
  OBVIOUS
<1>1. PICK command \in Commands : files \in Candidates(command) /\ stage = command
  BY DEF CandidateInit
<1>2. Over(files, Files)
  <2>1. files \in Archives \cup Starts
    BY <1>1 DEF Candidates
  <2> QED
    BY <2>1, DirectoriesAssumption DEF Over
<1>3. /\ at = 1 /\ content = NoneSeen /\ digest = NoneSeen /\ manifest = NoneSeen
      /\ snapshots = {files} /\ copied = NoCopy /\ intended = NoneSeen
      /\ accepted = NothingAccepted /\ listed = NothingAccepted
  BY DEF CandidateInit
<1>4. stage \in Commands
  BY <1>1
<1> QED
  BY <1>2, <1>3, <1>4, NothingSeen DEF Shape

\* Each step keeps the shapes.
LEMMA NextShape == Shape /\ [CandidateNext]_allVars => Shape'
<1> SUFFICES ASSUME Shape, [CandidateNext]_allVars PROVE Shape'
  OBVIOUS
<1> USE DEF Commands
<1>1. CASE Prepare /\ UNCHANGED <<extras, checkVars, runs>>
  <2>1. /\ Over(files', Files) /\ Over(copied', Artifacts) /\ Over(intended', Files)
        /\ UNCHANGED <<manifest, accepted, listed>>
    BY <1>1, PrepareSteps DEF checkVars
  <2>2. CASE stage' = "refused" /\ at' = at /\ UNCHANGED <<before, content, digest, history>>
    BY <2>1, <2>2 DEF Shape, Verifying, history
  <2>3. CASE /\ stage' = "prepare" /\ at < 17 /\ at' = at + 1
             /\ UNCHANGED <<before, content, digest, history>>
    BY <2>1, <2>3 DEF Shape, Verifying, history
  <2>4. CASE Begin("first")
    BY <2>1, <2>4, Begun DEF Shape, Verifying
  <2> QED
    BY <1>1, <2>2, <2>3, <2>4, PrepareSteps
<1>2. CASE CheckDistribution /\ UNCHANGED <<extras, prepareVars, runs>>
  BY <1>2, DistributionSteps DEF Shape, Verifying, history, prepareVars
<1>3. CASE Verifier /\ UNCHANGED <<extras, prepareVars, checkVars, runs>>
  <2>0. UNCHANGED <<copied, intended, accepted, listed>>
    BY <1>3 DEF prepareVars, checkVars
  <2>1. CASE TakeLook
    <3>1. Over(content', Files) /\ Over(digest', Files)
      BY <2>1, LookSteps, Remembered DEF Shape
    <3> QED
      BY <2>0, <2>1, <3>1, LookSteps DEF Shape, Verifying, history
  <2>2. CASE Conclude
    <3>1. manifest' \in {manifest, digest} /\ stage' \in {"create", "reread", "refused"}
          /\ UNCHANGED <<files, looking, history>>
      BY <2>2 DEF Conclude
    <3> QED
      BY <2>0, <3>1 DEF Shape, Verifying, looking, history
  <2>3. CASE CreateManifest \/ Reread
    <3>1. stage' \in {"fill", "done", "refused"} /\ UNCHANGED <<files, looking, manifest, history>>
      BY <2>3 DEF CreateManifest, Reread, Refuse
    <3> QED
      BY <2>0, <3>1 DEF Shape, Verifying, looking, history
  <2>4. CASE FillManifest
    <3>1. CASE Begin("second") /\ UNCHANGED <<files, manifest>>
      BY <2>0, <3>1, Begun DEF Shape, Verifying
    <3>2. CASE stage' = "refused" /\ UNCHANGED <<files, looking, manifest, history>>
      BY <2>0, <3>2 DEF Shape, Verifying, looking, history
    <3> QED
      BY <2>4, <3>1, <3>2 DEF FillManifest, Refuse
  <2> QED
    BY <1>3, <2>1, <2>2, <2>3, <2>4 DEF Verifier
<1>4. CASE Others /\ UNCHANGED <<prepareVars, checkVars, runs>>
  <2>0. UNCHANGED <<copied, intended, accepted, listed>>
    BY <1>4 DEF prepareVars, checkVars
  <2>1. CASE WriteOutput \/ WriteExtras
    BY <2>0, <2>1 DEF Shape, Verifying, WriteOutput, WriteExtras, looking, history
  <2>2. CASE \E f \in Files : \E c \in Contents[f] : Write(f, c)
    <3>0. PICK f \in Files : \E c \in Contents[f] : Write(f, c)
      BY <2>2
    <3>1. PICK c \in Contents[f] : Write(f, c)
      BY <3>0
    <3>2. Over(files', Files)
      BY <3>1, OverExcept DEF Write, Shape
    <3>3. \A d \in snapshots' : Over(d, Files)
      <4>1. snapshots' \in {snapshots, snapshots \cup {files'}}
        BY <3>1 DEF Write, Recorded, history
      <4> QED
        BY <3>2, <4>1 DEF Shape
    <3> QED
      BY <2>0, <3>1, <3>2, <3>3 DEF Shape, Verifying, Write, looking
  <2> QED
    BY <1>4, <2>1, <2>2 DEF Others
<1>5. CASE (\E m \in Reviewed : Edit(m)) /\ UNCHANGED <<extras, checkVars, runs>>
  BY <1>5 DEF Edit, Shape, Verifying, looking, history, checkVars
<1>6. ASSUME Blank
      PROVE  /\ manifest' = NoneSeen /\ Over(manifest', Files) /\ Over(intended', Files)
             /\ Over(copied', Artifacts) /\ Over(accepted', Artifacts)
             /\ Over(listed', Artifacts)
  BY <1>6, NothingSeen DEF Blank
<1>7. CASE Stop
  BY <1>6, <1>7, Begun DEF Stop, Shape, Verifying
<1>8. CASE \E command \in Commands : Run(command)
  <2>1. PICK command \in Commands : Run(command)
    BY <1>8
  <2>2. Over(files', Files)
    <3>1. files' = files \/ files' \in Archives \cup Starts
      BY <2>1 DEF Run, Candidates
    <3> QED
      BY <3>1, DirectoriesAssumption DEF Over, Shape
  <2>3. Begin(command) /\ Blank
    BY <2>1 DEF Run
  <2> QED
    BY <1>6, <2>2, <2>3, Begun DEF Shape, Verifying
<1>9. CASE UNCHANGED allVars
  BY <1>9 DEF allVars, vars, prepareVars, checkVars, looking, history, Shape, Verifying
<1> QED
  BY <1>1, <1>2, <1>3, <1>4, <1>5, <1>7, <1>8, <1>9 DEF CandidateNext
-----------------------------------------------------------------------------
(* A manifest is one release *)

\* What the looks so far have established of the digests.
Established ==
    Verifying =>
        /\ at > 4 => digest["sums"] = content["sums"]
        /\ at > 9 => \A f \in Payload : digest["sums"][f] = digest[f]
        /\ at > 12 => digest["identity"].source = Requested
        /\ at > 15 => /\ digest["sdistSbom"].binds = digest["sdist"]
                      /\ digest["sdistSbom"].package = Package
        /\ at > 18 => /\ digest["wheelSbom"].binds = digest["wheel"]
                      /\ digest["wheelSbom"].package = Package

\* A manifest that a verification has reached is one of a release.
Confirmed == /\ stage \in {"create", "fill", "second", "reread"} => NamesOneRelease(manifest)
             /\ ManifestIsOneRelease

\* Only the looks that hash change a digest, and only reading the checksum file
\* changes what is known of it.
LEMMA DigestsMove ==
    ASSUME Shape, TakeLook
    PROVE  /\ at \notin 4..9 => digest' = digest
           /\ at = 4 => digest' = digest \/ digest' = [digest EXCEPT !["sums"] = files["sums"]]
           /\ at \in 5..9 => \/ digest' = digest
                             \/ digest' = [digest EXCEPT ![Looks[at].file] = files[Looks[at].file]]
           /\ at # 3 => content'["sums"] = content["sums"]
<1>0. at \in 1..24
  BY LookSteps
<1>1. CASE UNCHANGED <<before, content, digest>>
  BY <1>1
<1>2. CASE Remember(Looks[at].how, Looks[at].file)
  <2>1. /\ \/ content' = content
           \/ Looks[at].how = "read" /\ content' = [content EXCEPT ![Looks[at].file] =
                                                        files[Looks[at].file]]
        /\ IF Looks[at].how = "hash" \/ <<Looks[at].how, Looks[at].file>> = <<"after", "sums">>
           THEN digest' = [digest EXCEPT ![Looks[at].file] = files[Looks[at].file]]
           ELSE digest' = digest
    BY <1>2, Remembered
  <2>2. at \notin 4..9 => /\ Looks[at].how # "hash"
                          /\ <<Looks[at].how, Looks[at].file>> # <<"after", "sums">>
    BY <1>0, LooksAre DEF Look
  <2>3. at = 4 => Looks[at].file = "sums"
    BY LooksAre DEF Look
  <2>4. at # 3 /\ Looks[at].how = "read" => Looks[at].file # "sums"
    BY <1>0, LooksAre DEF Look
  <2>5. at # 3 => content'["sums"] = content["sums"]
    <3> SUFFICES ASSUME at # 3 PROVE content'["sums"] = content["sums"]
      OBVIOUS
    <3>1. DOMAIN content = Files
      BY DEF Shape, Over
    <3> QED
      BY <2>1, <2>4, <3>1, FilesAre
  <2>6. \/ digest' = digest
        \/ digest' = [digest EXCEPT ![Looks[at].file] = files[Looks[at].file]]
    BY <2>1
  <2>7. at \notin 4..9 => digest' = digest
    BY <2>1, <2>2
  <2> QED
    BY <2>3, <2>5, <2>6, <2>7
<1> QED
  BY <1>1, <1>2, LookSteps

\* Every look that is passed establishes its part.
LEMMA LookEstablishes ==
    ASSUME Shape, Established, TakeLook
    PROVE  Established'
<1> SUFFICES ASSUME stage' # "refused" PROVE Established'
  BY DEF Established, Verifying
<1>0. /\ Verifying /\ at \in 1..24 /\ at' = at + 1 /\ files' = files
      /\ Accepts(Looks[at].how, Looks[at].file)
      /\ Looks[at].how = "hash" /\ Looks[at].file = "identity" => ChecksumsAgree(digest')
  BY LookSteps
<1>1. DOMAIN digest = Files /\ DOMAIN content = Files
  BY DEF Shape, Over
<1>2. CASE at <= 3
  BY <1>0, <1>2 DEF Established
<1>3. CASE at = 4
  <2>1. content["sums"] = files["sums"]
    BY <1>0, <1>3, LooksAre DEF Look, Accepts
  <2>2. digest' = [digest EXCEPT !["sums"] = files["sums"]]
    <3>1. Remember("after", "sums") \/ UNCHANGED <<before, content, digest>>
      BY <1>3, LookSteps, LooksAre DEF Look
    <3>2. Remember("after", "sums")
      BY <1>3, LooksAre DEF TakeLook, Refuse, Look
    <3> QED
      BY <3>2 DEF Remember
  <2>3. content'["sums"] = content["sums"]
    BY <1>3, DigestsMove
  <2> QED
    BY <1>0, <1>1, <1>3, <2>1, <2>2, <2>3, FilesAre DEF Established
<1>4. CASE at \in 5..9
  <2>1. digest'["sums"] = digest["sums"] /\ content'["sums"] = content["sums"]
    <3>1. Looks[at].file # "sums"
      BY <1>4, LooksAre DEF Look
    <3>2. digest'["sums"] = digest["sums"]
      BY <1>1, <1>4, <3>1, DigestsMove, FilesAre
    <3> QED
      BY <1>4, <3>2, DigestsMove
  <2>2. at = 9 => \A f \in Payload : digest'["sums"][f] = digest'[f]
    <3> SUFFICES ASSUME at = 9 PROVE \A f \in Payload : digest'["sums"][f] = digest'[f]
      OBVIOUS
    <3>1. ChecksumsAgree(digest')
      BY <1>0, LooksAre DEF Look
    <3>2. digest["sums"] = content["sums"]
      BY <1>0 DEF Established
    <3> QED
      BY <2>1, <3>1, <3>2 DEF ChecksumsAgree
  <2> QED
    BY <1>0, <1>4, <2>1, <2>2 DEF Established
<1>5. CASE at \in 10..24
  <2>1. digest' = digest /\ content'["sums"] = content["sums"]
    BY <1>5, DigestsMove
  <2>2. at = 12 => digest["identity"].source = Requested
    BY <1>0, LooksAre, FilesAre DEF Look, Accepts, Parsed
  <2>3. at = 15 => /\ digest["sdistSbom"].binds = digest["sdist"]
                   /\ digest["sdistSbom"].package = Package
    BY <1>0, LooksAre, FilesAre DEF Look, Accepts, Parsed
  <2>4. at = 18 => /\ digest["wheelSbom"].binds = digest["wheel"]
                   /\ digest["wheelSbom"].package = Package
    BY <1>0, LooksAre, FilesAre DEF Look, Accepts, Parsed
  <2> QED
    BY <1>0, <1>5, <2>1, <2>2, <2>3, <2>4 DEF Established, Verifying
<1> QED
  BY <1>0, <1>2, <1>3, <1>4, <1>5

\* Every step keeps what the looks have established: no writer reaches what the
\* verifier holds of a file.
LEMMA NextEstablished == Shape /\ Established /\ [CandidateNext]_allVars => Established'
<1> SUFFICES ASSUME Shape, Established, [CandidateNext]_allVars PROVE Established'
  OBVIOUS
<1>1. ASSUME UNCHANGED <<stage, looking>> PROVE Established'
  BY <1>1 DEF Established, Verifying, looking
<1>2. ASSUME stage' \notin {"first", "second"} PROVE Established'
  BY <1>2 DEF Established, Verifying
<1>3. ASSUME NEW as, Begin(as) PROVE Established'
  BY <1>3 DEF Begin, Established
<1>4. CASE Prepare
  <2>1. stage' \in {"refused", "prepare"} \/ Begin("first")
    BY <1>4, PrepareSteps
  <2> QED
    BY <1>2, <1>3, <2>1
<1>5. CASE CheckDistribution
  BY <1>2, <1>5, DistributionSteps
<1>6. CASE TakeLook
  BY <1>6, LookEstablishes
<1>7. CASE Conclude \/ CreateManifest \/ Reread
  BY <1>2, <1>7 DEF Conclude, CreateManifest, Reread, Refuse
<1>8. CASE FillManifest
  BY <1>2, <1>3, <1>8 DEF FillManifest, Refuse
<1>9. CASE Others \/ \E m \in Reviewed : Edit(m)
  BY <1>1, <1>9 DEF Others, Write, WriteOutput, WriteExtras, Edit
<1>10. CASE Stop \/ \E command \in Commands : Run(command)
  BY <1>3, <1>10 DEF Stop, Run
<1>11. CASE UNCHANGED allVars
  BY <1>1, <1>11 DEF allVars, vars
<1> QED
  BY <1>4, <1>5, <1>6, <1>7, <1>8, <1>9, <1>10, <1>11 DEF CandidateNext, Verifier

\* What all looks together establish is that the digests are of one release.
LEMMA AllEstablished ==
    ASSUME Established, Verifying, at > 24, at \in Nat
    PROVE  NamesOneRelease(digest)
  BY FilesAre DEF Established, NamesOneRelease

\* A manifest is the digests of a verification, and nothing else of the verifier
\* is written to the manifest file.
LEMMA NextConfirmed ==
    Shape /\ Established /\ Confirmed /\ [CandidateNext]_allVars => Confirmed'
<1> SUFFICES ASSUME Shape, Established, Confirmed, [CandidateNext]_allVars PROVE Confirmed'
  OBVIOUS
<1> USE DEF Confirmed, ManifestIsOneRelease
<1>1. ASSUME UNCHANGED <<output, manifest>>,
             stage' \notin {"create", "fill", "second", "reread"} \/ stage' = stage
      PROVE  Confirmed'
  BY <1>1 DEF NamesOneRelease
<1>2. CASE Prepare
  <2>1. stage' \in {"refused", "prepare", "first"}
    BY <1>2, PrepareSteps DEF Begin
  <2> QED
    BY <1>1, <1>2, <2>1, PrepareSteps
<1>3. CASE CheckDistribution
  BY <1>1, <1>3, DistributionSteps
<1>4. CASE TakeLook
  BY <1>1, <1>4, LookSteps
<1>5. CASE Conclude
  <2>1. Verifying /\ at > 24 /\ at \in Nat /\ UNCHANGED output
    BY <1>5, LooksAre DEF Conclude, Shape
  <2>2. CASE stage = "first"
    <3>1. stage' = "create" /\ manifest' = digest
      BY <1>5, <2>2 DEF Conclude
    <3> QED
      BY <2>1, <3>1, AllEstablished DEF NamesOneRelease
  <2>3. CASE stage = "second"
    BY <1>5, <2>1, <2>3 DEF Conclude, NamesOneRelease
  <2> QED
    BY <2>1, <2>2, <2>3 DEF Verifying
<1>6. CASE CreateManifest
  <2>1. CASE stage = "create" /\ output' = Torn /\ stage' = "fill" /\ UNCHANGED manifest
    BY <2>1 DEF NamesOneRelease
  <2> QED
    BY <1>1, <1>6, <2>1 DEF CreateManifest, Refuse
<1>7. CASE FillManifest
  <2>1. CASE /\ stage = "fill" /\ stage' = "second" /\ UNCHANGED manifest
             /\ output' \in {manifest, output}
    BY <2>1 DEF NamesOneRelease
  <2> QED
    BY <1>1, <1>7, <2>1 DEF FillManifest, Refuse, Begin
<1>8. CASE Reread
  BY <1>1, <1>8 DEF Reread
<1>9. CASE Others
  <2>1. CASE WriteOutput \/ WriteExtras
    BY <2>1 DEF WriteOutput, WriteExtras, NamesOneRelease
  <2> QED
    BY <1>1, <1>9, <2>1 DEF Others, Write
<1>10. CASE \E m \in Reviewed : Edit(m)
  BY <1>1, <1>10 DEF Edit
<1>11. CASE Stop
  BY <1>11 DEF Stop, Begin, Blank, NamesOneRelease
<1>12. CASE \E command \in Commands : Run(command)
  BY <1>12 DEF Run, Begin, Blank, NamesOneRelease, Commands
<1>13. CASE UNCHANGED allVars
  BY <1>1, <1>13 DEF allVars, vars
<1> QED
  BY <1>2, <1>3, <1>4, <1>5, <1>6, <1>7, <1>8, <1>9, <1>10, <1>11, <1>12, <1>13
     DEF CandidateNext, Verifier
-----------------------------------------------------------------------------
(* A verified directory existed *)

\* The files that the first k - 1 looks have hashed, and have hashed again.
HashedBy(f, k) == \/ f = "sums" /\ k > 4
                  \/ \E i \in 5..9 : i < k /\ Looks[i].file = f
AgainBy(f, k) == \E i \in 19..24 : i < k /\ Looks[i].file = f

\* Every digest was the content of its file at an instant of the verification;
\* and once all are taken there is one instant, the moment after the first pass,
\* at which every file was as digested that is so still or was found to be again.
Instants ==
    Verifying =>
        /\ files \in snapshots
        /\ \A f \in Files : HashedBy(f, at) => \E d \in snapshots : d[f] = digest[f]
        /\ fresh /\ at > 9 =>
               \E d \in snapshots : \A f \in Files :
                   files[f] = digest[f] \/ AgainBy(f, at) => d[f] = digest[f]

\* Other commands than the verifier, and those that prepare for it, have no manifest.
Scratch == stage = "check" => manifest = NoneSeen

\* A look keeps the instants, and the last one to hash finds the one it needs.
LEMMA LookInstants ==
    ASSUME Shape, Instants, TakeLook
    PROVE  Instants'
<1> SUFFICES ASSUME stage' # "refused" PROVE Instants'
  BY DEF Instants, Verifying
<1>0. /\ Verifying /\ at \in 1..24 /\ at' = at + 1
      /\ UNCHANGED <<files, snapshots, fresh>>
      /\ Accepts(Looks[at].how, Looks[at].file)
  BY LookSteps DEF history
<1>1. DOMAIN digest = Files /\ files \in snapshots
  BY <1>0 DEF Shape, Over, Instants
<1>2. \A f \in Files : digest'[f] \in {digest[f], files[f]}
  <2>1. CASE at \in 4..9
    <3>1. Looks[at].file \in Files
      BY <2>1, LooksAre, FilesAre DEF Look
    <3>2. at = 4 => Looks[at].file = "sums"
      BY LooksAre DEF Look
    <3>3. \/ digest' = digest
          \/ digest' = [digest EXCEPT ![Looks[at].file] = files[Looks[at].file]]
      BY <2>1, <3>2, DigestsMove
    <3> QED
      BY <1>1, <3>1, <3>3
  <2> QED
    BY <2>1, DigestsMove
<1>3. \A f \in Files : HashedBy(f, at + 1) => HashedBy(f, at) \/ digest'[f] = files[f]
  <2> SUFFICES ASSUME NEW f \in Files, HashedBy(f, at + 1), ~HashedBy(f, at)
               PROVE  digest'[f] = files[f]
    OBVIOUS
  <2>1. at \in 4..9 /\ Looks[at].file = f
    BY <1>0, LooksAre DEF HashedBy, Look
  <2>2. Remember(Looks[at].how, f)
    BY <2>1 DEF TakeLook, Refuse
  <2>3. Looks[at].how = "hash" \/ <<Looks[at].how, f>> = <<"after", "sums">>
    BY <2>1, LooksAre DEF Look
  <2> QED
    BY <1>1, <2>2, <2>3 DEF Remember
<1>4. \A f \in Files : HashedBy(f, at') => \E d \in snapshots' : d[f] = digest'[f]
  BY <1>0, <1>1, <1>2, <1>3 DEF Instants
<1>5. ASSUME fresh, at + 1 > 9
      PROVE  \E d \in snapshots : \A f \in Files :
                 files[f] = digest'[f] \/ AgainBy(f, at + 1) => d[f] = digest'[f]
  <2>1. CASE at = 9
    <3>1. \A f \in Files : ~AgainBy(f, at + 1)
      BY <2>1 DEF AgainBy
    <3> QED
      BY <1>1, <3>1
  <2>2. CASE at > 9
    <3>1. digest' = digest
      BY <1>0, <2>2, DigestsMove
    <3>2. PICK d \in snapshots : \A f \in Files :
              files[f] = digest[f] \/ AgainBy(f, at) => d[f] = digest[f]
      BY <1>0, <1>5, <2>2 DEF Instants
    <3>3. \A f \in Files : AgainBy(f, at + 1) => AgainBy(f, at) \/ files[f] = digest[f]
      <4> SUFFICES ASSUME NEW f \in Files, AgainBy(f, at + 1), ~AgainBy(f, at)
                   PROVE  files[f] = digest[f]
        OBVIOUS
      <4>1. at \in 19..24 /\ Looks[at].file = f
        BY <1>0 DEF AgainBy
      <4>2. Looks[at].how = "again"
        BY <4>1, LooksAre DEF Look
      <4> QED
        BY <1>0, <4>1, <4>2 DEF Accepts
    <3> QED
      BY <3>1, <3>2, <3>3
  <2> QED
    BY <1>0, <1>5, <2>1, <2>2
<1> QED
  BY <1>0, <1>1, <1>4, <1>5 DEF Instants

\* While the contents are fresh, a file that was written over does not come back
\* to its digest: so the instant stays the one it was.
LEMMA WriteInstants ==
    ASSUME Shape, Instants, NEW g \in Files, NEW c, Write(g, c)
    PROVE  Instants'
<1> SUFFICES ASSUME Verifying PROVE Instants'
  BY DEF Instants, Write, Verifying
<1>0. /\ UNCHANGED <<stage, at, digest>> /\ at \in Nat
      /\ snapshots' = snapshots \cup {files'}
      /\ fresh' = (fresh /\ \A f \in Files, d \in snapshots :
                               files'[f] # files[f] => d[f] # files'[f])
  BY DEF Write, Recorded, looking, Shape
<1>1. files' \in snapshots' /\ snapshots \subseteq snapshots'
  BY <1>0
<1>2. \A f \in Files : HashedBy(f, at') => \E d \in snapshots' : d[f] = digest'[f]
  BY <1>0, <1>1 DEF Instants
<1>3. ASSUME fresh', at' > 9
      PROVE  \E d \in snapshots' : \A f \in Files :
                 files'[f] = digest'[f] \/ AgainBy(f, at') => d[f] = digest'[f]
  <2>1. fresh /\ at > 9 /\ \A f \in Files, d \in snapshots :
                               files'[f] # files[f] => d[f] # files'[f]
    BY <1>0, <1>3
  <2>2. PICK d \in snapshots : \A f \in Files :
            files[f] = digest[f] \/ AgainBy(f, at) => d[f] = digest[f]
    BY <2>1 DEF Instants
  <2>3. \A f \in Files : HashedBy(f, at)
    BY <2>1, LooksAre, FilesAre, <1>0 DEF HashedBy, Look
  <2>4. \A f \in Files : files'[f] = digest[f] => files[f] = digest[f]
    BY <2>1, <2>3 DEF Instants
  <2> QED
    BY <1>0, <1>1, <2>2, <2>4
<1> QED
  BY <1>1, <1>2, <1>3 DEF Instants

\* Every step keeps the instants.
LEMMA NextInstants == Shape /\ Instants /\ [CandidateNext]_allVars => Instants'
<1> SUFFICES ASSUME Shape, Instants, [CandidateNext]_allVars PROVE Instants'
  OBVIOUS
<1>1. ASSUME UNCHANGED <<stage, looking, files, history>> PROVE Instants'
  BY <1>1 DEF Instants, Verifying, looking, history
<1>2. ASSUME stage' \notin {"first", "second"} PROVE Instants'
  BY <1>2 DEF Instants, Verifying
<1>3. ASSUME NEW as, Begin(as) PROVE Instants'
  BY <1>3 DEF Begin, Instants, HashedBy
<1>4. CASE Prepare
  <2>1. stage' \in {"refused", "prepare"} \/ Begin("first")
    BY <1>4, PrepareSteps
  <2> QED
    BY <1>2, <1>3, <2>1
<1>5. CASE CheckDistribution
  BY <1>2, <1>5, DistributionSteps
<1>6. CASE TakeLook
  BY <1>6, LookInstants
<1>7. CASE Conclude \/ CreateManifest \/ Reread
  BY <1>2, <1>7 DEF Conclude, CreateManifest, Reread, Refuse
<1>8. CASE FillManifest
  BY <1>2, <1>3, <1>8 DEF FillManifest, Refuse
<1>9. CASE Others
  BY <1>1, <1>9, WriteInstants DEF Others, WriteOutput, WriteExtras
<1>10. CASE \E m \in Reviewed : Edit(m)
  BY <1>1, <1>10 DEF Edit
<1>11. CASE Stop \/ \E command \in Commands : Run(command)
  BY <1>3, <1>11 DEF Stop, Run
<1>12. CASE UNCHANGED allVars
  BY <1>1, <1>12 DEF allVars, vars
<1> QED
  BY <1>4, <1>5, <1>6, <1>7, <1>8, <1>9, <1>10, <1>11, <1>12 DEF CandidateNext, Verifier

\* At the end of a verification every file was found again as digested: the
\* directory was that at the instant.
LEMMA DigestsExisted ==
    ASSUME Shape, Instants, Verifying, at > 24, fresh
    PROVE  digest \in snapshots
<1>1. PICK d \in snapshots : \A f \in Files :
          files[f] = digest[f] \/ AgainBy(f, at) => d[f] = digest[f]
  BY DEF Instants, Shape
<1>2. \A f \in Files : AgainBy(f, at)
  <2>1. at \in Nat
    BY DEF Shape
  <2> QED
    BY <2>1, LooksAre, FilesAre DEF AgainBy, Look
<1>3. \A f \in Files : d[f] = digest[f]
  BY <1>1, <1>2
<1>4. Over(d, Files) /\ Over(digest, Files)
  BY DEF Shape
<1>5. d = digest
  BY <1>3, <1>4 DEF Over
<1> QED
  BY <1>5

\* A check has no manifest.
LEMMA NextScratch == Shape /\ Scratch /\ [CandidateNext]_allVars => Scratch'
<1> SUFFICES ASSUME Shape, Scratch, [CandidateNext]_allVars PROVE Scratch'
  OBVIOUS
<1>1. CASE Prepare \/ CheckDistribution
  BY <1>1, PrepareSteps, DistributionSteps DEF Scratch, Begin
<1>2. CASE Verifier
  <2>1. CASE TakeLook
    BY <2>1, LookSteps DEF Scratch, Verifying
  <2>2. CASE Conclude \/ CreateManifest \/ FillManifest \/ Reread
    BY <2>2 DEF Conclude, CreateManifest, FillManifest, Reread, Refuse, Begin, Scratch
  <2> QED
    BY <1>2, <2>1, <2>2 DEF Verifier
<1>3. CASE Others \/ \E m \in Reviewed : Edit(m)
  BY <1>3 DEF Others, Write, WriteOutput, WriteExtras, Edit, Scratch
<1>4. CASE Stop \/ \E command \in Commands : Run(command)
  BY <1>4 DEF Stop, Run, Blank, Scratch
<1>5. CASE UNCHANGED allVars
  BY <1>5 DEF allVars, vars, Scratch
<1> QED
  BY <1>1, <1>2, <1>3, <1>4, <1>5 DEF CandidateNext

\* What was so at the end of a verification stays so until the next one.
LEMMA NextExisted ==
    Shape /\ Instants /\ Scratch /\ VerifiedDirectoryExisted /\ [CandidateNext]_allVars
        => VerifiedDirectoryExisted'
<1> SUFFICES ASSUME Shape, Instants, Scratch, VerifiedDirectoryExisted, [CandidateNext]_allVars
             PROVE  VerifiedDirectoryExisted'
  OBVIOUS
<1> USE DEF VerifiedDirectoryExisted
<1>1. ASSUME stage' \notin {"create", "fill", "reread", "done"} PROVE VerifiedDirectoryExisted'
  BY <1>1
<1>2. ASSUME UNCHANGED <<manifest, history>>,
             \/ stage' = stage
             \/ stage \in {"create", "reread"} /\ stage' \in {"fill", "done", "refused"}
      PROVE  VerifiedDirectoryExisted'
  BY <1>2 DEF history
<1>3. CASE Prepare
  <2>1. stage' \in {"refused", "prepare", "first"}
    BY <1>3, PrepareSteps DEF Begin
  <2> QED
    BY <1>1, <2>1
<1>4. CASE CheckDistribution
  <2>1. stage' \in {"refused", "check", "done"} /\ manifest' = NoneSeen
    BY <1>4, DistributionSteps DEF Scratch
  <2> QED
    BY <2>1
<1>5. CASE TakeLook
  BY <1>1, <1>5, LookSteps DEF Verifying
<1>6. CASE Conclude
  <2>1. Verifying /\ at > 24 /\ UNCHANGED history
    BY <1>6, LooksAre DEF Conclude
  <2>2. stage' = "refused" \/ manifest' = digest
    BY <1>6, <2>1 DEF Conclude, Verifying
  <2>3. CASE stage' = "refused"
    BY <1>1, <2>3
  <2>4. CASE manifest' = digest
    BY <2>1, <2>4, DigestsExisted DEF history
  <2> QED
    BY <2>2, <2>3, <2>4
<1>7. CASE CreateManifest \/ Reread
  <2>1. UNCHANGED <<manifest, history>> /\ stage \in {"create", "reread"}
        /\ stage' \in {"fill", "done", "refused"}
    BY <1>7 DEF CreateManifest, Reread, Refuse
  <2> QED
    BY <1>2, <2>1
<1>8. CASE FillManifest
  BY <1>1, <1>8 DEF FillManifest, Refuse, Begin
<1>9. CASE Others
  <2>1. CASE WriteOutput \/ WriteExtras
    BY <1>2, <2>1 DEF WriteOutput, WriteExtras
  <2>2. ASSUME NEW f \in Files, NEW c, Write(f, c) PROVE VerifiedDirectoryExisted'
    <3>1. CASE Verifying
      BY <1>1, <2>2, <3>1 DEF Write, Verifying
    <3>2. CASE ~Verifying
      BY <1>2, <2>2, <3>2 DEF Write, Recorded
    <3> QED
      BY <3>1, <3>2
  <2> QED
    BY <1>9, <2>1, <2>2 DEF Others
<1>10. CASE \E m \in Reviewed : Edit(m)
  BY <1>2, <1>10 DEF Edit
<1>11. CASE Stop \/ \E command \in Commands : Run(command)
  BY <1>1, <1>11 DEF Stop, Run, Begin, Commands
<1>12. CASE UNCHANGED allVars
  BY <1>2, <1>12 DEF allVars, vars
<1> QED
  BY <1>3, <1>4, <1>5, <1>6, <1>7, <1>8, <1>9, <1>10, <1>11, <1>12 DEF CandidateNext, Verifier
-----------------------------------------------------------------------------
(* What is sealed is what was parsed *)

\* The files as a whole preparation means them: the checksums are those of the
\* other files, and each SBOM binds the archive that was parsed.
Complete == /\ \A f \in Payload : intended["sums"][f] = intended[f]
            /\ \A a \in Artifacts : intended[SbomOf[a]].binds = copied[a]

\* What the steps of a preparation so far have generated, and what the
\* verification that it began hence verifies.
Prepared ==
    /\ stage = "prepare" =>
           /\ at > 5 => intended["wheelSbom"].binds = copied["wheel"]
           /\ at > 7 => intended["sdistSbom"].binds = copied["sdist"]
           /\ at > 15 => intended["identity"] = IdentityPayload
    /\ Verifying \/ stage \in {"create", "fill", "reread", "done"} =>
           intended = NoneSeen \/ Complete
    /\ stage = "check" => intended = NoneSeen
    /\ stage = "done" /\ intended # NoneSeen => NamesOneRelease(manifest)

\* Each step of a preparation generates its part, and the last one completes it.
LEMMA PrepareGenerates ==
    ASSUME Shape, Prepared, Prepare
    PROVE  Prepared'
<1> SUFFICES ASSUME stage' # "refused" PROVE Prepared'
  BY DEF Prepared, Verifying
<1>0. /\ stage = "prepare" /\ at \in 1..17
      /\ \/ stage' = "prepare" /\ at < 17 /\ at' = at + 1
         \/ at = 17 /\ stage' = "first"
  <2>1. /\ stage = "prepare"
        /\ \/ stage' = "prepare" /\ at < 17 /\ at' = at + 1
           \/ at = 17 /\ Begin("first")
    BY PrepareSteps
  <2>2. at \in 1..17
    BY <2>1 DEF Shape
  <2> QED
    BY <2>1, <2>2 DEF Begin
<1>1. DOMAIN intended = Files
  BY DEF Shape, Over
<1>2. ASSUME at \notin {5, 7, 15, 17}, UNCHANGED copied,
             \A f \in Sboms \cup {"identity"} : intended'[f] = intended[f]
      PROVE  Prepared'
  BY <1>0, <1>2, FilesAre DEF Prepared, Verifying
<1>3. CASE Select \/ Copy
  <2>1. at \in {1, 2, 3}
    BY <1>0, <1>3, StepsAre DEF Select, Copy, Doing, Step
  <2> QED
    BY <1>0, <2>1 DEF Prepared, Verifying
<1>4. CASE LockCheck
  <2>1. at \in {4, 6} /\ UNCHANGED <<copied, intended>>
    BY <1>0, <1>4, StepsAre DEF LockCheck, Doing, Step, RefuseStep
  <2> QED
    BY <1>2, <2>1
<1>5. CASE Describe
  <2>1. at \in {5, 7}
    BY <1>0, <1>5, StepsAre DEF Describe, Doing, Step
  <2>2. /\ intended' = [intended EXCEPT ![SbomOf[Subject]] = Sbom(reviewed, copied[Subject])]
        /\ copied' = copied
    BY <1>5 DEF Describe, RefuseStep, Refuse
  <2>3. Subject = IF at = 5 THEN "wheel" ELSE "sdist"
    BY <2>1, StepsAre DEF Subject, Step
  <2>4. intended'[SbomOf[Subject]].binds = copied[Subject]
    BY <1>1, <2>2, <2>3, FilesAre DEF Sbom
  <2>5. at = 7 => intended'["wheelSbom"] = intended["wheelSbom"]
    BY <1>1, <2>2, <2>3, FilesAre
  <2> QED
    BY <1>0, <2>1, <2>2, <2>3, <2>4, <2>5, FilesAre DEF Prepared, Verifying
<1>6. CASE Hash
  <2>1. at \in {8, 9}
    BY <1>0, <1>6, StepsAre DEF Hash, Doing, Step
  <2>2. /\ intended' = [intended EXCEPT ![Subject] = files[Subject]]
        /\ copied' = copied
    BY <1>6 DEF Hash, RefuseStep, Refuse
  <2>3. Subject \in Artifacts
    BY <2>1, StepsAre, FilesAre DEF Subject, Step
  <2> QED
    BY <1>1, <1>2, <2>1, <2>2, <2>3, FilesAre
<1>7. CASE Create
  <2>1. at \in {10, 12, 14, 16} /\ UNCHANGED <<copied, intended>>
    BY <1>0, <1>7, StepsAre DEF Create, Doing, Step, RefuseStep
  <2> QED
    BY <1>2, <2>1
<1>8. CASE Fill
  <2>1. at \in {11, 13, 15, 17}
    BY <1>0, <1>8, StepsAre DEF Fill, Doing, Step
  <2>2. /\ intended' = [intended EXCEPT ![Subject] = PayloadOf(Subject)]
        /\ copied' = copied
    BY <1>8 DEF Fill, RefuseStep, Refuse
  <2>3. CASE at \in {11, 13}
    <3>1. Subject \in Sboms
      BY <2>3, StepsAre, FilesAre DEF Subject, Step
    <3>2. PayloadOf(Subject) = intended[Subject]
      BY <3>1, FilesAre DEF PayloadOf
    <3> QED
      BY <1>1, <1>2, <2>2, <2>3, <3>2, FilesAre
  <2>4. CASE at = 15
    <3>1. Subject = "identity" /\ PayloadOf("identity") = IdentityPayload
      BY <2>4, StepsAre DEF Subject, Step, PayloadOf
    <3> QED
      BY <1>0, <1>1, <2>2, <2>4, <3>1, FilesAre DEF Prepared, Verifying
  <2>5. CASE at = 17
    <3>1. Subject = "sums" /\ PayloadOf("sums") = ChecksumPayload
      BY <2>5, StepsAre DEF Subject, Step, PayloadOf
    <3>2. /\ intended'["sums"] = ChecksumPayload
          /\ \A f \in Payload : intended'[f] = intended[f]
      BY <1>1, <2>2, <3>1, FilesAre
    <3>3. \A f \in Payload : ChecksumPayload[f] = intended[f]
      BY <1>0, <2>5 DEF ChecksumPayload, Prepared
    <3>4. \A a \in Artifacts : intended'[SbomOf[a]].binds = copied'[a]
      BY <1>0, <2>2, <2>5, <3>2, FilesAre DEF Prepared
    <3>5. Complete'
      BY <3>2, <3>3, <3>4 DEF Complete
    <3> QED
      BY <1>0, <2>5, <3>5 DEF Prepared, Verifying
  <2> QED
    BY <2>1, <2>3, <2>4, <2>5
<1> QED
  BY <1>3, <1>4, <1>5, <1>6, <1>7, <1>8 DEF Prepare

\* Every step keeps what was generated as it is.
LEMMA NextPrepared ==
    Shape /\ Confirmed /\ Prepared /\ [CandidateNext]_allVars => Prepared'
<1> SUFFICES ASSUME Shape, Confirmed, Prepared, [CandidateNext]_allVars PROVE Prepared'
  OBVIOUS
<1>1. ASSUME UNCHANGED <<stage, at, copied, intended, manifest>> PROVE Prepared'
  BY <1>1 DEF Prepared, Complete, Verifying, NamesOneRelease
<1>2. ASSUME UNCHANGED <<copied, intended>>,
             Verifying \/ stage \in {"create", "fill", "reread"},
             \/ stage' \in {"first", "create", "fill", "second", "reread", "refused"}
             \/ stage' = "done" /\ stage = "reread" /\ UNCHANGED manifest
      PROVE  Prepared'
  BY <1>2 DEF Prepared, Complete, Verifying, NamesOneRelease, Confirmed
<1>3. CASE Prepare
  BY <1>3, PrepareGenerates
<1>4. CASE CheckDistribution /\ UNCHANGED <<extras, prepareVars, runs>>
  <2>1. stage' \in {"check", "refused", "done"} /\ intended' = NoneSeen
    BY <1>4, DistributionSteps DEF Prepared, prepareVars
  <2> QED
    BY <2>1 DEF Prepared, Verifying
<1>5. CASE Verifier /\ UNCHANGED <<extras, prepareVars, checkVars, runs>>
  <2>0. UNCHANGED <<copied, intended>>
    BY <1>5 DEF prepareVars
  <2>1. CASE TakeLook
    BY <1>2, <2>0, <2>1, LookSteps DEF Verifying
  <2>2. CASE Conclude \/ CreateManifest \/ FillManifest
    BY <1>2, <2>0, <2>2 DEF Conclude, CreateManifest, FillManifest, Refuse, Begin
  <2>3. CASE Reread
    BY <1>2, <2>0, <2>3 DEF Reread
  <2> QED
    BY <1>5, <2>1, <2>2, <2>3 DEF Verifier
<1>6. CASE Others /\ UNCHANGED <<prepareVars, checkVars, runs>>
  BY <1>1, <1>6 DEF Others, Write, WriteOutput, WriteExtras, looking, prepareVars
<1>7. CASE \E m \in Reviewed : Edit(m)
  BY <1>1, <1>7 DEF Edit, looking
<1>8. CASE Stop
  BY <1>8 DEF Stop, Begin, Blank, Prepared, Verifying
<1>9. CASE \E command \in Commands : Run(command)
  <2>1. stage' \in Commands /\ at' = 1 /\ intended' = NoneSeen
    BY <1>9 DEF Run, Begin, Blank
  <2> QED
    BY <2>1 DEF Prepared, Commands
<1>10. CASE UNCHANGED allVars
  BY <1>1, <1>10 DEF allVars, vars, looking, prepareVars
<1> QED
  BY <1>3, <1>4, <1>5, <1>6, <1>7, <1>8, <1>9, <1>10 DEF CandidateNext

\* A manifest that names the generated checksums is the generated release.
LEMMA PreparedIsSealed == Shape /\ Prepared => SealedIsParsed
<1> SUFFICES ASSUME Shape, Prepared, intended # NoneSeen, stage = "done",
                    manifest["sums"] = intended["sums"]
             PROVE  manifest = intended /\ \A a \in Artifacts : manifest[a] = copied[a]
  BY DEF SealedIsParsed
<1>1. Complete /\ NamesOneRelease(manifest)
  BY DEF Prepared
<1>2. \A f \in Files : manifest[f] = intended[f]
  BY <1>1 DEF Complete, NamesOneRelease, Files
<1>3. manifest = intended
  BY <1>2 DEF Shape, Over
<1>4. \A a \in Artifacts : manifest[SbomOf[a]].binds = manifest[a]
  BY <1>1 DEF NamesOneRelease
<1>5. \A a \in Artifacts : intended[SbomOf[a]].binds = copied[a]
  BY <1>1 DEF Complete
<1> QED
  BY <1>3, <1>4, <1>5
-----------------------------------------------------------------------------
(* What is published is what was parsed *)

\* What the steps of a check so far have found of the archives; no other
\* command publishes any.
Examined ==
    /\ stage = "check" =>
           /\ at > 3 => accepted["wheel"] \in Valid
           /\ at > 5 => accepted["sdist"] \in Valid
           /\ at > 6 => listed["wheel"] = accepted["wheel"]
           /\ at > 8 => listed["sdist"] = accepted["sdist"]
    /\ Verifying \/ stage \in {"prepare", "create", "fill", "reread"} =>
           published = NothingPublished
    /\ writes \in Nat
    /\ writes = 0 /\ stage = "check" => /\ at > 1 => extras = {}
                                        /\ DOMAIN published \subseteq Artifacts
    /\ PublishedIsParsed

\* Each step of a check finds its part, and the last one that all agree.
LEMMA CheckExamines ==
    ASSUME Shape, Examined, CheckDistribution, UNCHANGED extras
    PROVE  Examined'
<1>0. /\ stage = "check" /\ at \in 1..15 /\ UNCHANGED writes
      /\ \/ stage' = "refused" /\ at' = at
         \/ stage' = "check" /\ at' = at + 1 /\ at < 15
         \/ stage' = "done" /\ at' = at /\ ConfirmPublished
  <2>1. stage = "check" /\ at \in 1..15 /\ UNCHANGED writes
    BY DistributionSteps DEF Shape
  <2> QED
    BY <2>1, DistributionSteps
<1> SUFFICES ASSUME stage' # "refused" PROVE Examined'
  BY <1>0 DEF Examined, PublishedIsParsed, Verifying
<1>1. DOMAIN accepted = Artifacts /\ DOMAIN listed = Artifacts
  BY DEF Shape, Over
<1>2. ASSUME at \notin {3, 5, 6, 8}, stage' = "check",
             at > 1, UNCHANGED <<accepted, listed>>,
             at = 12 \/ DOMAIN published' = DOMAIN published,
             at = 12 => DOMAIN published' = Present
      PROVE  Examined'
  <2>1. at = 12 /\ writes = 0 => DOMAIN published' \subseteq Artifacts
    BY <1>0, <1>2 DEF Examined, Present
  <2> QED
    BY <1>0, <1>2, <2>1 DEF Examined, PublishedIsParsed, Verifying
<1>3. ASSUME NEW c, PassIf(c) PROVE c /\ at' = at + 1 /\ stage' = "check"
  BY <1>0, <1>3 DEF PassIf
<1>4. CASE SelectArchives
  <2>1. at = 1
    BY <1>0, <1>4, CheckStepsAre DEF SelectArchives, Checking, CheckStep
  <2>2. at' = 2 /\ stage' = "check" /\ extras = {} /\ published' = published
    <3>1. /\ PassIf(extras = {} /\ \A a \in Artifacts : files[a] # Gone)
          /\ published' = published
      BY <1>4 DEF SelectArchives
    <3>2. at' = at + 1 /\ stage' = "check" /\ extras = {}
      BY <1>0, <3>1 DEF PassIf
    <3> QED
      BY <2>1, <3>1, <3>2
  <2> QED
    BY <1>0, <2>2 DEF Examined, PublishedIsParsed, Verifying
<1>5. CASE Snapshot
  <2>1. at \in {2, 4}
    BY <1>0, <1>5, CheckStepsAre DEF Snapshot, Checking, CheckStep
  <2>2. /\ at' = at + 1 /\ stage' = "check" /\ UNCHANGED <<listed, published>>
        /\ accepted' = [accepted EXCEPT ![Checked] = files[Checked]]
    BY <1>3, <1>5 DEF Snapshot
  <2>3. Checked = IF at = 2 THEN "wheel" ELSE "sdist"
    BY <2>1, CheckStepsAre DEF Checked, CheckStep
  <2>4. at = 4 => accepted'["wheel"] = accepted["wheel"]
    BY <1>1, <2>2, <2>3, FilesAre
  <2> QED
    BY <1>0, <2>1, <2>2, <2>4 DEF Examined, PublishedIsParsed, Verifying
<1>6. CASE ParseSnapshot
  <2>1. at \in {3, 5}
    BY <1>0, <1>6, CheckStepsAre DEF ParseSnapshot, Checking, CheckStep
  <2>2. /\ at' = at + 1 /\ stage' = "check" /\ UNCHANGED <<accepted, listed, published>>
        /\ accepted[Checked] \in Valid
    BY <1>3, <1>6 DEF ParseSnapshot, checkVars
  <2>3. Checked = IF at = 3 THEN "wheel" ELSE "sdist"
    BY <2>1, CheckStepsAre DEF Checked, CheckStep
  <2> QED
    BY <1>0, <2>1, <2>2, <2>3 DEF Examined, PublishedIsParsed, Verifying
<1>7. CASE HashArchive
  <2>1. at \in {6, 8}
    BY <1>0, <1>7, CheckStepsAre DEF HashArchive, Checking, CheckStep
  <2>2. /\ at' = at + 1 /\ stage' = "check" /\ UNCHANGED <<accepted, published>>
        /\ listed' = [listed EXCEPT ![Checked] = files[Checked]]
        /\ files[Checked] = accepted[Checked]
    BY <1>3, <1>7 DEF HashArchive
  <2>3. Checked = IF at = 6 THEN "wheel" ELSE "sdist"
    BY <2>1, CheckStepsAre DEF Checked, CheckStep
  <2>4. listed'[Checked] = accepted'[Checked]
    BY <1>1, <2>2, <2>3, FilesAre
  <2>5. at = 8 => listed'["wheel"] = listed["wheel"]
    BY <1>1, <2>2, <2>3, FilesAre
  <2> QED
    BY <1>0, <2>1, <2>2, <2>3, <2>4, <2>5 DEF Examined, PublishedIsParsed, Verifying
<1>8. CASE CompareArchive
  <2>1. at \in {7, 9}
    BY <1>0, <1>8, CheckStepsAre DEF CompareArchive, Checking, CheckStep
  <2> QED
    BY <1>2, <1>3, <1>8, <2>1 DEF CompareArchive, checkVars
<1>9. CASE CreateSums \/ FillSums
  <2>1. at \in {10, 11}
    <3>1. Checking("create") \/ Checking("fill")
      BY <1>9 DEF CreateSums, FillSums
    <3> QED
      BY <1>0, <3>1, CheckStepsAre DEF Checking, CheckStep
  <2>2. stage' = "check" /\ UNCHANGED <<accepted, listed, published>>
    BY <1>3, <1>9 DEF CreateSums, FillSums, checkVars
  <2> QED
    BY <1>2, <2>1, <2>2
<1>10. CASE ExpandPatterns
  <2>1. at = 12
    BY <1>0, <1>10, CheckStepsAre DEF ExpandPatterns, Checking, CheckStep
  <2>2. stage' = "check" /\ UNCHANGED <<accepted, listed>> /\ DOMAIN published' = Present
    BY <1>3, <1>10 DEF ExpandPatterns
  <2> QED
    BY <1>2, <2>1, <2>2
<1>11. CASE CopyToPublish
  <2>1. at \in {13, 14}
    BY <1>0, <1>11, CheckStepsAre DEF CopyToPublish, Checking, CheckStep
  <2>2. /\ stage' = "check" /\ UNCHANGED <<accepted, listed>>
        /\ DOMAIN published' = DOMAIN published
    BY <1>3, <1>11 DEF CopyToPublish
  <2> QED
    BY <1>2, <2>1, <2>2
<1>12. CASE ConfirmPublished
  <2>1. at = 15
    BY <1>0, <1>12, CheckStepsAre DEF ConfirmPublished, Checking, CheckStep
  <2>2. /\ stage' = "done" /\ Confirms(files["sums"])
        /\ UNCHANGED <<files, accepted, listed, published>>
    BY <1>12 DEF ConfirmPublished, checkVars
  <2>3. ASSUME files["sums"] = listed
        PROVE  /\ \A a \in Artifacts : /\ a \in DOMAIN published
                                       /\ published[a] = accepted[a] /\ published[a] \in Valid
               /\ writes = 0 => DOMAIN published = Artifacts
    <3>1. \A a \in Artifacts : a \in DOMAIN published /\ published[a] = listed[a]
      BY <1>1, <2>2, <2>3 DEF Confirms
    <3>2. \A a \in Artifacts : listed[a] = accepted[a] /\ accepted[a] \in Valid
      BY <1>0, <2>1, FilesAre DEF Examined
    <3>3. writes = 0 => DOMAIN published \subseteq Artifacts
      BY <1>0 DEF Examined
    <3> QED
      BY <3>1, <3>2, <3>3
  <2> QED
    BY <1>0, <2>2, <2>3 DEF Examined, PublishedIsParsed, Verifying
<1> QED
  BY <1>4, <1>5, <1>6, <1>7, <1>8, <1>9, <1>10, <1>11, <1>12
     DEF CheckDistribution

\* Every step keeps what was found and what was published.
LEMMA NextExamined == Shape /\ Examined /\ [CandidateNext]_allVars => Examined'
<1> SUFFICES ASSUME Shape, Examined, [CandidateNext]_allVars PROVE Examined'
  OBVIOUS
<1>1. ASSUME UNCHANGED <<stage, at, files, extras, accepted, listed, published>>,
             writes' = writes \/ (stage # "done" /\ writes' = writes + 1)
      PROVE  Examined'
  BY <1>1 DEF Examined, PublishedIsParsed, Verifying
<1>2. ASSUME published' = NothingPublished, stage' # "check" \/ at' = 1, writes' = writes
      PROVE  Examined'
  <2>1. DOMAIN NothingPublished = {}
    BY DEF NothingPublished
  <2> QED
    BY <1>2, <2>1 DEF Examined, PublishedIsParsed
<1>3. CASE Prepare /\ UNCHANGED <<extras, checkVars, runs>>
  <2>1. published' = NothingPublished /\ writes' = writes
    BY <1>3, PrepareSteps DEF Examined, checkVars
  <2> QED
    BY <1>2, <1>3, <2>1, PrepareSteps DEF Begin
<1>4. CASE CheckDistribution /\ UNCHANGED extras
  BY <1>4, CheckExamines
<1>5. CASE Verifier /\ UNCHANGED <<extras, prepareVars, checkVars, runs>>
  <2>1. Verifying \/ stage \in {"create", "fill", "reread"}
    BY <1>5, LookSteps DEF Verifier, Conclude, CreateManifest, FillManifest, Reread
  <2>2. stage' # "check" /\ writes' = writes
    BY <1>5, LookSteps DEF Verifier, Conclude, CreateManifest, FillManifest, Reread, Refuse,
                           Begin, Verifying
  <2> QED
    BY <1>2, <1>5, <2>1, <2>2 DEF Examined, checkVars
<1>6. CASE (~Ended /\ Others) /\ UNCHANGED <<prepareVars, checkVars, runs>>
  <2>1. /\ UNCHANGED <<stage, at, accepted, listed, published>>
        /\ stage # "done" /\ writes' = writes + 1
    BY <1>6 DEF Others, Write, WriteOutput, WriteExtras, looking, checkVars, Ended
  <2> QED
    BY <2>1 DEF Examined, PublishedIsParsed, Verifying
<1>7. CASE (\E m \in Reviewed : Edit(m)) /\ UNCHANGED <<extras, checkVars, runs>>
  BY <1>1, <1>7 DEF Edit, looking, checkVars
<1>8. CASE Stop
  BY <1>2, <1>8 DEF Stop, Begin, Blank
<1>9. CASE \E command \in Commands : Run(command)
  BY <1>2, <1>9 DEF Run, Begin, Blank
<1>10. CASE UNCHANGED allVars
  BY <1>10 DEF allVars, vars, looking, checkVars, Examined, PublishedIsParsed, Verifying
<1> QED
  BY <1>3, <1>4, <1>5, <1>6, <1>7, <1>8, <1>9, <1>10 DEF CandidateNext
-----------------------------------------------------------------------------
(* Induction over the natural numbers *)

\* Every set of natural numbers that is not empty has a least one.
LEMMA LeastOf ==
    ASSUME NEW T, T \subseteq Nat, T # {}
    PROVE  \E n \in T : \A m \in T : n <= m
<1> DEFINE R == OpToRel(<, Nat)
<1>1. IsWellFoundedOn(R, Nat)
  BY NatLessThanWellFounded
<1>2. R = {p \in Nat \X Nat : p[1] < p[2]}
  BY DEF OpToRel
<1>3. \E x \in T : \A y \in T : ~(<<y, x>> \in R)
  <2> HIDE DEF R
  <2> QED
    BY <1>1, WFMin, Zenon
<1> HIDE DEF R
<1>4. PICK x \in T : \A y \in T : ~(<<y, x>> \in R)
  BY <1>3
<1>5. ASSUME NEW y \in T PROVE x <= y
  <2>1. x \in Nat /\ y \in Nat /\ <<y, x>> \notin R
    BY <1>4
  <2>2. ~(y < x)
    BY <1>2, <2>1
  <2> QED
    BY <2>1, <2>2
<1> QED
  BY <1>5

\* A set that has 0, and with a natural number the next, has them all.
LEMMA AllOf ==
    ASSUME NEW T, 0 \in T, \A n \in T : n \in Nat => n + 1 \in T
    PROVE  Nat \subseteq T
<1> DEFINE X == Nat \ T
<1> SUFFICES ASSUME X # {} PROVE FALSE
  OBVIOUS
<1>1. PICK n \in X : \A m \in X : n <= m
  <2>1. X \subseteq Nat
    OBVIOUS
  <2> HIDE DEF X
  <2> QED
    BY <2>1, LeastOf
<1>2. n # 0
  OBVIOUS
<1>3. n - 1 \in Nat /\ ~(n <= n - 1)
  BY <1>2
<1>4. n - 1 \in T
  BY <1>1, <1>3
<1>5. n - 1 + 1 = n
  OBVIOUS
<1>6. n \in T
  BY <1>3, <1>4, <1>5
<1> QED
  BY <1>6
-----------------------------------------------------------------------------
(* The traversal of the dependency manifest *)

IsSeen(seen, visit, names, visited) ==
    seen = [i \in 0..Len(names) |->
               IF i = 0 THEN visited ELSE visit[names[i]][seen[i - 1]]]

\* The names of a list can be visited one after the other.
LEMMA SeenExists ==
    ASSUME NEW visit, NEW names, Len(names) \in Nat, NEW visited
    PROVE  \E seen : IsSeen(seen, visit, names, visited)
<1> DEFINE Sees(f, k) == /\ f = [i \in 0..k |-> f[i]] /\ f[0] = visited
                         /\ \A i \in 1..k : f[i] = visit[names[i]][f[i - 1]]
           T == {k \in Nat : \E f : Sees(f, k)}
<1>1. 0 \in T
  <2>1. Sees([i \in 0..0 |-> visited], 0)
    OBVIOUS
  <2> HIDE DEF Sees
  <2> QED
    BY <2>1
<1>2. ASSUME NEW k \in Nat, NEW f, Sees(f, k) PROVE \E g : Sees(g, k + 1)
  <2> DEFINE g == [i \in 0..(k + 1) |-> IF i <= k THEN f[i] ELSE visit[names[k + 1]][f[k]]]
  <2>1. g = [i \in 0..(k + 1) |-> g[i]]
    OBVIOUS
  <2>2. g[0] = visited
    BY <1>2
  <2>3. ASSUME NEW i \in 1..(k + 1) PROVE g[i] = visit[names[i]][g[i - 1]]
    <3>1. CASE i = k + 1
      <4>1. g[i] = visit[names[k + 1]][f[k]] /\ g[i - 1] = f[k]
        BY <3>1
      <4> QED
        BY <3>1, <4>1
    <3>2. CASE i # k + 1
      <4>1. i \in 1..k /\ g[i] = f[i] /\ g[i - 1] = f[i - 1]
        BY <3>2
      <4> QED
        BY <1>2, <4>1
    <3> QED
      BY <3>1, <3>2
  <2> HIDE DEF g
  <2> QED
    BY <2>1, <2>2, <2>3
<1> HIDE DEF Sees
<1>3. Nat \subseteq T
  <2>1. \A k \in T : k \in Nat => k + 1 \in T
    BY <1>2
  <2> HIDE DEF T
  <2> QED
    BY <1>1, <2>1, AllOf
<1>4. PICK f : Sees(f, Len(names))
  BY <1>3
<1>5. /\ f = [i \in 0..Len(names) |-> f[i]] /\ f[0] = visited
      /\ \A i \in 1..Len(names) : f[i] = visit[names[i]][f[i - 1]]
  BY <1>4 DEF Sees
<1>6. \A i \in 0..Len(names) : f[i] = IF i = 0 THEN visited ELSE visit[names[i]][f[i - 1]]
  BY <1>5
<1>7. f = [i \in 0..Len(names) |-> IF i = 0 THEN visited ELSE visit[names[i]][f[i - 1]]]
  BY <1>5, <1>6
<1> QED
  BY <1>7 DEF IsSeen

\* The steps of visiting the names of a list.
LEMMA VisitEachSteps ==
    ASSUME NEW visit, NEW names, Len(names) \in Nat, NEW visited
    PROVE  \E seen : /\ seen[0] = visited
                     /\ VisitEach(visit, names, visited) = seen[Len(names)]
                     /\ \A i \in 1..Len(names) : seen[i] = visit[names[i]][seen[i - 1]]
<1> DEFINE seen == CHOOSE f : IsSeen(f, visit, names, visited)
<1>1. IsSeen(seen, visit, names, visited)
  BY SeenExists
<1>2. VisitEach(visit, names, visited) = seen[Len(names)]
  BY DEF VisitEach, IsSeen
<1> HIDE DEF seen
<1>3. \A i \in 0..Len(names) :
         seen[i] = IF i = 0 THEN visited ELSE visit[names[i]][seen[i - 1]]
  BY <1>1 DEF IsSeen
<1>4. seen[0] = visited /\ \A i \in 1..Len(names) : seen[i] = visit[names[i]][seen[i - 1]]
  BY <1>3
<1> QED
  BY <1>2, <1>4

\* What a visit makes of visited, given the visits from within it.
VisitOf(m, active, name, visited, within) ==
    IF name \in active THEN visited \cup {Cyclic}
    ELSE IF name \in visited THEN visited
    ELSE IF name \notin NamesOf(m.parts) THEN visited \cup {Cyclic}
    ELSE VisitEach(within, Component(m.parts, name).depends, visited) \cup {name}

\* The visits with the given path active, from those with longer paths.
VisitsWith(m, active, visit) ==
    [name \in Mentioned(m) |-> [visited \in SUBSET (Mentioned(m) \cup {Cyclic}) |->
        VisitOf(m, active, name, visited, visit[active \cup {name}])]]

IsVisit(visit, m) ==
    visit = [active \in SUBSET Mentioned(m) |-> VisitsWith(m, active, visit)]

\* Visits depend on those with longer paths alone.
LEMMA SameVisitsWith ==
    ASSUME NEW m, NEW active, NEW f, NEW g,
           \A name \in Mentioned(m) : name \notin active =>
               f[active \cup {name}] = g[active \cup {name}]
    PROVE  VisitsWith(m, active, f) = VisitsWith(m, active, g)
<1> DEFINE V == SUBSET (Mentioned(m) \cup {Cyclic})
           A(name) == [visited \in V |->
                          VisitOf(m, active, name, visited, f[active \cup {name}])]
           B(name) == [visited \in V |->
                          VisitOf(m, active, name, visited, g[active \cup {name}])]
<1>1. ASSUME NEW name \in Mentioned(m) PROVE A(name) = B(name)
  <2>1. CASE name \notin active
    <3>1. f[active \cup {name}] = g[active \cup {name}]
      BY <2>1
    <3> QED
      BY <3>1
  <2>2. CASE name \in active
    <3>1. \A visited \in V : VisitOf(m, active, name, visited, f[active \cup {name}])
                               = VisitOf(m, active, name, visited, g[active \cup {name}])
      BY <2>2 DEF VisitOf
    <3> HIDE DEF V
    <3> QED
      BY <3>1
  <2> QED
    BY <2>1, <2>2
<1>2. /\ VisitsWith(m, active, f) = [name \in Mentioned(m) |-> A(name)]
      /\ VisitsWith(m, active, g) = [name \in Mentioned(m) |-> B(name)]
  BY DEF VisitsWith
<1> HIDE DEF A, B
<1>3. [name \in Mentioned(m) |-> A(name)] = [name \in Mentioned(m) |-> B(name)]
  BY <1>1
<1> QED
  BY <1>2, <1>3

\* A path through finitely many names has fewer of them off it when it is longer.
LEMMA FewerOff ==
    ASSUME NEW M, IsFiniteSet(M), NEW active \in SUBSET M, NEW name \in M, name \notin active
    PROVE  /\ Cardinality(M \ active) \in Nat
           /\ Cardinality(M \ (active \cup {name})) = Cardinality(M \ active) - 1
<1>1. IsFiniteSet(M \ active) /\ name \in M \ active
  BY FS_Subset
<1>2. M \ (active \cup {name}) = (M \ active) \ {name}
  OBVIOUS
<1>3. /\ Cardinality((M \ active) \ {name}) = Cardinality(M \ active) - 1
      /\ Cardinality(M \ active) \in Nat
  <2> DEFINE S == M \ active
  <2> HIDE DEF S
  <2> QED
    BY <1>1, FS_RemoveElement, FS_CardinalityType DEF S
<1> QED
  BY <1>2, <1>3

\* The traversal ends: every visit is determined by those from a longer path,
\* and no path is longer than there are names.
LEMMA VisitExists ==
    ASSUME NEW m, IsFiniteSet(Mentioned(m))
    PROVE  \E visit : IsVisit(visit, m)
<1> DEFINE M == Mentioned(m)
           Off(active) == Cardinality(M \ active)
           Solves(f, k) == \A active \in SUBSET M :
                               Off(active) < k => f[active] = VisitsWith(m, active, f)
           T == {k \in Nat : \E f : Solves(f, k)}
<1>0. \A active \in SUBSET M : Off(active) \in Nat
  <2>1. \A active \in SUBSET M : IsFiniteSet(M \ active)
    BY FS_Subset
  <2> QED
    BY <2>1, FS_CardinalityType
<1>a. \A active \in SUBSET M : \A name \in M : name \notin active =>
          Off(active \cup {name}) = Off(active) - 1
  BY FewerOff
<1> HIDE DEF Off
<1>1. 0 \in T
  <2>1. \A f : Solves(f, 0)
    BY <1>0
  <2> QED
    BY <2>1
<1>2. ASSUME NEW k \in Nat, NEW f, Solves(f, k) PROVE \E g : Solves(g, k + 1)
  <2> DEFINE g == [active \in SUBSET M |-> IF Off(active) < k THEN f[active]
                                           ELSE VisitsWith(m, active, f)]
  <2>1. ASSUME NEW active \in SUBSET M, Off(active) < k + 1
        PROVE  g[active] = VisitsWith(m, active, g)
    <3>1. g[active] = VisitsWith(m, active, f)
      BY <1>2
    <3>2. ASSUME NEW name \in M, name \notin active
          PROVE  f[active \cup {name}] = g[active \cup {name}]
      <4>1. active \cup {name} \in SUBSET M /\ Off(active \cup {name}) < k
        BY <1>0, <1>a, <2>1, <3>2
      <4> QED
        BY <4>1
    <3> HIDE DEF g
    <3>3. VisitsWith(m, active, f) = VisitsWith(m, active, g)
      BY <3>2, SameVisitsWith
    <3> QED
      BY <3>1, <3>3
  <2> HIDE DEF g
  <2> QED
    BY <2>1
<1> HIDE DEF Solves
<1>3. Nat \subseteq T
  <2>1. \A k \in T : k \in Nat => k + 1 \in T
    BY <1>2
  <2> HIDE DEF T
  <2> QED
    BY <1>1, <2>1, AllOf
<1>4. Off({}) \in Nat /\ \A active \in SUBSET M : Off(active) < Off({}) + 1
  <2>1. M \ {} = M
    OBVIOUS
  <2>2. ASSUME NEW active \in SUBSET M PROVE Off(active) <= Off({})
    BY <2>1, FS_Subset DEF Off
  <2>3. {} \in SUBSET M
    OBVIOUS
  <2> QED
    BY <1>0, <2>2, <2>3
<1>5. PICK f : Solves(f, Off({}) + 1)
  BY <1>3, <1>4
<1> DEFINE visit == [active \in SUBSET M |-> f[active]]
<1>6. ASSUME NEW active \in SUBSET M PROVE visit[active] = VisitsWith(m, active, visit)
  <2>1. f[active] = VisitsWith(m, active, f)
    BY <1>4, <1>5 DEF Solves
  <2>2. \A name \in M : visit[active \cup {name}] = f[active \cup {name}]
    OBVIOUS
  <2>3. visit[active] = f[active]
    OBVIOUS
  <2> HIDE DEF visit
  <2>4. VisitsWith(m, active, f) = VisitsWith(m, active, visit)
    BY <2>2, SameVisitsWith
  <2> QED
    BY <2>1, <2>3, <2>4
<1>7. visit = [active \in SUBSET M |-> visit[active]]
  OBVIOUS
<1> HIDE DEF visit
<1>8. visit = [active \in SUBSET M |-> VisitsWith(m, active, visit)]
  BY <1>6, <1>7
<1> QED
  BY <1>8 DEF IsVisit
-----------------------------------------------------------------------------
(* What the traversal finds *)

DependsIn(m, name) == Range(Component(m.parts, name).depends)

\* The names are of packages, their dependencies are among them, and of any of
\* them one depends on none of the others.
Orderly(m, names) ==
    /\ names \subseteq NamesOf(m.parts)
    /\ \A n \in names : DependsIn(m, n) \subseteq names
    /\ \A set \in SUBSET names : set # {} => \E n \in set : DependsIn(m, n) \cap set = {}

\* What visits to some names make of visited, unless they raise: all of them are
\* visited, in order, and nothing that they do not lead to.
Sound(m, former, names, after) ==
    /\ after \in SUBSET (Mentioned(m) \cup {Cyclic})
    /\ former \subseteq after
    /\ Cyclic \notin after =>
           /\ names \subseteq after
           /\ Orderly(m, former) => Orderly(m, after)
           /\ \A set \in SUBSET NamesOf(m.parts) :
                  /\ former \subseteq set /\ names \subseteq set
                  /\ \A n \in set : DependsIn(m, n) \subseteq set
                  => after \subseteq set

\* Visits after visits.
LEMMA SoundTwice ==
    ASSUME NEW m, NEW a, NEW b, NEW c, NEW X, NEW Y,
           Sound(m, a, X, b), Sound(m, b, Y, c)
    PROVE  Sound(m, a, X \cup Y, c)
<1>1. /\ a \subseteq b /\ b \subseteq c /\ c \in SUBSET (Mentioned(m) \cup {Cyclic})
      /\ Cyclic \notin c => Cyclic \notin b
  BY DEF Sound
<1>2. ASSUME Cyclic \notin c
      PROVE  /\ X \cup Y \subseteq c
             /\ Orderly(m, a) => Orderly(m, c)
  BY <1>1, <1>2 DEF Sound
<1>3. ASSUME Cyclic \notin c, NEW set \in SUBSET NamesOf(m.parts),
             a \subseteq set, X \cup Y \subseteq set,
             \A n \in set : DependsIn(m, n) \subseteq set
      PROVE  c \subseteq set
  <2>1. b \subseteq set
    BY <1>1, <1>3 DEF Sound
  <2> QED
    BY <1>3, <2>1 DEF Sound
<1> QED
  BY <1>1, <1>2, <1>3 DEF Sound

\* No visit changes nothing.
LEMMA SoundNone ==
    ASSUME NEW m, NEW a \in SUBSET (Mentioned(m) \cup {Cyclic})
    PROVE  Sound(m, a, {}, a)
  BY DEF Sound

\* If each visit is sound, so are those to the names of a list.
LEMMA EachSound ==
    ASSUME NEW m, NEW visit, NEW names, names \in Seq(Range(names)),
           Range(names) \subseteq Mentioned(m),
           NEW visited \in SUBSET (Mentioned(m) \cup {Cyclic}),
           \A n \in Mentioned(m), v \in SUBSET (Mentioned(m) \cup {Cyclic}) :
               Sound(m, v, {n}, visit[n][v])
    PROVE  Sound(m, visited, Range(names), VisitEach(visit, names, visited))
<1>0. Len(names) \in Nat /\ \A i \in 1..Len(names) : names[i] \in Range(names)
  OBVIOUS
<1>1. PICK seen : /\ seen[0] = visited
                  /\ VisitEach(visit, names, visited) = seen[Len(names)]
                  /\ \A i \in 1..Len(names) : seen[i] = visit[names[i]][seen[i - 1]]
  BY <1>0, VisitEachSteps
<1> DEFINE First(k) == {names[i] : i \in 1..k}
           T == {k \in Nat : k <= Len(names) => Sound(m, visited, First(k), seen[k])}
<1>2. 0 \in T
  <2>1. First(0) = {}
    OBVIOUS
  <2> QED
    BY <1>1, <2>1, SoundNone
<1>3. ASSUME NEW k \in Nat, k \in T PROVE k + 1 \in T
  <2> SUFFICES ASSUME k + 1 <= Len(names) PROVE Sound(m, visited, First(k + 1), seen[k + 1])
    OBVIOUS
  <2>1. Sound(m, visited, First(k), seen[k])
    BY <1>0, <1>3
  <2>2. k + 1 \in 1..Len(names) /\ k + 1 - 1 = k
    BY <1>0
  <2>3. seen[k + 1] = visit[names[k + 1]][seen[k]]
    BY <1>1, <2>2
  <2>4. Sound(m, seen[k], {names[k + 1]}, seen[k + 1])
    <3>1. seen[k] \in SUBSET (Mentioned(m) \cup {Cyclic}) /\ names[k + 1] \in Mentioned(m)
      BY <1>0, <2>1, <2>2 DEF Sound
    <3> QED
      BY <2>3, <3>1
  <2>5. First(k + 1) = First(k) \cup {names[k + 1]}
    OBVIOUS
  <2> HIDE DEF First
  <2> QED
    BY <2>1, <2>4, <2>5, SoundTwice
<1>4. Nat \subseteq T
  <2> HIDE DEF T
  <2> QED
    BY <1>2, <1>3, AllOf
<1>5. First(Len(names)) = Range(names)
  BY <1>0 DEF Range
<1>6. Sound(m, visited, First(Len(names)), seen[Len(names)])
  <2>1. Len(names) \in T
    <3> HIDE DEF T
    <3> QED
      BY <1>0, <1>4
  <2> HIDE DEF First
  <2> QED
    BY <1>0, <2>1
<1> QED
  BY <1>1, <1>5, <1>6

\* A package of the manifest is one of its components.
LEMMA ComponentIs ==
    ASSUME NEW m, IsManifest(m), NEW name \in NamesOf(m.parts)
    PROVE  /\ \E i \in DOMAIN m.parts : Component(m.parts, name) = m.parts[i]
                                        /\ m.parts[i].name = name
           /\ Component(m.parts, name).depends \in Seq(DependsIn(m, name))
           /\ DependsIn(m, name) \subseteq Mentioned(m)
<1>1. \E i \in DOMAIN m.parts : m.parts[i].name = name
  BY DEF NamesOf
<1>2. PICK i \in DOMAIN m.parts : Component(m.parts, name) = m.parts[i] /\ m.parts[i].name = name
  BY <1>1 DEF Component
<1>3. m.parts[i].depends \in Seq(Range(m.parts[i].depends))
  BY DEF IsManifest
<1>4. Range(m.parts[i].depends) \subseteq Mentioned(m)
  BY DEF Mentioned
<1> QED
  BY <1>2, <1>3, <1>4 DEF DependsIn

\* A package is added after its dependencies: the order is kept.
LEMMA OrderlyAdd ==
    ASSUME NEW m, NEW names, NEW name \in NamesOf(m.parts),
           Orderly(m, names), DependsIn(m, name) \subseteq names
    PROVE  Orderly(m, names \cup {name})
<1> SUFFICES ASSUME name \notin names PROVE Orderly(m, names \cup {name})
  <2>1. name \in names => names \cup {name} = names
    OBVIOUS
  <2> QED
    BY <2>1
<1>1. ASSUME NEW n \in names \cup {name} PROVE DependsIn(m, n) \subseteq names
  BY <1>1 DEF Orderly
<1>2. ASSUME NEW set \in SUBSET (names \cup {name}), set # {}
      PROVE  \E n \in set : DependsIn(m, n) \cap set = {}
  <2>1. CASE set \cap names = {}
    BY <1>1, <1>2, <2>1
  <2>2. CASE set \cap names # {}
    <3>1. PICK n \in set \cap names : DependsIn(m, n) \cap (set \cap names) = {}
      BY <2>2 DEF Orderly
    <3>2. DependsIn(m, n) \cap set = {}
      BY <1>1, <3>1
    <3> QED
      BY <3>1, <3>2
  <2> QED
    BY <2>1, <2>2
<1>3. names \cup {name} \subseteq NamesOf(m.parts)
  BY DEF Orderly
<1> QED
  BY <1>1, <1>2, <1>3 DEF Orderly

\* If the visits from longer paths are sound, so is one with this path active.
LEMMA OneSound ==
    ASSUME NEW m, IsManifest(m), NEW active, NEW within,
           NEW name \in Mentioned(m), NEW visited \in SUBSET (Mentioned(m) \cup {Cyclic}),
           name \notin active =>
               \A n \in Mentioned(m), v \in SUBSET (Mentioned(m) \cup {Cyclic}) :
                   Sound(m, v, {n}, within[n][v])
    PROVE  Sound(m, visited, {name}, VisitOf(m, active, name, visited, within))
<1>1. CASE name \in active \/ (name \notin visited /\ name \notin NamesOf(m.parts))
  BY <1>1 DEF VisitOf, Sound
<1>2. CASE name \notin active /\ name \in visited
  <2>1. VisitOf(m, active, name, visited, within) = visited
    BY <1>2 DEF VisitOf
  <2> QED
    BY <1>2, <2>1 DEF Sound
<1>3. CASE name \notin active /\ name \notin visited /\ name \in NamesOf(m.parts)
  <2> DEFINE depends == Component(m.parts, name).depends
             seen == VisitEach(within, depends, visited)
  <2>1. /\ depends \in Seq(Range(depends)) /\ Range(depends) \subseteq Mentioned(m)
        /\ Range(depends) = DependsIn(m, name)
    BY <1>3, ComponentIs DEF DependsIn
  <2>2. Sound(m, visited, DependsIn(m, name), seen)
    <3> HIDE DEF depends
    <3> QED
      BY <1>3, <2>1, EachSound
  <2>3. VisitOf(m, active, name, visited, within) = seen \cup {name}
    BY <1>3 DEF VisitOf
  <2> HIDE DEF depends, seen
  <2>4. Sound(m, visited, {name}, seen \cup {name})
    <3>1. seen \in SUBSET (Mentioned(m) \cup {Cyclic}) /\ visited \subseteq seen
      BY <2>2 DEF Sound
    <3>2. ASSUME Cyclic \notin seen \cup {name}, Orderly(m, visited)
          PROVE  Orderly(m, seen \cup {name})
      <4>1. Orderly(m, seen) /\ DependsIn(m, name) \subseteq seen
        BY <2>2, <3>2 DEF Sound
      <4> QED
        BY <1>3, <4>1, OrderlyAdd
    <3>3. ASSUME Cyclic \notin seen \cup {name}, NEW set \in SUBSET NamesOf(m.parts),
                 visited \subseteq set, name \in set,
                 \A n \in set : DependsIn(m, n) \subseteq set
          PROVE  seen \cup {name} \subseteq set
      <4>1. DependsIn(m, name) \subseteq set
        BY <3>3
      <4>2. seen \subseteq set
        BY <2>2, <3>3, <4>1 DEF Sound
      <4> QED
        BY <3>3, <4>2
    <3> QED
      BY <3>1, <3>2, <3>3 DEF Sound
  <2> QED
    BY <2>3, <2>4
<1> QED
  BY <1>1, <1>2, <1>3

\* Every visit is sound.
LEMMA VisitSound ==
    ASSUME NEW m, IsManifest(m), IsFiniteSet(Mentioned(m)), NEW visit, IsVisit(visit, m),
           NEW name \in Mentioned(m), NEW visited \in SUBSET (Mentioned(m) \cup {Cyclic})
    PROVE  Sound(m, visited, {name}, visit[{}][name][visited])
<1> DEFINE M == Mentioned(m)
           V == SUBSET (M \cup {Cyclic})
           Off(active) == Cardinality(M \ active)
           Good(active) == \A n \in M, v \in V : Sound(m, v, {n}, visit[active][n][v])
           T == {k \in Nat : \A active \in SUBSET M : Off(active) < k => Good(active)}
<1>0. \A active \in SUBSET M : Off(active) \in Nat
  <2>1. \A active \in SUBSET M : IsFiniteSet(M \ active)
    BY FS_Subset
  <2> QED
    BY <2>1, FS_CardinalityType
<1>1. \A active \in SUBSET M : \A n \in M : n \notin active =>
          Off(active \cup {n}) = Off(active) - 1
  BY FewerOff
<1>2. ASSUME NEW active \in SUBSET M, NEW n \in M, NEW v \in V
      PROVE  visit[active][n][v] = VisitOf(m, active, n, v, visit[active \cup {n}])
  <2>1. visit[active] = VisitsWith(m, active, visit)
    BY DEF IsVisit
  <2> QED
    BY <2>1 DEF VisitsWith
<1> HIDE DEF Off
<1>3. 0 \in T
  BY <1>0
<1>4. ASSUME NEW k \in Nat, k \in T PROVE k + 1 \in T
  <2>1. ASSUME NEW active \in SUBSET M, Off(active) < k + 1 PROVE Good(active)
    <3>1. ASSUME NEW n \in M, n \notin active PROVE Good(active \cup {n})
      <4>1. active \cup {n} \in SUBSET M /\ Off(active \cup {n}) < k
        BY <1>0, <1>1, <2>1, <3>1
      <4> HIDE DEF Good
      <4> QED
        BY <1>4, <4>1
    <3>2. ASSUME NEW n \in M, NEW v \in V PROVE Sound(m, v, {n}, visit[active][n][v])
      <4>1. Sound(m, v, {n}, VisitOf(m, active, n, v, visit[active \cup {n}]))
        BY <3>1, OneSound
      <4> QED
        BY <1>2, <4>1
    <3> QED
      BY <3>2
  <2> HIDE DEF Good
  <2> QED
    BY <2>1
<1>5. Nat \subseteq T
  <2> HIDE DEF T
  <2> QED
    BY <1>3, <1>4, AllOf
<1>6. Good({})
  <2>1. {} \in SUBSET M /\ Off({}) \in Nat
    BY <1>0
  <2>2. Off({}) + 1 \in T /\ Off({}) < Off({}) + 1
    <3> HIDE DEF T
    <3> QED
      BY <1>5, <2>1
  <2> HIDE DEF Good
  <2> QED
    BY <2>1, <2>2
<1> QED
  BY <1>6

\* What a list has is finite.
LEMMA RangeFinite ==
    ASSUME NEW n \in Nat, NEW f
    PROVE  /\ IsFiniteSet(1..n) /\ Cardinality(1..n) = n
           /\ IsFiniteSet({f[i] : i \in 1..n})
           /\ Cardinality({f[i] : i \in 1..n}) = n =>
                  \A i, j \in 1..n : f[i] = f[j] => i = j
<1> DEFINE S == 1..n
           T == {f[i] : i \in 1..n}
           g == [i \in S |-> f[i]]
<1>1. IsFiniteSet(S) /\ Cardinality(S) = n
  BY FS_Interval
<1>2. g \in Surjection(S, T)
  BY DEF Surjection
<1>3. \A i \in 1..n : g[i] = f[i]
  OBVIOUS
<1>a. S = 1..n
  OBVIOUS
<1> HIDE DEF S, T, g
<1>4. IsFiniteSet(T) /\ (Cardinality(T) = Cardinality(S) => g \in Injection(S, T))
  BY <1>1, <1>2, FS_Surjection
<1>5. Cardinality(T) = n => \A i, j \in 1..n : f[i] = f[j] => i = j
  BY <1>1, <1>3, <1>4, <1>a DEF Injection, IsInjective
<1> QED
  BY <1>1, <1>4, <1>5 DEF S, T

\* A manifest mentions finitely many names.
LEMMA MentionedFinite ==
    ASSUME NEW m, IsManifest(m)
    PROVE  IsFiniteSet(Mentioned(m))
<1>1. ASSUME NEW list, list \in Seq(Range(list)) PROVE IsFiniteSet(Range(list))
  <2>1. DOMAIN list = 1..Len(list) /\ Len(list) \in Nat
    BY <1>1
  <2>2. Range(list) = {list[i] : i \in 1..Len(list)}
    BY <2>1 DEF Range
  <2> QED
    BY <2>1, <2>2, RangeFinite
<1>2. DOMAIN m.parts = 1..Len(m.parts) /\ Len(m.parts) \in Nat
  BY DEF IsManifest
<1> DEFINE name == [i \in 1..Len(m.parts) |-> m.parts[i].name]
           depends == [i \in 1..Len(m.parts) |-> Range(m.parts[i].depends)]
           D == {depends[i] : i \in 1..Len(m.parts)}
<1>4. IsFiniteSet(NamesOf(m.parts))
  <2>1. NamesOf(m.parts) = {name[i] : i \in 1..Len(m.parts)}
    BY <1>2 DEF NamesOf
  <2> HIDE DEF name
  <2> QED
    BY <1>2, <2>1, RangeFinite
<1>5. \A d \in D : IsFiniteSet(d)
  BY <1>1, <1>2 DEF IsManifest
<1>6. IsFiniteSet(Range(m.roots))
  BY <1>1 DEF IsManifest
<1>7. Mentioned(m) = (NamesOf(m.parts) \cup Range(m.roots)) \cup UNION D
  BY <1>2 DEF Mentioned
<1>3. IsFiniteSet(D)
  <2>1. D = {depends[i] : i \in 1..Len(m.parts)}
    OBVIOUS
  <2> HIDE DEF depends, D
  <2> QED
    BY <1>2, <2>1, RangeFinite
<1> HIDE DEF D
<1>8. IsFiniteSet(UNION D)
  BY <1>3, <1>5, FS_UNION
<1>9. IsFiniteSet(NamesOf(m.parts) \cup Range(m.roots))
  BY <1>4, <1>6, FS_Union
<1> QED
  BY <1>7, <1>8, <1>9, FS_Union

\* What the traversal reaches is what the roots lead to.
LEMMA ReachableSound ==
    ASSUME NEW m, IsManifest(m)
    PROVE  Sound(m, {}, Range(m.roots), Reachable(m))
<1> DEFINE visit == CHOOSE f : IsVisit(f, m)
<1>1. IsFiniteSet(Mentioned(m)) /\ IsVisit(visit, m)
  BY MentionedFinite, VisitExists
<1>2. Reachable(m) = VisitEach(visit[{}], m.roots, {})
  BY DEF Reachable, IsVisit, VisitsWith, VisitOf
<1>3. m.roots \in Seq(Range(m.roots)) /\ Range(m.roots) \subseteq Mentioned(m)
  BY DEF IsManifest, Mentioned
<1> HIDE DEF visit
<1>4. \A n \in Mentioned(m), v \in SUBSET (Mentioned(m) \cup {Cyclic}) :
          Sound(m, v, {n}, visit[{}][n][v])
  BY <1>1, VisitSound
<1> QED
  BY <1>2, <1>3, <1>4, EachSound

\* A package is one component.
LEMMA PartsDiffer ==
    ASSUME NEW m, IsManifest(m), Cardinality(NamesOf(m.parts)) = Len(m.parts)
    PROVE  \A i, j \in DOMAIN m.parts : m.parts[i].name = m.parts[j].name => i = j
<1>1. DOMAIN m.parts = 1..Len(m.parts) /\ Len(m.parts) \in Nat
  BY DEF IsManifest
<1> DEFINE name == [i \in 1..Len(m.parts) |-> m.parts[i].name]
<1>2. NamesOf(m.parts) = {name[i] : i \in 1..Len(m.parts)}
  BY <1>1 DEF NamesOf
<1>3. \A i \in 1..Len(m.parts) : name[i] = m.parts[i].name
  OBVIOUS
<1> HIDE DEF name
<1>4. \A i, j \in 1..Len(m.parts) : name[i] = name[j] => i = j
  BY <1>1, <1>2, RangeFinite
<1> QED
  BY <1>1, <1>3, <1>4

\* The graph of a description has the names and the dependencies of its manifest.
LEMMA GraphIs ==
    ASSUME NEW m, IsManifest(m), Cardinality(NamesOf(m.parts)) = Len(m.parts)
    PROVE  /\ {p.name : p \in Graph(m).parts} = NamesOf(m.parts)
           /\ \A n \in NamesOf(m.parts) : DependsOf(Graph(m), n) = DependsIn(m, n)
<1> DEFINE part == [i \in DOMAIN m.parts |->
                       [name |-> m.parts[i].name, pin |-> m.parts[i].pin,
                        depends |-> Range(m.parts[i].depends)]]
<1>1. Graph(m).parts = {part[i] : i \in DOMAIN m.parts}
  BY DEF Graph
<1>2. \A i \in DOMAIN m.parts : part[i].name = m.parts[i].name
                                /\ part[i].depends = Range(m.parts[i].depends)
  OBVIOUS
<1> HIDE DEF part
<1>3. {p.name : p \in Graph(m).parts} = NamesOf(m.parts)
  BY <1>1, <1>2 DEF NamesOf
<1>4. ASSUME NEW n \in NamesOf(m.parts) PROVE DependsOf(Graph(m), n) = DependsIn(m, n)
  <2>1. PICK i \in DOMAIN m.parts : Component(m.parts, n) = m.parts[i] /\ m.parts[i].name = n
    BY ComponentIs
  <2>2. {q \in Graph(m).parts : q.name = n} = {part[i]}
    BY <1>1, <1>2, <2>1, PartsDiffer
  <2>3. DependsOf(Graph(m), n) = part[i].depends
    BY <2>2 DEF DependsOf
  <2> QED
    BY <1>2, <2>1, <2>3 DEF DependsIn
<1> QED
  BY <1>3, <1>4

\* The packages of a manifest that _load_manifest accepts are those that its
\* roots lead to, and their dependencies have no cycle.
LEMMA LoadsOrderly ==
    ASSUME NEW m, IsManifest(m), Loads(m)
    PROVE  IsClosure(Graph(m)) /\ IsAcyclic(Graph(m)) /\ Graph(m).roots = Range(m.roots)
<1> DEFINE names == NamesOf(m.parts)
<1>1. names = Reachable(m) /\ Cardinality(names) = Len(m.parts)
  BY DEF Loads
<1>2. Cyclic \notin names
  BY DEF IsManifest, Mentioned
<1>3. /\ Sound(m, {}, Range(m.roots), names)
      /\ Orderly(m, {})
  BY <1>1, ReachableSound DEF Orderly
<1>4. Graph(m).roots = Range(m.roots)
  BY DEF Graph
<1>5. /\ {p.name : p \in Graph(m).parts} = names
      /\ \A n \in names : DependsOf(Graph(m), n) = DependsIn(m, n)
  BY <1>1, GraphIs
<1>6. /\ Range(m.roots) \subseteq names
      /\ Orderly(m, names)
      /\ \A set \in SUBSET names :
             /\ Range(m.roots) \subseteq set
             /\ \A n \in set : DependsIn(m, n) \subseteq set
             => names \subseteq set
  BY <1>2, <1>3 DEF Sound
<1> HIDE DEF names
<1>7. IsClosure(Graph(m))
  <2>1. /\ Graph(m).roots \subseteq names
        /\ \A n \in names : DependsOf(Graph(m), n) \subseteq names
    BY <1>4, <1>5, <1>6 DEF Orderly
  <2>2. ASSUME NEW set \in SUBSET names, Graph(m).roots \subseteq set,
               \A n \in set : DependsOf(Graph(m), n) \subseteq set
        PROVE  set = names
    <3>1. \A n \in set : DependsIn(m, n) \subseteq set
      BY <1>5, <2>2
    <3>2. Range(m.roots) \subseteq set
      BY <1>4, <2>2
    <3>3. names \subseteq set
      BY <1>6, <3>1, <3>2
    <3> QED
      BY <3>3
  <2> QED
    BY <1>5, <2>1, <2>2 DEF IsClosure
<1>8. IsAcyclic(Graph(m))
  <2>1. \A set \in SUBSET names :
            set # {} => \E n \in set : DependsIn(m, n) \cap set = {}
    BY <1>6 DEF Orderly
  <2>2. \A set \in SUBSET names :
            set # {} => \E n \in set : DependsOf(Graph(m), n) \cap set = {}
    BY <1>5, <2>1
  <2> QED
    BY <1>5, <2>2 DEF IsAcyclic
<1> QED
  BY <1>4, <1>7, <1>8

\* What an SBOM says of an archive that a lock-bound manifest describes.
LEMMA SbomIsLockBound ==
    ASSUME NEW m, IsManifest(m), NEW archive, LockBound(m), Describes(m, archive),
           NEW graph, graph = Sbom(m, archive).graph
    PROVE  /\ graph.roots = RequiredNames(Declares[archive])
           /\ IsClosure(graph) /\ IsAcyclic(graph)
           /\ \A p \in graph.parts : p.name \in DOMAIN Lock /\ p.pin = Lock[p.name]
<1>1. graph = Graph(m) /\ Loads(m)
  BY DEF Sbom, LockBound
<1>2. IsClosure(graph) /\ IsAcyclic(graph) /\ graph.roots = Range(m.roots)
  BY <1>1, LoadsOrderly
<1>3. graph.roots = RequiredNames(Declares[archive])
  BY <1>2 DEF Describes, NamesMatch
<1>4. \A p \in Graph(m).parts : p.name \in DOMAIN Lock /\ p.pin = Lock[p.name]
  BY DEF Graph, LockBound
<1> QED
  BY <1>1, <1>2, <1>3, <1>4
-----------------------------------------------------------------------------
(* What an SBOM says *)

\* While no one edits the manifest, what it was when it was checked against the
\* lock is what the SBOMs describe the archives from.
Described ==
    ~edited =>
        /\ stage = "prepare" => /\ reviewed \in Reviewed
                                /\ at > 4 => LockBound(reviewed)
                                /\ at <= 5 => intended["wheelSbom"] = Unseen
                                /\ at <= 7 => intended["sdistSbom"] = Unseen
        /\ \A a \in Artifacts : intended[SbomOf[a]] # Unseen =>
               /\ reviewed \in Reviewed /\ LockBound(reviewed)
               /\ Describes(reviewed, copied[a])
               /\ intended[SbomOf[a]] = Sbom(reviewed, copied[a])

\* Only a described archive gets an SBOM, and only a checked manifest describes it.
LEMMA PrepareDescribes ==
    ASSUME Shape, Described, Prepare, UNCHANGED inputs
    PROVE  Described'
<1> SUFFICES ASSUME ~edited PROVE Described'
  BY DEF Described, inputs
<1>0. /\ stage = "prepare" /\ at \in 1..17 /\ UNCHANGED <<reviewed, edited>>
      /\ stage' = "prepare" => at' = at + 1
  <2>1. /\ stage = "prepare"
        /\ stage' = "prepare" => at' = at + 1
    BY PrepareSteps DEF Begin
  <2> QED
    BY <2>1 DEF Shape, inputs
<1>1. DOMAIN intended = Files
  BY DEF Shape, Over
<1>2. /\ reviewed \in Reviewed
      /\ at > 4 => LockBound(reviewed)
      /\ at <= 5 => intended["wheelSbom"] = Unseen
      /\ at <= 7 => intended["sdistSbom"] = Unseen
  BY <1>0 DEF Described
<1>3. ASSUME at \notin {4, 5, 7}, UNCHANGED copied,
             \A f \in Sboms : intended'[f] = intended[f]
      PROVE  Described'
  BY <1>0, <1>3, FilesAre DEF Described
<1>4. CASE RefuseStep
  <2>1. stage' = "refused" /\ UNCHANGED <<copied, intended>>
    BY <1>4 DEF RefuseStep, Refuse
  <2> QED
    BY <1>0, <2>1 DEF Described
<1>5. CASE ~RefuseStep /\ (Select \/ Copy)
  <2>1. at \in {1, 2, 3}
    BY <1>0, <1>5, StepsAre DEF Select, Copy, Doing, Step
  <2>2. intended' = intended
    BY <1>5 DEF Select, Copy
  <2>3. \A a \in Artifacts : intended'[SbomOf[a]] = Unseen
    BY <1>2, <2>1, <2>2, FilesAre
  <2> QED
    BY <1>0, <1>2, <2>1, <2>2, <2>3 DEF Described
<1>6. CASE ~RefuseStep /\ LockCheck
  <2>1. at \in {4, 6}
    BY <1>0, <1>6, StepsAre DEF LockCheck, Doing, Step
  <2>2. LockBound(reviewed) /\ UNCHANGED <<copied, intended>>
    BY <1>6 DEF LockCheck
  <2> QED
    BY <1>0, <1>2, <2>1, <2>2 DEF Described
<1>7. CASE ~RefuseStep /\ Describe
  <2>1. at \in {5, 7}
    BY <1>0, <1>7, StepsAre DEF Describe, Doing, Step
  <2>2. /\ intended' = [intended EXCEPT ![SbomOf[Subject]] = Sbom(reviewed, copied[Subject])]
        /\ copied' = copied /\ Describes(reviewed, copied[Subject])
    BY <1>7 DEF Describe
  <2>3. Subject = IF at = 5 THEN "wheel" ELSE "sdist"
    BY <2>1, StepsAre DEF Subject, Step
  <2>4. intended'[SbomOf[Subject]] = Sbom(reviewed, copied[Subject])
    BY <1>1, <2>2, <2>3, FilesAre
  <2>5. \A a \in Artifacts : a # Subject => intended'[SbomOf[a]] = intended[SbomOf[a]]
    BY <1>1, <2>2, <2>3, FilesAre
  <2>6. LockBound(reviewed)
    BY <1>2, <2>1
  <2>7. stage' = "prepare" => (at' > 5 /\ at' <= 7 => intended'["sdistSbom"] = Unseen)
    BY <1>0, <1>2, <2>1, <2>3, <2>5, FilesAre
  <2>8. \A a \in Artifacts : intended'[SbomOf[a]] # Unseen =>
            /\ Describes(reviewed, copied[a])
            /\ intended'[SbomOf[a]] = Sbom(reviewed, copied[a])
    BY <2>2, <2>4, <2>5 DEF Described
  <2> QED
    BY <1>0, <1>2, <2>1, <2>2, <2>6, <2>7, <2>8 DEF Described
<1>8. CASE ~RefuseStep /\ Hash
  <2>1. at \in {8, 9}
    BY <1>0, <1>8, StepsAre DEF Hash, Doing, Step
  <2>2. intended' = [intended EXCEPT ![Subject] = files[Subject]] /\ copied' = copied
    BY <1>8 DEF Hash
  <2>3. Subject \in Artifacts
    BY <2>1, StepsAre, FilesAre DEF Subject, Step
  <2> QED
    BY <1>1, <1>3, <2>1, <2>2, <2>3, FilesAre
<1>9. CASE ~RefuseStep /\ Create
  <2>1. at \in {10, 12, 14, 16}
    BY <1>0, <1>9, StepsAre DEF Create, Doing, Step
  <2>2. UNCHANGED <<copied, intended>>
    BY <1>9 DEF Create
  <2> QED
    BY <1>3, <2>1, <2>2
<1>10. CASE ~RefuseStep /\ Fill
  <2>1. at \in {11, 13, 15, 17}
    BY <1>0, <1>10, StepsAre DEF Fill, Doing, Step
  <2>2. intended' = [intended EXCEPT ![Subject] = PayloadOf(Subject)] /\ copied' = copied
    BY <1>10 DEF Fill
  <2>3. Subject \in Sboms => PayloadOf(Subject) = intended[Subject]
    BY FilesAre DEF PayloadOf
  <2>4. \A f \in Sboms : intended'[f] = intended[f]
    BY <1>1, <2>2, <2>3, FilesAre
  <2> QED
    BY <1>3, <2>1, <2>2, <2>4
<1> QED
  BY <1>4, <1>5, <1>6, <1>7, <1>8, <1>9, <1>10 DEF Prepare

\* Every step keeps what the SBOMs were described from.
LEMMA NextDescribed == Shape /\ Described /\ [CandidateNext]_allVars => Described'
<1> SUFFICES ASSUME Shape, Described, [CandidateNext]_allVars PROVE Described'
  OBVIOUS
<1>1. ASSUME UNCHANGED <<copied, intended, inputs>>,
             stage' # "prepare" \/ UNCHANGED <<stage, at>>
      PROVE  Described'
  BY <1>1 DEF Described, inputs
<1>2. ASSUME Blank, stage' \in Commands \cup {"stopped"}, at' = 1,
             stage' = "prepare" => reviewed' \in Reviewed
      PROVE  Described'
  <2>1. intended' = NoneSeen /\ \A f \in Files : NoneSeen[f] = Unseen
    BY <1>2, NothingSeen DEF Blank
  <2>2. intended'["wheelSbom"] = Unseen /\ intended'["sdistSbom"] = Unseen
    BY <2>1, FilesAre
  <2>3. \A a \in Artifacts : intended'[SbomOf[a]] = Unseen
    BY <2>2, FilesAre
  <2> QED
    BY <1>2, <2>2, <2>3 DEF Described
<1>3. CASE Prepare /\ UNCHANGED <<extras, checkVars, runs>>
  <2>1. UNCHANGED inputs
    BY <1>3 DEF Prepare, Select, Copy, LockCheck, Describe, Hash, Create, Fill
  <2> QED
    BY <1>3, <2>1, PrepareDescribes
<1>4. CASE CheckDistribution /\ UNCHANGED <<extras, prepareVars, runs>>
  BY <1>1, <1>4, DistributionSteps DEF prepareVars
<1>5. CASE Verifier /\ UNCHANGED <<extras, prepareVars, checkVars, runs>>
  <2>0. UNCHANGED <<copied, intended, inputs>>
    BY <1>5 DEF prepareVars
  <2>1. stage' # "prepare"
    <3>1. CASE TakeLook
      BY <3>1, LookSteps DEF Verifying
    <3>2. CASE Conclude \/ CreateManifest \/ FillManifest \/ Reread
      BY <3>2 DEF Conclude, CreateManifest, FillManifest, Reread, Refuse, Begin
    <3> QED
      BY <1>5, <3>1, <3>2 DEF Verifier
  <2> QED
    BY <1>1, <2>0, <2>1
<1>6. CASE Others /\ UNCHANGED <<prepareVars, checkVars, runs>>
  BY <1>1, <1>6 DEF Others, Write, WriteOutput, WriteExtras, looking, prepareVars
<1>7. CASE \E m \in Reviewed : Edit(m)
  BY <1>7 DEF Edit, Described
<1>8. CASE Stop
  BY <1>2, <1>8 DEF Stop, Begin
<1>9. CASE \E command \in Commands : Run(command)
  <2>1. PICK command \in Commands : Run(command)
    BY <1>9
  <2>2. Blank /\ stage' = command /\ at' = 1 /\ reviewed' \in Readings(command)
    BY <2>1 DEF Run, Begin
  <2> QED
    BY <1>2, <2>2 DEF Readings
<1>10. CASE UNCHANGED allVars
  BY <1>1, <1>10 DEF allVars, vars, looking, prepareVars
<1> QED
  BY <1>3, <1>4, <1>5, <1>6, <1>7, <1>8, <1>9, <1>10 DEF CandidateNext

\* What the manifest says of an archive is what its SBOM should say.
LEMMA DescribedIsBound == Described => SbomsAreLockBound
<1> SUFFICES ASSUME Described, ~edited, NEW a \in Artifacts, intended[SbomOf[a]] # Unseen,
                    NEW graph, graph = intended[SbomOf[a]].graph
             PROVE  /\ graph.roots = RequiredNames(Declares[copied[a]])
                    /\ IsClosure(graph) /\ IsAcyclic(graph)
                    /\ \A p \in graph.parts : p.name \in DOMAIN Lock /\ p.pin = Lock[p.name]
  BY DEF SbomsAreLockBound
<1>1. /\ reviewed \in Reviewed /\ LockBound(reviewed) /\ Describes(reviewed, copied[a])
      /\ graph = Sbom(reviewed, copied[a]).graph
  BY DEF Described
<1>2. IsManifest(reviewed)
  BY <1>1, ReviewedAssumption
<1> QED
  BY <1>1, <1>2, SbomIsLockBound
-----------------------------------------------------------------------------
(* A preparation that no one disturbs *)

\* A file that step k of a preparation fills, and the step before creates.
Written(f, k) == files[f] = IF at < k THEN Gone ELSE IF at = k THEN Torn ELSE intended[f]

\* What the steps so far have made, in the directory and in memory.
Unimpeded ==
    /\ at > 1 => /\ extras = {} /\ \A a \in Artifacts : files[a] # Gone /\ files[a] = copied[a]
                 /\ Written("wheelSbom", 11) /\ Written("sdistSbom", 13)
                 /\ Written("identity", 15) /\ Written("sums", 17)
    /\ at > 5 => /\ intended["wheelSbom"] = Sbom(reviewed, copied["wheel"])
                 /\ copied["wheel"] \in DOMAIN Declares
    /\ at > 7 => /\ intended["sdistSbom"] = Sbom(reviewed, copied["sdist"])
                 /\ copied["sdist"] \in DOMAIN Declares
    /\ at > 8 => intended["wheel"] = files["wheel"]
    /\ at > 9 => intended["sdist"] = files["sdist"]
    /\ intended["sums"] = Unseen /\ output \in {Gone, Foreign} /\ reviewed \in Reviewed

\* A directory that a verification should accept.
Whole ==
    /\ extras = {} /\ \A f \in Files : files[f] # Gone
    /\ \A f \in Files \ Artifacts : files[f] # Torn
    /\ NamesOneRelease(files) /\ DOMAIN files["sums"] = Payload

\* What the verifier holds, when the directory stays as it is, of a file that it
\* parses from look k on, and of all that it hashes.
ParsedFrom(f, k) == /\ at \in {k + 1, k + 2} => before = files[f]
                    /\ at > k + 1 => content[f] = files[f]
Seen == /\ ParsedFrom("sums", 2) /\ ParsedFrom("identity", 10)
        /\ ParsedFrom("sdistSbom", 13) /\ ParsedFrom("wheelSbom", 16)
        /\ \A f \in Files : HashedBy(f, at) => digest[f] = files[f]

\* The metadata of the archives declare what the file names say.
AsNamed == \A a \in Artifacts : PackageOf[copied[a]] = Package

\* The first run, while no other process writes.
Undisturbed ==
    /\ runs \in Nat \ {0} /\ writes \in Nat
    /\ runs = 1 /\ writes = 0 =>
           /\ stage = "prepare" => Unimpeded
           /\ intended["sums"] # Unseen /\ AsNamed =>
                  /\ Verifying \/ stage \in {"create", "fill", "reread"} => Whole
                  /\ Verifying => Seen
                  /\ stage \in {"first", "create"} => output \in {Gone, Foreign}
                  /\ stage = "fill" => output = Torn
                  /\ stage \in {"create", "fill", "second", "reread"} => manifest = files
                  /\ stage \in {"second", "reread"} => output = manifest
           /\ UndisturbedPreparationPasses

\* Each step finds what those before it made, and makes its part.
LEMMA PrepareUnimpeded ==
    ASSUME Shape, Unimpeded, Prepare, UNCHANGED <<extras, inputs>>, stage' = "prepare"
    PROVE  Unimpeded'
<1>0. /\ stage = "prepare" /\ at \in 1..16 /\ at' = at + 1
      /\ UNCHANGED <<reviewed, output, extras>>
  <2>1. /\ stage = "prepare" /\ at < 17 /\ at' = at + 1 /\ UNCHANGED output
    BY PrepareSteps DEF Begin
  <2> QED
    BY <2>1 DEF Shape, inputs
<1>1. DOMAIN intended = Files /\ DOMAIN files = Files /\ Over(copied, Artifacts)
  BY DEF Shape, Over
<1>2. ~RefuseStep
  BY DEF RefuseStep, Refuse
<1>3. CASE Select
  <2>1. at = 1
    BY <1>0, <1>3, StepsAre DEF Select, Doing, Step
  <2>2. /\ extras = {} /\ \A f \in Files : files[f] # Gone <=> f \in Artifacts
        /\ copied' = [a \in Artifacts |-> files[a]] /\ UNCHANGED <<files, intended>>
    BY <1>2, <1>3 DEF Select
  <2>3. \A a \in Artifacts : a \in Files
    BY FilesAre
  <2>4. \A a \in Artifacts : files'[a] # Gone /\ files'[a] = copied'[a]
    BY <2>2, <2>3
  <2>5. \A f \in {"wheelSbom", "sdistSbom", "identity", "sums"} : files'[f] = Gone
    BY <2>2, FilesAre
  <2> QED
    BY <1>0, <2>1, <2>2, <2>4, <2>5 DEF Unimpeded, Written
<1>4. CASE Copy
  <2>1. at \in {2, 3}
    BY <1>0, <1>4, StepsAre DEF Copy, Doing, Step
  <2>2. copied' = [copied EXCEPT ![Subject] = files[Subject]] /\ UNCHANGED <<files, intended>>
    BY <1>2, <1>4 DEF Copy
  <2>3. Subject \in Artifacts
    BY <2>1, StepsAre, FilesAre DEF Subject, Step
  <2>4. \A a \in Artifacts : files'[a] # Gone /\ files'[a] = copied'[a]
    BY <1>1, <2>1, <2>2, <2>3 DEF Unimpeded, Over
  <2> QED
    BY <1>0, <2>1, <2>2, <2>4 DEF Unimpeded, Written
<1>5. CASE LockCheck
  <2>1. at \in {4, 6}
    BY <1>0, <1>5, StepsAre DEF LockCheck, Doing, Step
  <2>2. UNCHANGED <<files, copied, intended>>
    BY <1>2, <1>5 DEF LockCheck
  <2> QED
    BY <1>0, <2>1, <2>2 DEF Unimpeded, Written
<1>6. CASE Describe
  <2>1. at \in {5, 7}
    BY <1>0, <1>6, StepsAre DEF Describe, Doing, Step
  <2>2. /\ intended' = [intended EXCEPT ![SbomOf[Subject]] = Sbom(reviewed, copied[Subject])]
        /\ UNCHANGED <<files, copied>> /\ copied[Subject] \in DOMAIN Declares
    BY <1>2, <1>6 DEF Describe, Describes
  <2>3. Subject = IF at = 5 THEN "wheel" ELSE "sdist"
    BY <2>1, StepsAre DEF Subject, Step
  <2>4. /\ intended'[SbomOf[Subject]] = Sbom(reviewed, copied[Subject])
        /\ intended'["sums"] = intended["sums"]
        /\ at = 7 => intended'["wheelSbom"] = intended["wheelSbom"]
    BY <1>1, <2>2, <2>3, FilesAre
  <2>5. /\ at' > 5 => /\ intended'["wheelSbom"] = Sbom(reviewed, copied["wheel"])
                      /\ copied["wheel"] \in DOMAIN Declares
        /\ at' > 7 => /\ intended'["sdistSbom"] = Sbom(reviewed, copied["sdist"])
                      /\ copied["sdist"] \in DOMAIN Declares
    BY <1>0, <2>1, <2>2, <2>3, <2>4, FilesAre DEF Unimpeded
  <2> QED
    BY <1>0, <2>1, <2>2, <2>4, <2>5 DEF Unimpeded, Written
<1>7. CASE Hash
  <2>1. at \in {8, 9}
    BY <1>0, <1>7, StepsAre DEF Hash, Doing, Step
  <2>2. intended' = [intended EXCEPT ![Subject] = files[Subject]] /\ UNCHANGED <<files, copied>>
    BY <1>2, <1>7 DEF Hash
  <2>3. Subject = IF at = 8 THEN "wheel" ELSE "sdist"
    BY <2>1, StepsAre DEF Subject, Step
  <2>4. /\ intended'[Subject] = files[Subject]
        /\ \A f \in Files \ {Subject} : intended'[f] = intended[f]
    BY <1>1, <2>2, <2>3, FilesAre
  <2> QED
    BY <1>0, <2>1, <2>2, <2>3, <2>4, FilesAre DEF Unimpeded, Written
<1>8. CASE Create
  <2>1. at \in {10, 12, 14, 16}
    BY <1>0, <1>8, StepsAre DEF Create, Doing, Step
  <2>2. files' = [files EXCEPT ![Subject] = Torn] /\ UNCHANGED <<copied, intended>>
    BY <1>2, <1>8 DEF Create
  <2>3. Subject = CASE at = 10 -> "wheelSbom" [] at = 12 -> "sdistSbom"
                    [] at = 14 -> "identity" [] at = 16 -> "sums"
    BY <2>1, StepsAre DEF Subject, Step
  <2>4. files'[Subject] = Torn /\ \A f \in Files \ {Subject} : files'[f] = files[f]
    BY <1>1, <2>1, <2>2, <2>3, FilesAre
  <2> QED
    BY <1>0, <2>1, <2>2, <2>3, <2>4, FilesAre DEF Unimpeded, Written
<1>9. CASE Fill
  <2>1. at \in {11, 13, 15}
    BY <1>0, <1>9, StepsAre DEF Fill, Doing, Step
  <2>2. Subject = CASE at = 11 -> "wheelSbom" [] at = 13 -> "sdistSbom" [] at = 15 -> "identity"
    BY <2>1, StepsAre DEF Subject, Step
  <2>3. files[Subject] = Torn
    BY <2>1, <2>2 DEF Unimpeded, Written
  <2>4. /\ files' = [files EXCEPT ![Subject] = PayloadOf(Subject)]
        /\ intended' = [intended EXCEPT ![Subject] = PayloadOf(Subject)]
        /\ copied' = copied
    BY <1>2, <1>9, <2>3 DEF Fill
  <2>5. /\ files'[Subject] = PayloadOf(Subject) /\ intended'[Subject] = PayloadOf(Subject)
        /\ \A f \in Files \ {Subject} : files'[f] = files[f] /\ intended'[f] = intended[f]
    BY <1>1, <2>1, <2>2, <2>4, FilesAre
  <2>6. Subject # "identity" => PayloadOf(Subject) = intended[Subject]
    BY <2>1, <2>2 DEF PayloadOf
  <2> QED
    BY <1>0, <2>1, <2>2, <2>4, <2>5, <2>6, FilesAre DEF Unimpeded, Written
<1> QED
  BY <1>3, <1>4, <1>5, <1>6, <1>7, <1>8, <1>9 DEF Prepare

\* The last step leaves a directory that a verification should accept.
LEMMA PrepareWhole ==
    ASSUME Shape, Prepared, Unimpeded, Prepare, at = 17, stage' # "refused", AsNamed,
           UNCHANGED extras
    PROVE  Whole'
<1>1. DOMAIN intended = Files /\ DOMAIN files = Files /\ Over(copied, Artifacts)
  BY DEF Shape, Over
<1>2. ~RefuseStep
  BY DEF RefuseStep, Refuse
<1>3. Fill /\ stage = "prepare" /\ Subject = "sums"
  BY PrepareSteps, StepsAre DEF Prepare, Select, Copy, LockCheck, Describe, Hash, Create,
     Doing, Subject, Step
<1>4. files["sums"] = Torn
  BY DEF Unimpeded, Written
<1>5. files' = [files EXCEPT !["sums"] = ChecksumPayload]
  BY <1>2, <1>3, <1>4 DEF Fill, PayloadOf
<1>6. /\ files'["sums"] = ChecksumPayload
      /\ \A f \in Payload : files'[f] = files[f] /\ files[f] = intended[f]
  <2>1. files'["sums"] = ChecksumPayload
    BY <1>1, <1>5, FilesAre
  <2>2. \A f \in Payload : files'[f] = files[f]
    BY <1>1, <1>5, FilesAre
  <2>3. \A f \in Payload : files[f] = intended[f]
    BY FilesAre DEF Unimpeded, Written
  <2> QED
    BY <2>1, <2>2, <2>3
<1>7. /\ intended["wheelSbom"] = Sbom(reviewed, copied["wheel"])
      /\ intended["sdistSbom"] = Sbom(reviewed, copied["sdist"])
      /\ intended["identity"] = IdentityPayload
      /\ intended["wheel"] = copied["wheel"] /\ intended["sdist"] = copied["sdist"]
      /\ \A a \in Artifacts : files[a] # Gone /\ files[a] = copied[a]
  BY <1>3, FilesAre DEF Unimpeded, Prepared
<1> DEFINE payload == Generates(reviewed, copied)
<1>8. /\ payload \notin {Gone, Torn}
      /\ \A f \in Payload \ Artifacts : payload[f] \notin {Gone, Torn}
  <2>1. copied \in [Artifacts -> DOMAIN Declares]
    BY <1>1, FilesAre DEF Unimpeded, Over
  <2> QED
    BY <2>1, MarksAssumption DEF Unimpeded
<1>9. \A f \in Payload : payload[f] = intended[f]
  BY <1>7, FilesAre DEF Generates
<1>10. ChecksumPayload = payload
  <2>1. \A f \in Payload : (IF f = "identity" THEN IdentityPayload ELSE intended[f]) = payload[f]
    BY <1>7, <1>9
  <2>2. payload = [f \in Payload |-> payload[f]]
    <3> DEFINE e(f) == CASE f \in Artifacts -> copied[f]
                         [] f = "wheelSbom" -> Sbom(reviewed, copied["wheel"])
                         [] f = "sdistSbom" -> Sbom(reviewed, copied["sdist"])
                         [] f = "identity"  -> IdentityPayload
    <3>1. payload = [f \in Payload |-> e(f)]
      BY DEF Generates
    <3> HIDE DEF payload, e
    <3> QED
      BY <3>1
  <2> HIDE DEF payload
  <2> QED
    BY <2>1, <2>2 DEF ChecksumPayload
<1> HIDE DEF payload
<1>11. extras' = {} /\ \A f \in Files : files'[f] # Gone
  <2>1. extras' = {}
    BY DEF Unimpeded
  <2> QED
    BY <2>1, <1>6, <1>7, <1>8, <1>9, <1>10, FilesAre
<1>12. \A f \in Files \ Artifacts : files'[f] # Torn
  BY <1>6, <1>8, <1>9, <1>10, FilesAre
<1>13. DOMAIN files'["sums"] = Payload
  BY <1>6 DEF ChecksumPayload
<1>14. NamesOneRelease(files')
  <2>1. \A f \in Payload : files'["sums"][f] = files'[f]
    BY <1>6, <1>9, <1>10
  <2>2. \A a \in Artifacts : /\ files'[SbomOf[a]].binds = files'[a]
                             /\ files'[SbomOf[a]].package = Package
    BY <1>6, <1>7, FilesAre DEF Sbom, AsNamed
  <2>3. files'["identity"].source = Requested
    BY <1>6, <1>7, FilesAre DEF IdentityPayload
  <2> QED
    BY <2>1, <2>2, <2>3 DEF NamesOneRelease
<1> QED
  BY <1>11, <1>12, <1>13, <1>14 DEF Whole, NamesOneRelease

\* The whole payload is hashed by the looks up to the ninth.
LEMMA PayloadHashed ==
    ASSUME NEW k \in Nat, k > 9
    PROVE  \A f \in Payload : HashedBy(f, k)
<1>1. /\ Looks[5].file = "wheel" /\ Looks[6].file = "sdist" /\ Looks[7].file = "wheelSbom"
      /\ Looks[8].file = "sdistSbom" /\ Looks[9].file = "identity"
  BY LooksAre DEF Look
<1>2. \A i \in 5..9 : i < k
  OBVIOUS
<1>3. \A f \in Payload : \E i \in 5..9 : Looks[i].file = f
  BY <1>1, FilesAre
<1> QED
  BY <1>2, <1>3 DEF HashedBy

\* A look at such a directory is passed, and what it takes from it is as it is.
LEMMA LookPasses ==
    ASSUME Shape, Whole, Seen, TakeLook
    PROVE  stage' = stage /\ Seen'
<1>0. Verifying /\ at \in 1..24 /\ UNCHANGED <<files, output, manifest, history, writes>>
  BY LookSteps
<1> DEFINE how == Looks[at].how
           f == Looks[at].file
<1>1. f \in Files /\ files[f] # Gone
  BY <1>0, LooksAre, FilesAre DEF Whole, Look
<1>2. DOMAIN digest = Files /\ DOMAIN content = Files
  BY DEF Shape, Over
<1>3. \A g \in Files : HashedBy(g, at + 1) =>
          HashedBy(g, at) \/ (g = f /\ (how = "hash" \/ <<how, f>> = <<"after", "sums">>))
  BY <1>0, LooksAre DEF HashedBy, Look
<1>4. at \in 19..24 => HashedBy(f, at)
  BY LooksAre DEF HashedBy, Look
<1>5. how = "after" => /\ content[f] = files[f] /\ before = files[f]
                       /\ f # "sums" => /\ HashedBy(f, at)
                                        /\ \A a \in Artifacts : HashedBy(a, at)
  <2> SUFFICES ASSUME how = "after"
               PROVE  /\ content[f] = files[f] /\ before = files[f]
                      /\ f # "sums" => /\ HashedBy(f, at)
                                       /\ \A a \in Artifacts : HashedBy(a, at)
    OBVIOUS
  <2>1. \/ at = 4 /\ f = "sums"
        \/ at = 12 /\ f = "identity"
        \/ at = 15 /\ f = "sdistSbom"
        \/ at = 18 /\ f = "wheelSbom"
    BY <1>0, LooksAre DEF Look
  <2>2. at > 9 => \A g \in Payload : HashedBy(g, at)
    BY <1>0, PayloadHashed
  <2> QED
    BY <2>1, <2>2, FilesAre DEF Seen, ParsedFrom
<1>6. how = "after" => Parsed(f)
  <2> SUFFICES ASSUME how = "after" PROVE Parsed(f)
    OBVIOUS
  <2>1. f \notin Artifacts
    BY <1>0, LooksAre, FilesAre DEF Look
  <2>2. content[f] = files[f] /\ content[f] # Torn
    BY <1>1, <1>5, <2>1 DEF Whole
  <2>3. f # "sums" => content[f] = digest[f] /\ \A a \in Artifacts : digest[a] = files[a]
    BY <1>1, <1>5, FilesAre DEF Seen
  <2>4. \A a \in Artifacts : SbomOf[a] = f => /\ content[f].binds = digest[a]
                                              /\ content[f].package = Package
    <3> SUFFICES ASSUME NEW a \in Artifacts, SbomOf[a] = f
                 PROVE  content[f].binds = digest[a] /\ content[f].package = Package
      OBVIOUS
    <3>1. f # "sums"
      BY FilesAre
    <3>2. files[SbomOf[a]].binds = files[a] /\ files[SbomOf[a]].package = Package
      BY DEF Whole, NamesOneRelease
    <3> QED
      BY <2>2, <2>3, <3>1, <3>2
  <2>5. f = "sums" => DOMAIN content[f] = Payload
    BY <2>2 DEF Whole
  <2>6. f = "identity" => content[f].source = Requested
    BY <2>2 DEF Whole, NamesOneRelease
  <2> HIDE DEF f
  <2> QED
    BY <2>2, <2>3, <2>4, <2>5, <2>6 DEF Parsed
<1>7. how = "again" => files[f] = digest[f]
  <2>1. how = "again" => at \in 19..24
    BY <1>0, LooksAre DEF Look
  <2> QED
    BY <1>1, <1>4, <2>1 DEF Seen
<1>8. Accepts(how, f)
  <2>1. extras = {} /\ \A file \in Files : files[file] # Gone
    BY DEF Whole
  <2>2. how = "after" => content[f] = before /\ content[f] = files[f] /\ Parsed(f)
    BY <1>5, <1>6
  <2> HIDE DEF how, f
  <2> QED
    BY <1>7, <2>1, <2>2 DEF Accepts
<1>9. ASSUME Remember(how, f)
      PROVE  /\ \A g \in Files : HashedBy(g, at + 1) => digest'[g] = files[g]
             /\ how = "before" => before' = files[f]
             /\ how # "before" => before' = before
             /\ how = "read" => content'[f] = files[f]
             /\ \A g \in Files : how # "read" \/ g # f => content'[g] = content[g]
  <2>1. \A g \in Files : HashedBy(g, at) => digest[g] = files[g]
    BY DEF Seen
  <2> HIDE DEF how, f
  <2> QED
    BY <1>1, <1>2, <1>3, <1>9, <2>1 DEF Remember
<1>10. ASSUME Remember(how, f), how = "hash", f = "identity" PROVE ChecksumsAgree(digest')
  <2>1. at = 9
    BY <1>0, <1>10, LooksAre DEF Look
  <2>2. \A g \in Payload : HashedBy(g, 10)
    BY PayloadHashed
  <2>3. \A g \in Payload : digest'[g] = files[g]
    BY <1>9, <1>10, <2>1, <2>2, FilesAre
  <2>4. content["sums"] = files["sums"]
    BY <2>1 DEF Seen, ParsedFrom
  <2>5. content'["sums"] = content["sums"]
    BY <1>9, <1>10, FilesAre
  <2> QED
    BY <2>3, <2>4, <2>5 DEF ChecksumsAgree, Whole, NamesOneRelease
<1>11. Remember(how, f) /\ at' = at + 1 /\ stage' = stage
  <2> HIDE DEF how, f
  <2>1. \/ /\ Remember(how, f)
           /\ IF how = "hash" /\ f = Last(PayloadOrder) /\ ~ChecksumsAgree(digest')
              THEN stage' = "refused" /\ UNCHANGED at
              ELSE at' = at + 1 /\ UNCHANGED stage
        \/ ~(files[f] # Gone /\ Accepts(how, f))
    BY DEF TakeLook, how, f
  <2> QED
    BY <1>1, <1>8, <1>10, <2>1, FilesAre
<1>12. \A g \in {"sums", "identity", "sdistSbom", "wheelSbom"} :
          \A k \in {2, 10, 13, 16} :
              /\ ParsedFrom(g, k)
              /\ at = k <=> how = "before" /\ f = g
              /\ at = k + 1 <=> how = "read" /\ f = g
              => ParsedFrom(g, k)'
  <2> SUFFICES ASSUME NEW g \in {"sums", "identity", "sdistSbom", "wheelSbom"},
                      NEW k \in {2, 10, 13, 16}, ParsedFrom(g, k),
                      at = k <=> how = "before" /\ f = g,
                      at = k + 1 <=> how = "read" /\ f = g
               PROVE  ParsedFrom(g, k)'
    OBVIOUS
  <2>1. g \in Files
    BY FilesAre
  <2>2. at = k + 1 => how # "before"
    OBVIOUS
  <2> HIDE DEF how, f
  <2> QED
    BY <1>0, <1>9, <1>11, <2>1, <2>2 DEF ParsedFrom
<1>13. /\ at = 2 <=> how = "before" /\ f = "sums"
       /\ at = 3 <=> how = "read" /\ f = "sums"
       /\ at = 10 <=> how = "before" /\ f = "identity"
       /\ at = 11 <=> how = "read" /\ f = "identity"
       /\ at = 13 <=> how = "before" /\ f = "sdistSbom"
       /\ at = 14 <=> how = "read" /\ f = "sdistSbom"
       /\ at = 16 <=> how = "before" /\ f = "wheelSbom"
       /\ at = 17 <=> how = "read" /\ f = "wheelSbom"
  BY <1>0, LooksAre DEF Look
<1> HIDE DEF how, f
<1>14. /\ ParsedFrom("sums", 2)' /\ ParsedFrom("identity", 10)'
       /\ ParsedFrom("sdistSbom", 13)' /\ ParsedFrom("wheelSbom", 16)'
  BY <1>12, <1>13 DEF Seen
<1>15. \A g \in Files : HashedBy(g, at') => digest'[g] = files'[g]
  BY <1>0, <1>9, <1>11
<1> QED
  BY <1>11, <1>14, <1>15 DEF Seen, HashedBy

\* A preparation that refuses has not generated its checksums yet.
LEMMA PrepareRefuses ==
    ASSUME Shape, Prepare, stage' = "refused"
    PROVE  intended' = intended
<1>1. ~Proceed
  BY PrepareSteps DEF Proceed, Begin
<1> QED
  BY <1>1 DEF Prepare, Select, Copy, LockCheck, Describe, Hash, Create, Fill, RefuseStep

\* Without a write of another process, every step of the first run passes, up to
\* one that finds a foreign file where the manifest goes.
LEMMA NextUndisturbed ==
    Shape /\ Prepared /\ Undisturbed /\ [CandidateNext]_allVars => Undisturbed'
<1> SUFFICES ASSUME Shape, Prepared, Undisturbed, [CandidateNext]_allVars PROVE Undisturbed'
  OBVIOUS
<1>0. runs \in Nat \ {0} /\ writes \in Nat
  BY DEF Undisturbed
<1>1. ASSUME runs' \in Nat \ {0, 1} \/ writes' \in Nat \ {0}, runs' \in Nat \ {0}, writes' \in Nat
      PROVE  Undisturbed'
  BY <1>1 DEF Undisturbed
<1>2. ASSUME UNCHANGED <<runs, writes>>, intended'["sums"] = Unseen, stage' # "prepare"
      PROVE  Undisturbed'
  BY <1>0, <1>2 DEF Undisturbed, UndisturbedPreparationPasses
<1>3. CASE Prepare /\ UNCHANGED <<extras, checkVars, runs>>
  <2>0. UNCHANGED <<inputs, extras, output, manifest, writes, runs>> /\ stage = "prepare"
    BY <1>3, PrepareSteps DEF Prepare, Select, Copy, LockCheck, Describe, Hash, Create, Fill
  <2> SUFFICES ASSUME runs = 1, writes = 0 PROVE Undisturbed'
    BY <1>0, <2>0 DEF Undisturbed
  <2>1. Unimpeded
    BY <2>0 DEF Undisturbed
  <2>2. CASE stage' = "refused"
    BY <1>2, <1>3, <2>0, <2>1, <2>2, PrepareRefuses DEF Unimpeded
  <2>3. CASE stage' = "prepare"
    <3>1. Unimpeded'
      BY <1>3, <2>0, <2>1, <2>3, PrepareUnimpeded
    <3> QED
      BY <1>0, <2>0, <2>3, <3>1 DEF Undisturbed, Verifying, UndisturbedPreparationPasses
  <2>4. CASE at = 17 /\ Begin("first")
    <3>1. stage' = "first" /\ at' = 1 /\ UNCHANGED copied
      <4>1. stage' = "first" /\ at' = 1
        BY <2>4 DEF Begin
      <4> QED
        BY <1>3, <2>0, <2>4, <4>1, StepsAre
           DEF Prepare, Select, Copy, LockCheck, Describe, Hash, Create, Fill, Doing, Step,
               RefuseStep
    <3>2. AsNamed => Whole'
      BY <1>3, <2>0, <2>1, <2>4, <3>1, PrepareWhole
    <3>3. Seen'
      BY <3>1 DEF Seen, ParsedFrom, HashedBy
    <3>4. output' \in {Gone, Foreign} /\ AsNamed' = AsNamed
      BY <2>0, <2>1, <3>1 DEF Unimpeded, AsNamed
    <3> QED
      BY <1>0, <2>0, <3>1, <3>2, <3>3, <3>4
         DEF Undisturbed, Verifying, UndisturbedPreparationPasses
  <2> QED
    BY <1>3, <2>2, <2>3, <2>4, PrepareSteps
<1>4. CASE CheckDistribution /\ UNCHANGED <<extras, prepareVars, runs>>
  <2>1. /\ UNCHANGED <<runs, writes, intended>> /\ stage = "check"
        /\ stage' \in {"check", "refused", "done"}
    BY <1>4, DistributionSteps DEF prepareVars
  <2>2. intended["sums"] = Unseen
    BY <2>1, NothingSeen, FilesAre DEF Prepared
  <2> QED
    BY <1>2, <2>1, <2>2
<1>5. CASE Verifier /\ UNCHANGED <<extras, prepareVars, checkVars, runs>>
  <2>0. UNCHANGED <<files, intended, runs, writes>>
        /\ stage \in {"first", "second", "create", "fill", "reread"} /\ stage' # "prepare"
    <3>1. CASE TakeLook
      BY <1>5, <3>1, LookSteps DEF prepareVars, Verifying
    <3>2. CASE Conclude \/ CreateManifest \/ FillManifest \/ Reread
      BY <1>5, <3>2 DEF Conclude, CreateManifest, FillManifest, Reread, Refuse, Begin,
         prepareVars, Verifying
    <3> QED
      BY <1>5, <3>1, <3>2 DEF Verifier
  <2>c. UNCHANGED <<extras, copied>>
    BY <1>5 DEF prepareVars
  <2>d. ~AsNamed => Undisturbed'
    BY <1>0, <2>0, <2>c DEF Undisturbed, AsNamed, UndisturbedPreparationPasses
  <2> SUFFICES ASSUME runs = 1, writes = 0, intended["sums"] # Unseen, AsNamed
               PROVE  Undisturbed'
    BY <1>0, <1>2, <2>0, <2>d DEF Undisturbed
  <2>a. /\ Whole
        /\ Verifying => Seen
        /\ stage \in {"first", "create"} => output \in {Gone, Foreign}
        /\ stage = "fill" => output = Torn
        /\ stage \in {"create", "fill", "second", "reread"} => manifest = files
        /\ stage \in {"second", "reread"} => output = manifest
    BY <2>0 DEF Undisturbed, Verifying
  <2>b. Whole'
    BY <2>0, <2>a, <2>c DEF Whole, NamesOneRelease
  <2>1. CASE TakeLook
    <3>1. stage' = stage /\ Seen' /\ UNCHANGED <<output, manifest>> /\ Verifying
      BY <2>1, <2>a, LookPasses, LookSteps
    <3> QED
      BY <1>0, <2>0, <2>a, <2>b, <3>1 DEF Undisturbed, Verifying, UndisturbedPreparationPasses
  <2>2. CASE Conclude
    <3>1. Verifying /\ at > 24 /\ at \in Nat /\ UNCHANGED output
      BY <2>2, LooksAre DEF Conclude, Shape
    <3>2. \A f \in Files : digest[f] = files[f]
      <4>1. \A f \in Files : HashedBy(f, at)
        <5>1. HashedBy("sums", at)
          BY <3>1 DEF HashedBy
        <5> QED
          BY <3>1, <5>1, PayloadHashed, FilesAre
      <4> QED
        BY <2>a, <3>1, <4>1 DEF Seen
    <3>3. digest = files
      BY <3>2 DEF Shape, Over
    <3>4. \/ stage = "first" /\ stage' = "create" /\ manifest' = files
          \/ stage = "second" /\ stage' = "reread" /\ manifest' = manifest
      BY <2>2, <2>a, <3>1, <3>3 DEF Conclude, Verifying
    <3> QED
      BY <1>0, <2>0, <2>a, <2>b, <3>1, <3>4
         DEF Undisturbed, Verifying, UndisturbedPreparationPasses
  <2>3. CASE CreateManifest
    <3>1. /\ stage = "create" /\ manifest' = manifest
          /\ \/ stage' = "fill" /\ output' = Torn
             \/ stage' = "refused" /\ output' = Foreign
      BY <2>3, <2>a DEF CreateManifest, Refuse
    <3> QED
      BY <1>0, <2>0, <2>a, <2>b, <3>1
         DEF Undisturbed, Verifying, UndisturbedPreparationPasses
  <2>4. CASE FillManifest
    <3>1. stage = "fill" /\ output = Torn /\ manifest = files
      BY <2>4, <2>a DEF FillManifest
    <3>2. output' = manifest /\ manifest' = manifest /\ stage' = "second" /\ at' = 1
      BY <2>4, <3>1 DEF FillManifest, Begin
    <3>3. Seen'
      BY <3>2 DEF Seen, ParsedFrom, HashedBy
    <3> QED
      BY <1>0, <2>0, <2>b, <3>1, <3>2, <3>3
         DEF Undisturbed, Verifying, UndisturbedPreparationPasses
  <2>5. CASE Reread
    <3>1. stage' = "done"
      BY <2>5, <2>a DEF Reread
    <3> QED
      BY <1>0, <2>0, <3>1 DEF Undisturbed, Verifying, UndisturbedPreparationPasses
  <2> QED
    BY <1>5, <2>1, <2>2, <2>3, <2>4, <2>5 DEF Verifier
<1>6. CASE (Others \/ \E m \in Reviewed : Edit(m)) /\ runs' = runs
  <2>1. writes' = writes + 1
    BY <1>6 DEF Others, Write, WriteOutput, WriteExtras, Edit
  <2> QED
    BY <1>0, <1>1, <1>6, <2>1
<1>7. CASE Stop
  <2>1. UNCHANGED <<runs, writes>> /\ intended' = NoneSeen /\ stage' = "stopped"
    BY <1>7 DEF Stop, Begin, Blank
  <2>2. intended'["sums"] = Unseen
    BY <2>1, NothingSeen, FilesAre
  <2> QED
    BY <1>2, <2>1, <2>2
<1>8. CASE \E command \in Commands : Run(command)
  <2>1. runs' = runs + 1 /\ writes' = writes
    BY <1>8 DEF Run
  <2> QED
    BY <1>0, <1>1, <2>1
<1>9. CASE UNCHANGED allVars
  <2>1. /\ UNCHANGED <<files, extras, output, stage, at, before, content, digest, manifest>>
        /\ UNCHANGED <<writes, runs, copied, intended, reviewed>>
    BY <1>9 DEF allVars, vars, looking, prepareVars, inputs
  <2>2. Unimpeded' = Unimpeded
    BY <2>1 DEF Unimpeded, Written
  <2>3. Whole' = Whole /\ Seen' = Seen /\ AsNamed' = AsNamed
    BY <2>1 DEF Whole, NamesOneRelease, Seen, ParsedFrom, HashedBy, AsNamed
  <2> QED
    BY <2>1, <2>2, <2>3 DEF Undisturbed, Verifying, UndisturbedPreparationPasses
<1> QED
  BY <1>3, <1>4, <1>5, <1>6, <1>7, <1>8, <1>9 DEF CandidateNext
-----------------------------------------------------------------------------
(* The inductive invariant *)

IInv == /\ Shape /\ Established /\ Confirmed /\ Instants /\ Scratch
        /\ VerifiedDirectoryExisted /\ Prepared /\ Examined /\ Described /\ Undisturbed

\* A command begins with all that the proofs say of it.
LEMMA InitIInv == CandidateInit => IInv
<1> SUFFICES ASSUME CandidateInit PROVE IInv
  OBVIOUS
<1>1. /\ stage \in Commands /\ at = 1 /\ manifest = NoneSeen /\ output \in {Gone, Foreign}
      /\ snapshots = {files} /\ intended = NoneSeen /\ published = NothingPublished
      /\ writes = 0
  BY DEF CandidateInit
<1>2. Shape
  BY InitShape
<1>3. Established /\ Scratch /\ Prepared
  BY <1>1 DEF Established, Scratch, Prepared, Verifying, Commands
<1>4. Confirmed
  BY <1>1 DEF Confirmed, ManifestIsOneRelease, Commands
<1>5. Instants
  BY <1>1 DEF Instants, HashedBy
<1>6. VerifiedDirectoryExisted
  BY <1>1 DEF VerifiedDirectoryExisted, Commands
<1>7. Examined
  <2>1. DOMAIN NothingPublished = {}
    BY DEF NothingPublished
  <2> QED
    BY <1>1, <2>1 DEF Examined, PublishedIsParsed, Commands
<1>8. Described
  <2>1. stage = "prepare" => reviewed \in Reviewed
    BY DEF CandidateInit, Readings
  <2>2. intended["wheelSbom"] = Unseen /\ intended["sdistSbom"] = Unseen
    BY <1>1, NothingSeen, FilesAre
  <2>3. \A a \in Artifacts : intended[SbomOf[a]] = Unseen
    BY <2>2, FilesAre
  <2> QED
    BY <1>1, <2>1, <2>2, <2>3 DEF Described
<1>9. Undisturbed
  <2>1. runs = 1 /\ writes = 0 /\ stage \in Commands
        /\ (stage = "prepare" => reviewed \in Reviewed)
    BY DEF CandidateInit, Readings
  <2>2. intended["sums"] = Unseen
    BY <1>1, NothingSeen, FilesAre
  <2> QED
    BY <1>1, <2>1, <2>2 DEF Undisturbed, Unimpeded, UndisturbedPreparationPasses, Commands
<1> QED
  BY <1>2, <1>3, <1>4, <1>5, <1>6, <1>7, <1>8, <1>9 DEF IInv

\* The parts of the invariant, and so the invariant, are inductive.
THEOREM Inductive == CandidateSpec => []IInv
<1>1. IInv /\ [CandidateNext]_allVars => IInv'
  BY NextShape, NextEstablished, NextConfirmed, NextInstants, NextScratch, NextExisted,
     NextPrepared, NextExamined, NextDescribed, NextUndisturbed DEF IInv
<1> QED
  BY <1>1, InitIInv, PTL DEF CandidateSpec

\* Whatever other processes write and wherever a process stops, a manifest, in
\* memory or in the manifest file, speaks of one release: the last digest of
\* each file is the one that its checks were made on.
THEOREM OneRelease == CandidateSpec => []ManifestIsOneRelease
<1>1. IInv => ManifestIsOneRelease
  BY DEF IInv, Confirmed
<1> QED
  BY <1>1, Inductive, PTL

\* The digests of a verification were all those of the directory at one instant
\* of it, unless a content came back: the second pass over the payload finds
\* that no digest of the first had changed before the last of the first.
THEOREM DirectoryExisted == CandidateSpec => []VerifiedDirectoryExisted
<1>1. IInv => VerifiedDirectoryExisted
  BY DEF IInv
<1> QED
  BY <1>1, Inductive, PTL

\* A preparation hands off what it generated from the archives that it parsed,
\* though it hashed others' files, unless its checksum file was replaced.
THEOREM WhatIsSealedWasParsed == CandidateSpec => []SealedIsParsed
<1>1. IInv => SealedIsParsed
  BY PreparedIsSealed DEF IInv
<1> QED
  BY <1>1, Inductive, PTL

\* Unless the checksum file was replaced, the workflow publishes the two archives
\* that the check parsed and found valid, and a further one, which it copies as the
\* pattern says and confirms by no checksum, only if another process added it.
THEOREM WhatIsPublishedWasParsed == CandidateSpec => []PublishedIsParsed
<1>1. IInv => PublishedIsParsed
  BY DEF IInv, Examined
<1> QED
  BY <1>1, Inductive, PTL

\* While no one edits the reviewed manifest during a run, whatever else is
\* written, an SBOM that a preparation generates describes exactly the packages
\* that the requirements of its archive lead to, without a cycle, and each as
\* the runtime lock has it: the traversal of _reachable finds those, and the
\* two readings of the manifest are of one content.
THEOREM SbomsBound == CandidateSpec => []SbomsAreLockBound
<1>1. IInv => SbomsAreLockBound
  BY DescribedIsBound DEF IInv
<1> QED
  BY <1>1, Inductive, PTL

\* The two programs agree on what a sealed directory is, but for the version,
\* which only the verifier compares with the file names: when the first run is
\* a preparation, the metadata of both archives declare what the names say and
\* no other process writes, then once it has generated its checksums none of
\* the verifier's looks and comparisons, in either of the two verifications,
\* and no reading of the manifest file refuses what it wrote.
THEOREM OwnWorkPasses == CandidateSpec => []UndisturbedPreparationPasses
<1>1. IInv => UndisturbedPreparationPasses
  BY DEF IInv, Undisturbed, UndisturbedPreparationPasses
<1> QED
  BY <1>1, Inductive, PTL
=============================================================================
