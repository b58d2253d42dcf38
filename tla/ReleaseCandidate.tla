-------------------------- MODULE ReleaseCandidate --------------------------
(***************************************************************************)
(* One directory of a release candidate and the commands an operator runs  *)
(* on it: check (verify_distribution and the publication of the archives), *)
(* prepare (prepare_release_evidence) and verify (release_evidence).  A    *)
(* run may stop anywhere, by a crash or because a call fails, leaving what *)
(* it wrote; the operator then runs a command on what is left or on new    *)
(* files.  Other processes may write at any time.                          *)
(***************************************************************************)
EXTENDS PrepareEvidence, VerifyDistribution

CONSTANTS
    Archives,  \* directories of new archives alone
    Starts,    \* directories of evidence
    MaxRuns    \* bound on the runs

ASSUME RunsAssumption == MaxRuns \in Nat \ {0}

\* A directory gives every file a content, or Gone.
ASSUME DirectoriesAssumption ==
    \A directory \in Archives \cup Starts :
        directory = [f \in Files |-> directory[f]]

VARIABLE runs  \* runs so far

allVars == <<vars, extras, prepareVars, checkVars, runs>>

Commands == {"check", "prepare", "first"}   \* "first": verify

Candidates(command) == IF command = "first" THEN Starts ELSE Archives
Readings(command) == IF command = "prepare" THEN Reviewed ELSE {Unseen}

CandidateInit ==
    \E command \in Commands :
        /\ files \in Candidates(command)
        /\ extras \in SUBSET DOMAIN Extras
        /\ output \in {Gone, Foreign}
        /\ stage = command /\ at = 1
        /\ before = Unseen /\ content = NoneSeen /\ digest = NoneSeen
        /\ manifest = NoneSeen /\ snapshots = {files} /\ fresh = TRUE
        /\ copied = NoCopy /\ intended = NoneSeen
        /\ reviewed \in Readings(command) /\ edited = FALSE
        /\ accepted = NothingAccepted /\ listed = NothingAccepted
        /\ published = NothingPublished
        /\ writes = 0 /\ runs = 1

\* A process that begins, or died, has nothing in memory.
Blank == /\ manifest' = NoneSeen /\ copied' = NoCopy /\ intended' = NoneSeen
         /\ edited' = FALSE /\ accepted' = NothingAccepted
         /\ listed' = NothingAccepted /\ published' = NothingPublished

Ended == stage \in {"done", "refused", "stopped"}

Stop == /\ ~Ended
        /\ UNCHANGED <<files, extras, output, writes, reviewed, runs>>
        /\ Begin("stopped") /\ Blank

\* The directory is as it was left, or a new one; the manifest goes to the same
\* path, or to one where no file is.
Run(command) ==
    /\ Ended /\ runs < MaxRuns
    /\ runs' = runs + 1
    /\ files' \in {files} \cup Candidates(command)
    /\ extras' \in SUBSET DOMAIN Extras
    /\ output' \in {output, Gone}
    /\ Begin(command) /\ Blank
    /\ reviewed' \in Readings(command)
    /\ UNCHANGED writes

CandidateNext ==
    \/ Prepare /\ UNCHANGED <<extras, checkVars, runs>>
    \/ CheckDistribution /\ UNCHANGED <<extras, prepareVars, runs>>
    \/ Verifier /\ UNCHANGED <<extras, prepareVars, checkVars, runs>>
    \/ ~Ended /\ Others /\ UNCHANGED <<prepareVars, checkVars, runs>>
    \/ (\E m \in Reviewed : Edit(m)) /\ UNCHANGED <<extras, checkVars, runs>>
    \/ Stop
    \/ \E command \in Commands : Run(command)

CandidateSpec == CandidateInit /\ [][CandidateNext]_allVars
-----------------------------------------------------------------------------
\* The two programs agree on what a sealed directory is, but for the version:
\* what a preparation wrote, the verifier accepts at all of its looks, unless
\* another process writes or has put a file where the manifest goes, or the
\* metadata of an archive declare another package than the file names give,
\* which the preparation does not compare.
UndisturbedPreparationPasses ==
    runs = 1 /\ writes = 0 /\ intended["sums"] # Unseen /\ stage = "refused"
        => output = Foreign \/ \E a \in Artifacts : PackageOf[copied[a]] # Package
=============================================================================
