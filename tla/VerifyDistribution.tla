------------------------- MODULE VerifyDistribution -------------------------
(***************************************************************************)
(* scripts/ci/verify_distribution.py and the step of the release workflow  *)
(* after it: each archive is copied, the copy is parsed, the archive must  *)
(* still be the copy; the checksums are of archives hashed once more; then *)
(* the workflow copies the archives to be published and checks them.       *)
(* The tag and the versions of the names are left out, so is what a valid  *)
(* archive holds.  A further archive stands for its name and its content.  *)
(***************************************************************************)
EXTENDS ReleaseEvidence

CONSTANT Valid   \* archive contents that pass the checks of their metadata

VARIABLES
    accepted,   \* the archives as selected, then as in the parsed copies
    listed,     \* the digests for the checksum file
    published   \* the archives as copied for publication, by their names

NothingPublished == <<>>

checkVars == <<accepted, listed, published>>

NothingAccepted == [a \in Artifacts |-> Unseen]

CheckStep(do, file) == [do |-> do, file |-> file]
Both(actions) == [i \in DOMAIN actions |-> CheckStep(actions[i], "wheel")]
                     \o [i \in DOMAIN actions |-> CheckStep(actions[i], "sdist")]

CheckSteps == <<CheckStep("select", "wheel")>> \o Both(<<"snapshot", "parse">>)
                  \o Both(<<"hash", "compare">>)
                  \o <<CheckStep("create", "sums"), CheckStep("fill", "sums")>>
                  \o <<CheckStep("expand", "wheel")>> \o Both(<<"publish">>) \o <<CheckStep("confirm", "sums")>>

Checking(do) == stage = "check" /\ CheckSteps[at].do = do
Checked == CheckSteps[at].file

OnlyChecks == UNCHANGED <<output, manifest, before, content, digest, history, writes>>
PassIf(condition) == IF condition
                     THEN at' = at + 1 /\ UNCHANGED stage
                     ELSE stage' = "refused" /\ UNCHANGED at

\* Only archives are counted; other files may be there.
SelectArchives ==
    /\ Checking("select")
    /\ accepted' = [a \in Artifacts |-> files[a]]
    /\ PassIf(extras = {} /\ \A a \in Artifacts : files[a] # Gone)
    /\ UNCHANGED <<files, listed, published>> /\ OnlyChecks

\* The archive that is there now is copied, whatever was selected.  The copy
\* fails if it is replaced meanwhile; here it may, too, if it was replaced since
\* the selection.
Snapshot ==
    /\ Checking("snapshot")
    /\ accepted' = [accepted EXCEPT ![Checked] = files[Checked]]
    /\ \/ PassIf(files[Checked] # Gone)
       \/ files[Checked] # accepted[Checked] /\ PassIf(FALSE)
    /\ UNCHANGED <<files, listed, published>> /\ OnlyChecks

\* The copy is parsed, then the archive is hashed again.
ParseSnapshot ==
    /\ Checking("parse")
    /\ PassIf(accepted[Checked] \in Valid /\ files[Checked] = accepted[Checked])
    /\ UNCHANGED <<files, checkVars>> /\ OnlyChecks

\* Mutant: any archive is listed.
HashAnyArchive ==
    /\ Checking("hash")
    /\ listed' = [listed EXCEPT ![Checked] = files[Checked]]
    /\ PassIf(files[Checked] # Gone)
    /\ UNCHANGED <<files, accepted, published>> /\ OnlyChecks

\* For the checksum file the archive is copied and hashed in the same way.
HashArchive ==
    /\ Checking("hash")
    /\ listed' = [listed EXCEPT ![Checked] = files[Checked]]
    /\ PassIf(files[Checked] = accepted[Checked])
    /\ UNCHANGED <<files, accepted, published>> /\ OnlyChecks

CompareArchive ==
    /\ Checking("compare")
    /\ PassIf(files[Checked] = listed[Checked])
    /\ UNCHANGED <<files, checkVars>> /\ OnlyChecks

CreateSums ==
    /\ Checking("create")
    /\ PassIf(files["sums"] = Gone)
    /\ files' = IF files["sums"] = Gone THEN [files EXCEPT !["sums"] = Torn] ELSE files
    /\ UNCHANGED checkVars /\ OnlyChecks

\* If another process replaced the file, what is written goes nowhere.
FillSums ==
    /\ Checking("fill")
    /\ PassIf(TRUE)
    /\ \/ files' = [files EXCEPT !["sums"] = listed]
       \/ files["sums"] # Torn /\ UNCHANGED files
    /\ UNCHANGED checkVars /\ OnlyChecks

Present == {a \in Artifacts : files[a] # Gone} \cup extras
KindOf(name) == IF name \in Artifacts THEN name ELSE Extras[name]
ContentOf(name) == IF name \in Artifacts THEN files[name] ELSE name

\* The workflow's patterns match every wheel and every sdist that is there, and
\* each must match one;
ExpandPatterns ==
    /\ Checking("expand")
    /\ published' = [name \in Present |-> Unseen]
    /\ PassIf(\A kind \in Artifacts : \E name \in Present : KindOf(name) = kind)
    /\ UNCHANGED <<files, accepted, listed>> /\ OnlyChecks

\* what matched is copied, the wheels first.
CopyToPublish ==
    /\ Checking("publish")
    /\ published' = [name \in DOMAIN published |->
                        IF KindOf(name) = Checked THEN ContentOf(name) ELSE published[name]]
    /\ PassIf(\A name \in DOMAIN published : KindOf(name) = Checked => name \in Present)
    /\ UNCHANGED <<files, accepted, listed>> /\ OnlyChecks

\* The copies that the checksum file names are compared with it, no other.
Confirms(sums) == /\ sums \notin {Gone, Torn} /\ DOMAIN sums # {}
                  /\ \A name \in DOMAIN sums : /\ name \in DOMAIN published
                                               /\ published[name] = sums[name]

ConfirmPublished ==
    /\ Checking("confirm")
    /\ stage' = IF Confirms(files["sums"]) THEN "done" ELSE "refused"
    /\ UNCHANGED <<files, at, checkVars>> /\ OnlyChecks

CheckDistribution ==
    \/ SelectArchives \/ Snapshot \/ ParseSnapshot \/ HashArchive \/ CompareArchive
    \/ CreateSums \/ FillSums \/ ExpandPatterns \/ CopyToPublish \/ ConfirmPublished
-----------------------------------------------------------------------------
\* Unless another process replaced the checksum file, the two archives are
\* published, valid ones, those that verify_distribution parsed, though it
\* parsed private copies and the workflow copies the archives later.  A further
\* archive, which nothing parses, is published only if another process put it
\* there: one that was in the directory from the beginning is refused.
PublishedIsParsed ==
    stage = "done" /\ published # NothingPublished /\ files["sums"] = listed
        => /\ \A a \in Artifacts : /\ a \in DOMAIN published
                                   /\ published[a] = accepted[a] /\ published[a] \in Valid
           /\ writes = 0 => DOMAIN published = Artifacts
=============================================================================
