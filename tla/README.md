# Verification of mcp-evidence-producer

The repository runs vulnerability scanners (Trivy on a file, Trivy on an OCI
image, OSV-Scanner on a lockfile) and leaves two files behind: `evidence.json`,
what was scanned, with what, and whether the scan was complete, and
`receipt.json`, a claim `clean`, `findings` or `inconclusive` that names the
artifact's digest and binds the evidence by its digest. The point of the program
is that a claim is never better than the scan it rests on. This directory states
that, models the code that has to keep it in all three producers, checks it with
TLC and proves with TLAPS every safety property that TLC checks and finds true.

Source paths below are relative to the repository (`src/producer.py` is the
module of that name in the package directory `src`).

## 1. Inventory

| Component | State | Operations | Talks to |
|---|---|---|---|
| Execution record (`src/scanner_execution.py`) | none | derive a record from observed facts; decide whether a record is complete; book an error under a component | called by every producer and adapter |
| Artifact snapshot (`src/artifact_snapshot.py`) | private copy, digest, size | create, verify unchanged, clean up | Trivy, OSV producers |
| Package archive view (`src/package_archive.py`) | unpacked tree, manifest digest | validate the gzip file, extract, take the manifest, determine coverage, verify unchanged | Trivy producer |
| Trivy adapter (`src/adapter.py`) | none | validate a report, map it to a receipt, inconclusive receipt | Trivy producer |
| Trivy producer (`src/producer.py`) | `trivy.raw.json`, `evidence.json`, `receipt.json` in `--out`; the context variable `_SNAPSHOT_META` | `run()`: a dozen early returns | scanner process, file system |
| OSV adapter (`src/osv_adapter.py`) | none | validate, map, inconclusive receipt | OSV producer |
| OSV producer (`src/osv_producer.py`) | `osv.raw.json`, `evidence.json`, `receipt.json`; `_SNAPSHOT_META` | `run()`; exit 0 and exit 1 are both accepted and must agree with the findings | scanner process and its pipe |
| OCI identity, registry client (`src/oci_identity.py`) | token cache | resolve a reference to a platform manifest; 401, token, one retry | container registry, token service |
| OCI adapter (`src/oci_adapter.py`) | none | validate an image report, map it, inconclusive receipt | OCI producer |
| OCI producer (`src/oci_producer.py`) | `oci-identity.json`, `oci.index.json`, `oci.manifest.json`, `oci-error.json`, `trivy.raw.json`, `evidence.json`, `receipt.json` | `run()`: clean up, resolve, store, scan by digest, map | registry, scanner, vulnerability database |
| Action pins (`scripts/check_action_pins.py`) | none | a line filter over workflow files | CI |

What makes each correct, and what is hard about it:

- *Execution record.* Two functions decide completeness, one when the record is
  made and one when a receipt is wanted; they must agree, and a record whose
  status was overwritten must not be believed.
- *Snapshot and archive view.* What is scanned is what was digested: the copies
  may change between digest, unpacking, launch and verification. An archive is
  accepted member by member in one pass, yet must be acceptable as a whole.
- *Adapters.* Nothing is `clean` by default; the producer and the mapper validate
  the same report, one after the other, with different arguments. An OSV report
  says in two places whether there are findings, and they must agree.
- *Producers.* Files are written one after the other, non-atomically, into a
  directory that may hold an earlier run's files; the producer, the scanner, or
  both may die in between; a scanner may outlive its producer. A Trivy scanner
  then still writes the report file; an OSV scanner has lost its reader.
- *OCI identity.* The digest asked for, the index and the platform manifest form
  a chain of digests resolved by separate requests to a registry that may send
  anything. A document may leave it to a header what it is.
- *OCI producer.* Seven files refer to one another by digest, are removed one by
  one at the start and written one by one afterwards: at every moment a reader,
  or the next run, may find what is there by then.

`PROJECT.json` lists every component with its status, and the hazards, each at
its line with the properties that watch it.

## 2. Modules

| Module | Models |
|---|---|
| `Absence` | Python's `None`, for all modules of the code |
| `ScannerExecution`, `ScannerExecutionProperties` | `scanner_execution.py` as operators over a record of facts |
| `ExecutionRecord` | one branch of a producer: facts are observed, the record is made of them |
| `EvidencePromise` | an abstract specification: what any producer promises |
| `TrivyAdapter`, `OsvAdapter`, `OciAdapter` | the three adapters over abstract reports; the OCI one takes from the Trivy one what the two files have in common |
| `TrivyProducer` | `run()` of `producer.py`, with the snapshot, the view, the scanner processes and crashes |
| `OsvProducer` | `run()` of `osv_producer.py`, likewise |
| `OciIdentity` | `oci_identity.py` without the requests: documents, digests, the selection of a manifest, the identities a reference may resolve to |
| `ImageIdentity` | an abstract specification: what a resolution promises |
| `OciResolution` | `resolve_oci_identity` over a `RegistryClient`, request by request |
| `OciProducer` | `run()` of `oci_producer.py`, file by file |
| `PackageArchive` | `package_archive.py`: both readings of the archive, the manifest, coverage and verification |
| `...Properties` | the properties of each, among them the refinement of its abstract specification, and its inductive invariants (the Trivy producer's are in `TrivyProducerInvariant`; the execution record needs no module for its two) |
| `...Proofs` | theorems and proofs |
| `MC...` | small instances |

How they compose. The producers extend their adapter, which extends the
execution record. `OciProducer` extends `OciIdentity` and takes for the
outcome of a resolution any member of `Resolutions`; `OciResolution` is proved to
yield nothing else (`ImplementsPromise` of `OciResolutionProofs`), so the walk
through requests need not be repeated inside every run of the producer. All
three producers implement `EvidencePromise`.

Operators called "mutant" in a comment are plausible bugs of the definition
they follow. No specification uses them; they exist to show that a property
would notice.

### TrivyProducer and the code

`pc` is the place in `run()`; an action is the code between two places at which
anything outside the process can matter.

| `pc` | action | lines of `producer.py` |
|---|---|---|
| quiescent | `Begin`: a new run removes `trivy.raw.json` and nothing else | 216-220 |
| `snapshot` | `Capture`, `CaptureFails` | 221-235 |
| `archive`, `manifest` | `UnpackArchive`, `TakeManifest`, `ArchiveRejected` | 237-276 |
| `binary`, `version` | `CheckBinary`, `CheckVersion` | 278-330 |
| `launch`, `scan` | `Launch`, `LaunchFails`, `ScanRaises`, `ScanReturns` | 332-394 |
| `judge` | `JudgeExit`, `JudgeOutput`, `JudgeUncovered`, `JudgeReport` | 396-536 |
| `evidence`, `map` | `WriteEvidence`, `MapVerdict` | 537-591 |
| `verify`, `receipt` | `Verify`, `VerifyFails`, `WriteReceipt` | 593-613 |
| `finish`, `finish_receipt` | `FinishEvidence`, `FinishReceipt` (`_finish_inconclusive`) | 157-194 |

Every other early return of `run()` is a `Fail(record)`: it sets the record and
goes to `finish`. `meta` is `_SNAPSHOT_META`; a run may be one of the same
process, which keeps it, or of a new one. `evidence.json` is a record, and its
digest an injective constructor over that record, so a receipt carries the
evidence it binds. A scan is numbered by the run that launched it: each run
scans a path in a fresh temporary directory, which is how a report is told from
another run's (`ArtifactName`). A report is what the checks of
`validate_report` tell apart.

The environment: `ScannerExits` (any report or none, any exit code),
`DriftSnapshot` and `DriftView` (a private copy is altered), `Crash` (the
producer dies anywhere, perhaps inside a write, which leaves the file `Torn`;
the scanner dies with it or, with `OrphansSurvive`, need not).

Simplifications a reader should know:

- A copy that was altered does not change back before it is looked at. No
  verification by hashing at the end can see a change that was undone, and the
  README of the repository claims none (its lines 28-30 exclude a privileged
  process that modifies private files).
- What the scanner reads is what the copy holds at its launch. An alteration
  between launch and read can be moved before the launch.
- Runs follow one another. Two producers at the same time in one directory are
  not modelled; nothing in the code supports them.
- The reason of a refused archive is one reason; which one it is, is the
  business of `PackageArchive`.
- Not in the model: stderr log, time stamps, vulnerability database metadata
  (which `OciProducer` has), command line parsing, clean-up of temporary
  directories.

### OsvProducer and the code

The same steps under the same names, without archives, against
`osv_producer.py`: `Begin` and `Capture` 200-222, the checks of binary and version
after it, `Launch`, `ScanRaises` and `ScanReturns` around `subprocess.run`, the
judgement of exit code, output and report, `WriteEvidence`, `MapVerdict`,
`Verify`, `WriteReceipt` up to 576; `map` in `PROJECT.json` has the lines of each.
What differs: the scanner prints, and `ScanReturns` is where the producer writes
`osv.raw.json` itself, an empty one in `ScanRaises`; `ScannerExits` therefore
changes no file, and an orphan changes nothing at all. `Validation` is given the
exit code, whose meaning (0 without findings, 1 with) is part of the report.
Reports are sequences of sections, judged in order, so that the first fault
decides the error.

### OciResolution and the code

| `pc` | action | code in `oci_identity.py` |
|---|---|---|
| `parse` | `Parse` | `parse_reference` |
| `request`, `request_diverted` | `Request`: without a token; `RequestDiverted` after redirects or interim answers | `fetch_manifest`, first attempt, and `urlopen` in it |
| `authorize`, `token` | `Authorize`, `RequestToken` | `_bearer_token` before and from its request |
| `retry`, `retry_diverted` | `Retry`: a second 401 is an error; `RetryDiverted` likewise | `fetch_manifest`, second attempt |
| `read` | `ReadBody` | reading the response |
| `decode_root` | `DecodeRoot`: resolve a manifest, or select and `Descend` | `_decode_document`, `resolve_oci_identity` |
| `decode_selected` | `DecodeSelected` | the same for the manifest selected |

A body is a model value and `Document` says what its bytes decode to, so bytes
decide what they are, and headers what the registry claims they are. `Sha256` is
injective. The registry answers every request with any response of `Responses`
or any error; `sent` is a history variable, the requests in order. The client is
new for each resolution, as in `oci_producer.py`, and its token cache lives as
long as it. Errors end in `failed`; exceptions nothing catches in `escaped`.

`urlopen` follows redirects by itself, reading the body of each, and skips interim
answers (100) before a response. A request that meets these is diverted: it may be
answered afterwards, or never. The requests urllib makes for redirects, at most ten
for one of the client's, are not in `sent`, so `RequestsAreBounded` counts what the
client asks for and not what urllib sends. Where a redirect leads, and that urllib
sends the headers of the first request there, is not in the model.

### OciProducer and the code

| `pc` | action | code in `oci_producer.py` |
|---|---|---|
| quiescent, `clean` | `Begin`, `Unlink` (one file each) | start of `run()` |
| `reference` ... `resolve` | `CheckReference`, `CheckBinary`, `CheckVersion`, `ResolveImage` | up to the identity |
| `identity` ... `check_manifest` | `WriteIdentity`, `WriteManifest`, `WriteIndex`, `CheckManifest` | the documents, and the manifest read back |
| `launch`, `scan` | `Launch`, `ScanRaises`, `ScanReturns` | the scan |
| `judge` | `JudgeExit`, `JudgeOutput`, `JudgeReport` | exit code, output, report |
| `evidence` ... `receipt` | `WriteEvidence`, `MapVerdict`, `WriteReceipt` | the rest of `run()` |
| `fail` | `WriteError` (`_fail`) | a failure before the launch |
| `finish`, `finish_receipt` | `FinishEvidence`, `FinishReceipt` | a failure after it |

`dir` maps each file name to who wrote it and what it holds. A document on disk is
the body it holds, so "the digest of the file" is computed from what is on disk
when the code computes it. The environment: `ScannerExits` (writes the raw
report, also for an orphan), `UpdateDatabase`, `SpoilManifest` (what is on disk is
not what was written: the case the code checks for), `Crash` anywhere, inside a
write with a torn file. A manifest altered after it was checked is not modelled:
nothing in the code looks at it again. An image is a digest in one repository.

### PackageArchive and the code

The gzip file is chosen at the start as a sequence of chunks (`_validate_gzip`
reads it chunk by chunk: `ReadChunk`, `GzipEnds`); tar members come one by one
(`ReadMember`, with the checks in the code's order in `MemberError` and
`FileError`), and the archive ends (`EndOfArchive`) or cannot be read on
(`ReadFails`). With `SnapshotMayChange` the second reading is of another file
than the first, so that only `_BoundedReader` limits it.

Of the accepted view the manifest is taken (`EndOfArchive`, `_manifest`), lock
files are searched for (`DetermineCoverage`, `determine_scan_coverage`), and once
Trivy is done it is compared with the manifest (`VerifyUnchanged`). `AlterView`
puts foreign bytes at a path, below the package, or takes a file away, at any
moment in between. It stays altered, for the reason given above. An alteration
before the manifest is taken is not in this module; in `TrivyProducer` it is what
`UnpackIsShared` allows (section 5).

## 3. Runs

| Run | Configuration | Shows |
|---|---|---|
| `execution_record` | every combination of facts over two components, one of them required or both, failed components outside the required set, sizes zero and unknown (83 thousand) | the two notions of completeness agree; completeness has every documented condition |
| `one_run` | Trivy, 1 run, plain file and archive, 16 reports, fairness (28 thousand states) | receipts never exceed their evidence; complete evidence is verified evidence; the mapper refuses nothing the producer accepted; only a scanner that hangs holds a run up |
| `reused_directory` | Trivy, 2 runs, 3 reports (2.7 million) | the inductive invariant with `ReceiptEarned` in it, and that nothing of the first run shows as the second's |
| `orphans` | Trivy, 2 runs, scanners outlive killed producers (2.8 million) | `ReceiptEarned`, and refinement of `EvidencePromise` |
| `archives` | gzip files of up to 4 chunks; up to 3 members of 25, a fourth being one too many (272 thousand) | exactly one whole bounded member passes; one-pass judgement equals the whole-archive definition; exact unpacking; bounded work; coverage of a verified view, and of an unaltered one, is the archive's |
| `osv` | OSV, 2 runs, 4 reports, 3 exit codes, fairness (388 thousand) | the inductive invariant (earned and backed receipts, settled pairs), freshness, refinement of `EvidencePromise`, progress |
| `oci_resolution` | one resolution, 12 bodies, fairness (30 thousand) | refinement of `ImageIdentity`; uniqueness; bounded requests; tokens answer their challenge; progress |
| `oci_reused_directory` | OCI, 3 runs, 1 database update (299 thousand) | no file refers to one that is not there; nothing stale; errors stand alone; refinement of `EvidencePromise` |
| `oci_orphans` | OCI, 2 runs, one report per outcome, surviving scanners, fairness (260 thousand) | earned receipts; complete chains of documents; the mapper agrees; progress |
| `stale_receipt`, `unverified_complete`, `oci_previous_report` | see section 5 | where the documents and the code part |

Why the bounds are enough. Two contents let every copy be right or wrong; in
the two large Trivy runs they are interchangeable (symmetry, for invariants and
the refinement, which is a safety property). Two runs let any state one run can
leave meet any run; nothing reads what the run before last wrote, except the
file of a scanner that outlived two producers, for which three Trivy runs with
orphans are too many. Without orphans the OCI runs are three, since a clean-up
cut short may meet files of two earlier runs.

*Trivy.* `AllReports` has one report per outcome of `validate_report`, plus one
that is foreign in every way without results; `FewReports` keeps the three that
reach different exits when two runs are combined. Exit codes 0 and 1 stand for
success and any failure.

*Archives.* Each limit is small enough to be reached exactly and exceeded by
one: chunks give 0, 3 or 4 units of at most 6. Names include spellings of one
path, a path below another, and names outside the package.

*OSV.* Four reports, one for each place at which `run()` can leave the good path
(unreadable, about another file) and one for each verdict; exit codes 0, 1 and
128. That each single fault of a report is judged right is `AcceptanceIsSoundness`,
proved for all reports.

*OCI resolution.* Twelve bodies: an index that declares its type, one that does
not, indexes with an ambiguous, a wrong, a nested or a broken entry, manifests
with and without type and one for a variant, bytes that are no JSON and bytes in
no encoding. The registry may answer each request with each of them; four come
under every header, two with every digest a registry may state. One realm and two scopes are enough for two cache keys; two keys are
enough for a token to be the wrong one.

*OCI producer.* An index, its two manifests, one platform: an image is a root or
a manifest asked for directly, and two images can be confused. One database
update can fall before, during or after a scan.

`CHECK_DEADLOCK FALSE` is set because a directory after its last run, an archive
after its judgement and a resolution after its end rightly do nothing more.

`RetainedReportIsJudged` (Trivy) is checked without surviving scanners only and
holds only there: the report is parsed at line 391 and digested at line 138, and
an orphan may write in between. The receipt is still earned then (`orphans`), but
the retained report may be another than the one judged. The same is why
`KeepsPromise` of the OCI producer needs runs whose scanners die with them: its
report may then be an orphan's (`oci_previous_report`), about the same manifest but
not this run's exposure. A Trivy file scan cannot be confused so, since its path
is fresh; OSV prints to a pipe.

**Fairness.** A running producer takes its own steps and notices that its scanner
has exited (`FairSpec` of the three producers). Nothing is assumed of scanners,
their version query or the caller: `subprocess.run` is called without a timeout,
so `CheckVersion` and `ScannerExits` are not fair, nor is `ResolveImage`. A
resolution's manifest requests are fair up to the first headers, since `urlopen` has
a timeout on each wait and headers are of bounded size; `RequestToken` and
`ReadBody` are not: they include a body, which may go on for ever a byte at a time.
Nor are `RequestDiverted` and `RetryDiverted`: nothing bounds the body of a
redirect or the number of interim answers. So the liveness properties say that a run is always
either over or waiting for one of these, and that it ends once its scan has.

## 4. Proofs

`tlapm` checks every leaf. All theorems hold for any sets of artifacts, contents,
bodies, reports, exit codes, chunks and members, any limits and any number of
runs. Every invariant and every safety action property of a passing run is
stated by one of them. `EvidenceBacks` of the OSV and OCI producers states of them
what the run `one_run` checks of Trivy's; the OSV producer's is a part of the `IInv`
that `osv` checks, the OCI producer's is proved only.

| Module | Theorems |
|---|---|
| `ScannerExecutionProofs` | `StatusAndAcceptanceAgree`, `CompletenessIsEarned`, `StatusAloneIsRejected` (a forged status is not believed, unless `fatal_failure`, which the record does not keep, was the only obstacle) |
| `ExecutionRecordProofs` | `AcceptanceFollowsStatus`, `CompleteRecordsAreEligible`: the same of every record a producer makes |
| `PackageArchiveProofs` | `Invariance`, `TypeCorrect`, `GzipJudged`, `AcceptanceIsExact`, `ViewsAreExact`, `CoverageIsTrue`, `BoundedWork`, whether or not the snapshot changes between its two readings |
| `TrivyProducerProofs` | `TypeCorrect`; `Invariance`, `ReceiptsAreEarned` and `ImplementsPromise`, unless the view is altered while it is being unpacked (`~UnpackIsShared`) |
| `TrivyPairProofs` | `EvidenceBacks`, `SettledPairs`, `MapperAgrees`, `EvidenceInputs`, under no assumption on the copies; `SettledIsVerified` with `~UnpackIsShared`; `RetainedReportsAreFresh`, `RetainedReportsAreJudged` with `~OrphansSurvive` |
| `OsvProducerProofs` | `AcceptanceIsSoundness`, `Invariance`, `TypeCorrect`, `ReceiptsAreEarned`, `EvidenceBacks`, `SettledPairs`, `MapperAgrees`, `EvidenceInputs`, `RetainedReportsAreFresh`, `SettledIsVerified`, `ImplementsPromise` |
| `OciResolutionProofs` | `Invariance`, `TypeCorrect`, `TokensAnswer`, `ImplementsPromise`, `AnswersAreUnique`, `RequestsBounded`, whatever the registry does |
| `OciProducerProofs` | `AcceptanceIsSoundness`, `Invariance`, `TypeCorrect`, `ReceiptsAreEarned`, `EvidenceBacks`, `DirectoryIsClosed`, `FailuresStandAlone`, `ChainsAreComplete`, `MapperAgrees`; with `~OrphansSurvive` also `NothingStays`, `OwnReportsSatisfy`, `ImplementsPromise` |

Assumptions on the constants are named where they are declared: the constants have
their kinds (`ProducerConstants`, `ArchiveConstants`, `IdentityConstants`,
`ResolutionConstants`, `ObservableFacts`), and the marks `None`, `Torn` and
`Malformed` are none of the values they stand in for (`NoneIsNoValue`,
`MarksAreNo...`). TLC evaluates them in every run. `UnpackIsShared` and
`OrphansSurvive` are facts about the machine, not about the code.

**Trivy.** `ReceiptEarned` is not inductive: it says nothing of the draft a run is
about to publish. `IInv` adds what is set at each `pc` (`Shape`), that a scan is
recorded under its own run and has no report before it exits (`ScansByRun`), what
has been established of the report and the draft (`Progress`), and the argument
about time, `DriftShows`: as long as the run has not verified, whatever was
unpacked or read and is not what was captured still shows as a difference
between the copies and their digests. After the verification this becomes
`scans[runs].read = captured`. `ConclusiveIsFinal` (a conclusive scan is never
overwritten) carries the receipts of earlier runs through. The pair properties
relate the two files to each other, so their invariant `PairInv` drops what is
about copies and adds `Prepared`: from which `pc` on the evidence on disk, the
execution record and the draft name the same artifact, digest, scanner and
record. Its central lemma is `AcceptedMaps`: at `map` the scan is conclusive and the
record complete, so the report passes the mapper's validation too.

What the evidence says of its input is carried by `RecordIsOwn`: from the capture
on, `_SNAPSHOT_META` holds what this run captured and unpacked, the record names
the contract this run is under, and a run on its way to `finish` has a record
that is complete only for a package with nothing to scan (`Unverdicted`). `SettledComplete` is inductive relative to both invariants (`CompleteStep`): `PairInv`
says what record a run settles with, `IInv` what its scan read. The
two properties of the retained report need `Attended`: the only scanner running is
the current run's, and only at `scan`. Then `rawFile` can be followed through the
run (`ReportIsOwn`): gone after `Begin`, this run's after the scan, and the one
that was parsed when it is digested.

**OSV.** One invariant does both, since there is one copy and the report the
receipt binds is the current run's, orphans or not. `AcceptanceIsSoundness` turns the
code's section-by-section search for the first fault into a definition of what
a sound report is; `Progress` needs only the latter. `Prepared` carries the exit
code, recorded in the evidence, and the count of findings, which becomes the
verdict, to the receipt together. `RecordIsOwn` says here what `_SNAPSHOT_META` and
`osv.raw.json` hold at each `pc`, and that a run on its way to `finish` has a record
that is not complete; with `Prepared` this is `SettledComplete`. `RetainedReportIsFresh` needs
no assumption on orphans, since the producer writes the report itself.

**OCI resolution.** `LinksAreChecked` says that the link followed last has been
checked against the document before it; `ChainsAgree` that two chains through the
same self-describing bytes are one, from which `AnswersAreUnique` follows.
`TokenAnswersChallenge` needs `TokensInPlace`: a token is at hand only between its
challenge and the end of the fetch. `RequestsCounted` compares the requests sent with
`Budget`, what the place in the client has left of them: two for a root that was
left, none, one or two for the document at hand. For the tokens it adds that one
asked for is cached unless the resolution is over.

**OCI producer.** `NothingDangles` holds at every moment because the order of the
removals (`StaleNames`) is the reverse of the order of the writes as far as one
file refers to another: `DanglesStep` shows it for each file written or removed,
from `DocumentsStored` (which documents are on disk by which `pc`) and `NotYet` (what
was removed stays away until this run writes it). The outcome of a resolution is
any member of `Resolutions`, which `ImplementsPromise` of `OciResolutionProofs`
shows is all it can be. `NothingStays`,
`OwnReportsSatisfy` and the refinement need in addition that the only scanner
running is the current run's (`NoOrphans`).

**Package archive.** The properties of the archive compare a state reached
member by member with a definition over all members. `IInv` says at each moment
what holds of the members read so far: `CountsAreExact` (what was consumed and
extracted is their sum), `MembersPassed` (none of them is a fault, nor a second of
its name), `UnpackedInFull` (each file is at its path, and nothing else is),
`GzipInProgress` (the chunks read are the beginning of a gzip file with its budget
not exceeded), `SurveyIsTrue` (the coverage is of the files as they were when they
were searched: if they are the manifest's at the verification, it is of those).
Two things in it are inductions. The sum over a finite set is a fold, and a fold
is a recursive function on finite sets; a name is normalised by a recursive
function on lengths. The library's induction theorems cannot be used here, their
hypothesis being an operator. The proofs argue instead from a smallest
counterexample: the set of the numbers, or of the finite sets, at which the
statement fails is a set like another, and `WFMin` gives it a minimal element
(`SmallestNumber`, `SmallestSet`). From these follow that the sums exist, that one
may take any element first, and that one more element adds its weight
(`SumsAgree`, `SumFromAny`, `SumWithOneMore`, `SumOfPart`); `BoundedWork` is then
that the files on disk are a part of the members that passed.

**Refinement.** A step of a producer is classified by what a reader of the
directory sees: beginning a run is `Start`, removing the receipt `Retract` (OCI), the
conclusive exit of its scanner `Expose`, `WriteReceipt` `Conclude`, `FinishReceipt`
`Decline`, ending without a receipt `Withhold`, `Crash` `Cut`, and everything else a
stutter (`WorkIsSilent`); `Simulation` puts these together.

Only model-checked: liveness, whose fairness needs `ENABLED`, which is out of the
prover's reach: `OnlyTheScannerBlocks`, `OnlyOthersBlock`, `OnlyASenderBlocks`,
`ExitLeadsToOutcome`. The three counterexamples of section 5 are runs, too.

No module uses a `RECURSIVE` operator.

## 5. Where the documents and the code part

Each of these is a run that TLC ends with a counterexample; `PROJECT.json` quotes
the lines.

1. `stale_receipt`: an artifact that cannot be read makes the Trivy run replace
   `evidence.json` and leave the previous run's `receipt.json`, which then binds
   evidence that is no longer there. The OSV producer does the same
   (`src/osv_producer.py:208`); the OCI producer removes its old files first.
2. `unverified_complete`: an archive scan without result sections may be
   recorded as complete without the verification after the scan, and without a
   look at the version and the `ArtifactName` of the report. The receipt is
   inconclusive all the same.
3. `oci_previous_report`: the scanner of a killed run may write its report after the
   next run has removed the old one, and the next run accepts it, although the
   comment at `src/oci_producer.py:261` says it must not. The receipt is still
   earned: the report names the manifest it is about.

Also met while modelling, without a run of their own:

- Trivy archive runs that fail the binary or version check record the contract
  and components of a plain file (`src/producer.py:284`).
- The view's manifest is taken of what is on disk after unpacking and is
  compared with the archive at no time (`src/package_archive.py:114`). It takes
  something that alters a private directory; it is the assumption
  `~UnpackIsShared` of the Trivy theorems.
- Bytes in no encoding, protocol errors before a body and a token with a character
  no header may have raise exceptions the client does not catch
  (`src/oci_identity.py:118`, `:311`, `:305`): the OCI producer then ends
  with a traceback and no `oci-error.json`. In the models this is `escaped`, and for
  the producer the same as a crash.
- The vulnerability database is read for the evidence after the scan
  (`src/producer.py:129`, `src/oci_producer.py:111`); an update in between makes the
  evidence name a database the scan did not use. `OciProducer` has the step.
- An OCI failure before the launch writes `oci-error.json` and no evidence, while
  `docs/scanner-execution-completeness-closure.md:30-31` speaks of all paths.

## 6. What is left

Not modelled, and why:

- Action pins (`scripts/check_action_pins.py`): a text filter over workflow files
  without state; there is nothing but the wording of a line to model.
- Two producers at the same time in one directory: nothing in the code or its
  documents supports it.
- Report sections against the package's individual lock files
  (`src/producer.py:473`): what Trivy reports on for a given file is Trivy's.
- The manifest of an image altered after it was checked, the vulnerability
  database of the Trivy file producer, logs, time stamps, command lines, and the
  removal of temporary directories, which nothing in the code looks at again.
- The strings: what makes a text a reference, a digest, a legal path or a
  challenge is a field of the abstract value.

Next to prove: what TLC checks is proved, except for liveness. What remains are
statements no run makes yet: that `PackageArchive` implements what
`TrivyProducer` assumes of an unpacked archive (now an argument in words, and the
common assumption `~UnpackIsShared`), as an abstract specification of a view both
refer to; and that the safety half of progress holds, a decreasing measure on the
steps between two waits, which needs no `ENABLED`.
