----------------------- MODULE PackageArchiveProperties -----------------------
(***************************************************************************)
(* What unpacking an archive has to guarantee, against definitions that    *)
(* look at the whole archive at once where the code goes through it once.  *)
(***************************************************************************)
EXTENDS PackageArchive

Accepted == {"accepted", "surveyed", "verified"}
GzipReasons == {"archive_decompressed_size_limit_exceeded",
                "archive_gzip_integrity_failed", "archive_gzip_trailing_data",
                "archive_gzip_truncated"}

-----------------------------------------------------------------------------
Yields == [i \in DOMAIN gzip |-> gzip[i].out]

(* One whole gzip member of bounded size and nothing after it. *)
SoundGzip ==
  /\ gzip # <<>> /\ Last(gzip).tail = "end"
  /\ \A i \in 1..(Len(gzip) - 1) : gzip[i].tail = "more"
  /\ SumFunctionOnSet(Yields, DOMAIN gzip) <= MaxDecompressed

(* Whatever the chunks it is read in, a gzip file is passed on to the tar
   reader when it is one whole, bounded member, and refused for its gzip form
   only when it is not (_validate_gzip). *)
GzipIsJudged ==
  /\ pc \in {"members"} \union Accepted => SoundGzip
  /\ pc = "rejected" /\ entries = <<>> /\ reason \in GzipReasons => ~SoundGzip

-----------------------------------------------------------------------------
Path(i) == Normalized(entries[i].name)
FileIds == {i \in DOMAIN entries : entries[i].kind = "file"}
Sizes == [i \in DOMAIN entries |-> entries[i].size]
FileBytes(ids) == SumFunctionOnSet(Sizes, ids)

Acceptable ==
  /\ Len(entries) <= MaxMemberCount
  /\ \A i \in DOMAIN entries : /\ PathError(entries[i].name) = ""
                               /\ entries[i].kind # "other"
  /\ FileIds # {}
  /\ \A i \in FileIds : Len(Path(i)) > 1 /\ entries[i].size <= MaxSingleFile
  /\ \A i, j \in FileIds : i # j => ~IsPrefix(Path(i), Path(j))
  /\ FileBytes(FileIds) <= MaxTotalExtracted
  /\ Len(entries) + FileBytes(FileIds) <= MaxDecompressed

RefusalIsDue ==
  pc = "rejected" /\ entries # <<>>
    /\ reason \notin {"archive_extraction_failed", "archive_view_changed"}
    => ~Acceptable

(* An archive is accepted only if all its members together are acceptable, and
   refused for a reason of its own only if they are not, although each member
   is judged before the later ones are known. *)
AcceptedIffAcceptable == (pc \in Accepted => Acceptable) /\ RefusalIsDue

(* A view with the one file of each regular member. *)
Holds(view) ==
  /\ \A i \in FileIds : Path(i) \in DOMAIN view /\ view[Path(i)] = i
  /\ \A path \in DOMAIN view : view[path] \in FileIds /\ Path(view[path]) = path

(* The manifest that identifies the scanned view is the archive's: the file at
   every path is the one member of that name, and every regular member has its
   file. *)
ViewIsTheArchive == pc \in Accepted => Holds(manifest)

Locks == {i \in FileIds : Last(Path(i)) = "package-lock.json"}

(* When a view has been verified, what was found in it is true of the archive,
   although the search ran over files that may have been altered since they
   were unpacked: nothing to report on means that no regular member, wherever
   it lies and however its name is spelled, is a lock file, and something to
   report on that there is one and all can be read.  The same holds unverified
   of a view that was left alone: it is all there is for a scan without
   results, which counts as complete on what was found (producer.py:473-488). *)
CoverageIsTheArchives ==
  \/ pc = "verified"
  \/ pc = "surveyed" /\ files = manifest /\ coverage # "indeterminate"
  =>
    /\ (coverage = "no_supported_targets") <=> (Locks = {})
    /\ \A i \in Locks : entries[i].json

Unpacked == {files[path] : path \in DOMAIN files} \ {Foreign}

(* At no moment, before a refusal included, does an archive make the producer
   write or decompress more than its limits, even when the file is exchanged
   between the two readings (_BoundedReader and the member checks). *)
WorkIsBounded ==
  /\ FileBytes(Unpacked) <= MaxTotalExtracted
  /\ \A i \in Unpacked : entries[i].size <= MaxSingleFile
  /\ pc # "rejected" => consumed <= MaxDecompressed /\ Len(entries) <= MaxMemberCount

-----------------------------------------------------------------------------
(***************************************************************************)
(* The inductive invariant.                                                *)
(***************************************************************************)
Reading == {"members"} \union Accepted
PCs == {"size", "gzip", "rejected"} \union Reading
Coverages == {"no_supported_targets", "targets_present", "indeterminate"}

Reasons ==
  GzipReasons \union
  {"archive_size_limit_exceeded", "archive_path_unsafe", "archive_path_limit_exceeded",
   "archive_root_invalid", "archive_root_missing", "archive_duplicate_path",
   "archive_member_limit_exceeded", "archive_member_size_limit_exceeded",
   "archive_total_size_limit_exceeded", "archive_member_type_unsupported",
   "archive_extraction_failed", "archive_view_changed"}

(* At every path the bytes of a member that was read, or foreign ones. *)
IsView(view) ==
  /\ view = [path \in DOMAIN view |-> view[path]]
  /\ DOMAIN view \subseteq Seq(STRING)
  /\ \A path \in DOMAIN view : view[path] \in {Foreign} \union DOMAIN entries

(* The variables hold what the code can put there, and a refusal has a reason. *)
TypeOK ==
  /\ gzip \in GzipFiles /\ pc \in PCs
  /\ next \in 0..Len(gzip) /\ produced \in Nat
  /\ entries \in Seq(Members) /\ consumed \in Nat /\ total \in Nat
  /\ IsView(files) /\ IsView(manifest)
  /\ coverage \in Coverages \union {""}
  /\ IF pc = "rejected" THEN reason \in Reasons ELSE reason = ""

(* The gzip member goes on up to the chunk in which it was found to end. *)
GzipInProgress ==
  /\ produced = SumFunctionOnSet(Yields, 1..next) /\ produced <= MaxDecompressed
  /\ pc \in {"size", "gzip"} => \A i \in 1..next : gzip[i].tail = "more"
  /\ pc = "size" => next = 0
  /\ pc \in Reading => SoundGzip

(* Nothing is unpacked before the gzip file was read. *)
NothingUnpacked ==
  pc \in {"size", "gzip"} =>
    entries = <<>> /\ consumed = 0 /\ total = 0 /\ files = NoFiles

(* The counters hold what they count, and every limit still holds. *)
CountsAreExact ==
  pc \in Reading =>
    /\ total = FileBytes(FileIds) /\ consumed = Len(entries) + total
    /\ total <= MaxTotalExtracted /\ consumed <= MaxDecompressed
    /\ Len(entries) <= MaxMemberCount

(* Every member read so far passed, among those before it. *)
MembersPassed ==
  pc \in Reading =>
    /\ \A i \in DOMAIN entries : /\ PathError(entries[i].name) = ""
                                 /\ entries[i].kind # "other"
    /\ \A i \in FileIds : entries[i].size <= MaxSingleFile
    /\ \A i, j \in FileIds : i # j => ~IsPrefix(Path(i), Path(j))

(* What was unpacked holds the members read so far; what an accepted view has turned into
   differs from its manifest only in foreign and missing files. *)
UnpackedInFull ==
  /\ pc = "members" => Holds(files)
  /\ pc \in Accepted =>
       /\ Holds(manifest) /\ FileIds # {} /\ \A i \in FileIds : Len(Path(i)) > 1
       /\ \A path \in DOMAIN files : files[path] # Foreign =>
            path \in DOMAIN manifest /\ files[path] = manifest[path]
  /\ pc = "rejected" => files = NoFiles

(* A view that is, or is again, its manifest was that when it was searched. *)
SurveyIsTrue ==
  /\ pc = "verified" => files = manifest /\ coverage # "indeterminate"
  /\ pc \in {"surveyed", "verified"} /\ files = manifest
       /\ coverage # "indeterminate" =>
       /\ (coverage = "no_supported_targets") <=> (Locks = {})
       /\ \A i \in Locks : entries[i].json

IInv ==
  /\ TypeOK /\ GzipInProgress /\ NothingUnpacked /\ CountsAreExact
  /\ MembersPassed /\ UnpackedInFull /\ SurveyIsTrue
  /\ GzipIsJudged /\ RefusalIsDue
===============================================================================
