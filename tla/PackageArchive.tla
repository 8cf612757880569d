---------------------------- MODULE PackageArchive ----------------------------
(***************************************************************************)
(* How an npm package archive becomes the directory Trivy scans            *)
(* (PackageArchiveView.create in src/package_archive.py).  The archive is  *)
(* read twice: once as a gzip file, chunk by chunk, to see that it is one  *)
(* whole member of bounded size; then as a tar stream, member by member,   *)
(* each of which is judged and, if it is a regular file, written at once.  *)
(* The manifest of what was written identifies the view; the files are     *)
(* then searched for inputs Trivy supports (determine_scan_coverage) and,  *)
(* after the scan, compared with the manifest.                             *)
(*                                                                         *)
(* Data.  A chunk of the gzip file is what decompressing it yields: how    *)
(* many bytes come out, and whether the gzip member goes on ("more"), ends *)
(* with the chunk ("end"), ends before it ("extra") or is damaged          *)
(* ("corrupt").  A member's name is the parts between its separators, with *)
(* what makes it no relative name at all.  Sizes are in units; a header of *)
(* the tar stream takes one.  The bytes of a file are the index of the     *)
(* member they came from; a member says whether its bytes are JSON.        *)
(***************************************************************************)
EXTENDS Integers, SequencesExt

CONSTANTS
  GzipFiles,                 \* the archives the producer may be given
  Members,                   \* the tar members one may contain
  SnapshotMayChange,         \* the file may be another at the second reading
  MaxArchiveChunks,          \* MAX_ARCHIVE_BYTES, in chunks
  MaxDecompressed,           \* MAX_DECOMPRESSED_BYTES
  MaxMemberCount,            \* MAX_MEMBER_COUNT
  MaxSingleFile,             \* MAX_SINGLE_FILE_BYTES
  MaxTotalExtracted,         \* MAX_TOTAL_EXTRACTED_BYTES
  MaxPathLength              \* MAX_PATH_LENGTH, in parts

Chunks == [out : Nat, tail : {"more", "end", "extra", "corrupt"}]
Names == [legal : BOOLEAN, rooted : BOOLEAN, parts : Seq(STRING)]

ASSUME ArchiveConstants ==
  /\ GzipFiles \subseteq Seq(Chunks)
  /\ Members \subseteq [name : Names, kind : {"dir", "file", "other"}, size : Nat,
                       json : BOOLEAN]
  /\ SnapshotMayChange \in BOOLEAN
  /\ MaxArchiveChunks \in Nat /\ MaxDecompressed \in Nat
  /\ MaxMemberCount \in Nat /\ MaxSingleFile \in Nat
  /\ MaxTotalExtracted \in Nat /\ MaxPathLength \in Nat

VARIABLES
  gzip,       \* the archive
  next,       \* how many of its chunks were read
  produced,   \* what they decompressed to
  entries,    \* the members read so far
  consumed,   \* _BoundedReader.consumed
  total,      \* the bytes of the regular files among them
  files,      \* the view: which entry is at which path
  manifest,   \* what it was found to be when it had been unpacked
  coverage,   \* what was found in it for Trivy to report on, once looked for
  pc, reason

after == <<manifest, coverage>>
vars == <<gzip, next, produced, entries, consumed, total, files, after, pc, reason>>

NoFiles == [path \in {} |-> 0]
Foreign == 0    \* bytes that came from no member

-----------------------------------------------------------------------------
(***************************************************************************)
(* The checks.                                                             *)
(***************************************************************************)
\* Mutant of GzipError: nothing looks past the chunk the member ends in.
GzipErrorOfChunk(chunk, more) ==
  IF chunk.out > MaxDecompressed - produced
  THEN "archive_decompressed_size_limit_exceeded"
  ELSE IF chunk.tail = "corrupt" THEN "archive_gzip_integrity_failed"
  ELSE IF chunk.tail = "extra" THEN "archive_gzip_trailing_data"
  ELSE ""

(* decompress is asked for one byte more than is still allowed, so that an
   excess shows without being held. *)
GzipError(chunk, more) ==
  IF chunk.out > MaxDecompressed - produced
  THEN "archive_decompressed_size_limit_exceeded"
  ELSE IF chunk.tail = "corrupt" THEN "archive_gzip_integrity_failed"
  ELSE IF chunk.tail = "extra" \/ (chunk.tail = "end" /\ more)
  THEN "archive_gzip_trailing_data"
  ELSE ""

(* posixpath.normpath of a relative name without "..". *)
Normalized(name) ==
  LET kept[n \in 0..Len(name.parts)] ==
        IF n = 0 THEN <<>>
        ELSE IF name.parts[n] \in {"", "."} THEN kept[n - 1]
        ELSE Append(kept[n - 1], name.parts[n])
  IN kept[Len(name.parts)]

Unsafe(name) ==
  \/ ~name.legal \/ name.rooted
  \/ \E i \in DOMAIN name.parts : name.parts[i] = ".."
  \/ Normalized(name) = <<>>

PathError(name) ==
  IF Unsafe(name) THEN "archive_path_unsafe"
  ELSE IF Len(Normalized(name)) > MaxPathLength THEN "archive_path_limit_exceeded"
  ELSE IF Head(Normalized(name)) # "package" THEN "archive_root_invalid"
  ELSE ""

(* A file cannot be created below a file, nor where a directory is. *)
Obstructed(path) ==
  \E other \in DOMAIN files : IsPrefix(other, path) \/ IsPrefix(path, other)

\* Mutant of FileError: the total is compared before the file is added to it.
FileErrorLate(m) ==
  IF Normalized(m.name) \in DOMAIN files THEN "archive_duplicate_path"
  ELSE IF m.size > MaxSingleFile THEN "archive_member_size_limit_exceeded"
  ELSE IF total > MaxTotalExtracted THEN "archive_total_size_limit_exceeded"
  ELSE IF Obstructed(Normalized(m.name)) THEN "archive_extraction_failed"
  ELSE ""

(* The checks of a regular file, once its type is known. *)
FileError(m) ==
  IF Normalized(m.name) \in DOMAIN files THEN "archive_duplicate_path"
  ELSE IF m.size > MaxSingleFile THEN "archive_member_size_limit_exceeded"
  ELSE IF total + m.size > MaxTotalExtracted
  THEN "archive_total_size_limit_exceeded"
  ELSE IF Obstructed(Normalized(m.name)) THEN "archive_extraction_failed"
  ELSE IF consumed + 1 + m.size > MaxDecompressed
  THEN "archive_decompressed_size_limit_exceeded"
  ELSE ""

\* Mutant of MemberError: what is not a regular file is skipped.
MemberErrorSkipping(m) ==
  IF consumed + 1 > MaxDecompressed
  THEN "archive_decompressed_size_limit_exceeded"
  ELSE IF Len(entries) = MaxMemberCount THEN "archive_member_limit_exceeded"
  ELSE IF PathError(m.name) # "" THEN PathError(m.name)
  ELSE IF m.kind = "file" THEN FileError(m) ELSE ""

MemberError(m) ==
  IF consumed + 1 > MaxDecompressed
  THEN "archive_decompressed_size_limit_exceeded"
  ELSE IF Len(entries) = MaxMemberCount THEN "archive_member_limit_exceeded"
  ELSE IF PathError(m.name) # "" THEN PathError(m.name)
  ELSE IF m.kind = "dir" THEN ""
  ELSE IF m.kind = "other" THEN "archive_member_type_unsupported"
  ELSE FileError(m)

-----------------------------------------------------------------------------
Init ==
  /\ gzip \in GzipFiles /\ next = 0 /\ produced = 0
  /\ entries = <<>> /\ consumed = 0 /\ total = 0 /\ files = NoFiles
  /\ manifest = NoFiles /\ coverage = "" /\ pc = "size" /\ reason = ""

(* ArchiveValidationError: the temporary directory goes with it. *)
Reject(error) == pc' = "rejected" /\ reason' = error /\ files' = NoFiles

CheckSize ==
  /\ pc = "size"
  /\ IF Len(gzip) > MaxArchiveChunks THEN Reject("archive_size_limit_exceeded")
     ELSE pc' = "gzip" /\ UNCHANGED <<reason, files>>
  /\ UNCHANGED <<gzip, next, produced, entries, consumed, total, after>>

ReadChunk ==
  /\ pc = "gzip" /\ next < Len(gzip)
  /\ LET chunk == gzip[next + 1]
         error == GzipError(chunk, next + 1 < Len(gzip))
     IN IF error # "" THEN Reject(error) /\ UNCHANGED <<next, produced>>
        ELSE /\ next' = next + 1 /\ produced' = produced + chunk.out
             /\ pc' = IF chunk.tail = "end" THEN "members" ELSE "gzip"
             /\ UNCHANGED <<reason, files>>
  /\ UNCHANGED <<gzip, entries, consumed, total, after>>

GzipEnds ==
  /\ pc = "gzip" /\ next = Len(gzip)
  /\ Reject("archive_gzip_truncated")
  /\ UNCHANGED <<gzip, next, produced, entries, consumed, total, after>>

Body(m) == IF m.kind = "file" THEN m.size ELSE 0

(* The view when a file has been written to it. *)
With(path, bytes) ==
  [other \in DOMAIN files \union {path} |->
     IF other = path THEN bytes ELSE files[other]]

\* Mutant of ReadMember: an empty file is not written.
ReadMemberUnlessEmpty(m) ==
  /\ pc = "members" /\ (SnapshotMayChange \/ consumed + 1 + Body(m) <= produced)
  /\ entries' = Append(entries, m) /\ consumed' = consumed + 1 + Body(m)
  /\ total' = total + Body(m)
  /\ IF MemberError(m) # "" THEN Reject(MemberError(m))
     ELSE /\ files' = IF Body(m) = 0 THEN files
                      ELSE With(Normalized(m.name), Len(entries'))
          /\ UNCHANGED <<pc, reason>>
  /\ UNCHANGED <<gzip, next, produced, after>>

(* The tar stream is what the gzip file decompressed to, unless the snapshot
   is no longer the file that was checked. *)
ReadMember(m) ==
  /\ pc = "members" /\ (SnapshotMayChange \/ consumed + 1 + Body(m) <= produced)
  /\ entries' = Append(entries, m) /\ consumed' = consumed + 1 + Body(m)
  /\ total' = total + Body(m)
  /\ IF MemberError(m) # "" THEN Reject(MemberError(m))
     ELSE /\ files' = IF m.kind = "dir" THEN files
                      ELSE With(Normalized(m.name), Len(entries'))
          /\ UNCHANGED <<pc, reason>>
  /\ UNCHANGED <<gzip, next, produced, after>>

(* A damaged tar header, a body that is cut short, an error of the disk. *)
ReadFails ==
  /\ pc = "members"
  /\ Reject("archive_extraction_failed")
  /\ UNCHANGED <<gzip, next, produced, entries, consumed, total, after>>

EndOfArchive ==
  /\ pc = "members"
  /\ IF files = NoFiles \/ \E path \in DOMAIN files : Len(path) = 1
     THEN Reject("archive_root_missing") /\ UNCHANGED manifest
     ELSE pc' = "accepted" /\ manifest' = files /\ UNCHANGED <<reason, files>>
  /\ UNCHANGED <<gzip, next, produced, entries, consumed, total, coverage>>

-----------------------------------------------------------------------------
(***************************************************************************)
(* The accepted view, until the producer is done with it.                  *)
(***************************************************************************)

(* A file is altered, added below the package or taken away, and stays so. *)
AlterView ==
  /\ pc \in {"accepted", "surveyed"} /\ files = manifest
  /\ \E m \in Members :
       LET path == Normalized(m.name) IN
       /\ PathError(m.name) = "" /\ Len(path) > 1
       /\ \/ files' = With(path, Foreign)
          \/ /\ path \in DOMAIN files
             /\ files' = [other \in DOMAIN files \ {path} |-> files[other]]
  /\ UNCHANGED <<gzip, next, produced, entries, consumed, total, after, pc, reason>>

\* Mutant of Candidates: only the root of the package is looked at.
CandidatesOfRoot == DOMAIN files \intersect {<<"package", "package-lock.json">>}

Candidates == {path \in DOMAIN files : Last(path) = "package-lock.json"}

(* Of foreign bytes it is not known whether they are JSON. *)
Parses(path) == files[path] # Foreign => entries[files[path]].json

(* Any one that cannot be read, or is not JSON, leaves it open what Trivy
   should have reported on. *)
DetermineCoverage ==
  /\ pc = "accepted" /\ pc' = "surveyed"
  /\ \/ /\ Candidates # {} /\ coverage' = "indeterminate"
     \/ /\ \A path \in Candidates : Parses(path)
        /\ coverage' = IF Candidates = {} THEN "no_supported_targets"
                                          ELSE "targets_present"
  /\ UNCHANGED <<gzip, next, produced, entries, consumed, total, files, manifest,
                 reason>>

VerifyUnchanged ==
  /\ pc = "surveyed" /\ coverage # "indeterminate"
  /\ IF files # manifest THEN Reject("archive_view_changed")
     ELSE pc' = "verified" /\ UNCHANGED <<reason, files>>
  /\ UNCHANGED <<gzip, next, produced, entries, consumed, total, after>>

Next ==
  \/ CheckSize \/ ReadChunk \/ GzipEnds
  \/ \E m \in Members : ReadMember(m)
  \/ ReadFails \/ EndOfArchive
  \/ AlterView \/ DetermineCoverage \/ VerifyUnchanged

Spec == Init /\ [][Next]_vars
===============================================================================
