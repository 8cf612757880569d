----------------------------- MODULE MCOciProducer -----------------------------
(***************************************************************************)
(* Small instances of the OCI producer: an index of two platforms and its  *)
(* manifests, one of which may also be asked for directly, and a report    *)
(* for every way validate_image_report can end.                            *)
(***************************************************************************)
EXTENDS OciProducerProperties, TLC

CONSTANTS amd64, arm64, an_index, m1, m2

MCMachines == {amd64, arm64}
MCBodies == {an_index, m1, m2}

P(machine) == [machine |-> machine, variant |-> None]
Item(body, size, machine) ==
  [is_object |-> TRUE, platform |-> P(machine), digest |-> Sha256(body),
   size |-> size, mediaType |-> "oci_manifest"]
Doc(size, type) ==
  [form |-> "object", size |-> size, mediaType |-> type,
   lists_manifests |-> FALSE, manifests |-> << >>]

MCDocument ==
  (an_index :> [Doc(3, "oci_index") EXCEPT !.lists_manifests = TRUE,
               !.manifests = <<Item(m1, 1, amd64), Item(m2, 2, arm64)>>])
    @@ (m1 :> Doc(1, "oci_manifest")) @@ (m2 :> Doc(2, "oci_manifest"))

Digest(b) == [kind |-> "digest", digest |-> Sha256(b)]
FewRequested == {Digest(an_index), Digest(m1)}
AllRequested ==
  {Digest(b) : b \in MCBodies}
    \union [kind : {"malformed", "tag"}, digest : {None}]
MCWishes == {P(amd64)}

Sound1 == [form |-> "object", results |-> "sections", version |-> "pinned",
           names |-> "target", defect |-> "", findings |-> 0]

(* A clean report, one with findings, and one about another image. *)
FewReports ==
  {Sound1, [Sound1 EXCEPT !.findings = 1], [Sound1 EXCEPT !.names = "elsewhere"]}

(* One for every outcome. *)
AllReports ==
  FewReports
  \union {[Sound1 EXCEPT !.form = f] : f \in {"empty", "garbage", "not_object"}}
  \union {[Sound1 EXCEPT !.results = r] : r \in {"not_sections", "empty"}}
  \union {[Sound1 EXCEPT !.version = "other"]}
  \union {[Sound1 EXCEPT !.defect = d, !.findings = 1] :
             d \in SectionDefects \ {""}}
===============================================================================
