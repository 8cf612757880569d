---------------------------- MODULE MCTrivyProducer ----------------------------
(***************************************************************************)
(* Small instances of the Trivy producer: one plain file and one archive,  *)
(* two contents, and a report for every way validate_report can end.       *)
(***************************************************************************)
EXTENDS TrivyProducerInvariant, TLC

CONSTANTS file, tgz, c1, c2

MCRefs == {file, tgz}
MCArchives == {tgz}
MCContents == {c1, c2}

Sound == [form |-> "object", results |-> "sections", version |-> "pinned",
          names |-> "target", defect |-> "", findings |-> 0]

(* A clean report, one with findings, and one without any result section. *)
FewReports ==
  {Sound, [Sound EXCEPT !.findings = 1], [Sound EXCEPT !.results = "empty"]}

AllReports ==
  FewReports \union
  {[Sound EXCEPT !.form = f] : f \in {"empty", "garbage", "not_object"}} \union
  {[Sound EXCEPT !.results = r] : r \in {"not_list", "not_sections"}} \union
  {[Sound EXCEPT !.version = v] : v \in {"malformed", "other"}} \union
  {[Sound EXCEPT !.defect = d, !.findings = 1] : d \in SectionDefects \ {""}} \union
  {[Sound EXCEPT !.names = n] : n \in {"malformed", "elsewhere"}} \union
  {[Sound EXCEPT !.results = "empty", !.names = "elsewhere", !.version = "other"]}

Symmetry == Permutations(MCContents)
=============================================================================
