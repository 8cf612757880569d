----------------------------- MODULE MCOsvProducer -----------------------------
(***************************************************************************)
(* A small instance of the OSV producer: one artifact, two contents, and a *)
(* report for every place at which run() judges one.                       *)
(***************************************************************************)
EXTENDS OsvProducerProperties, TLC

CONSTANTS lockfile, c1, c2

MCRefs == {lockfile}
MCContents == {c1, c2}

Section == [source |-> "target", type |-> "lockfile", malformed |-> FALSE,
            packages |-> 1, findings |-> 0]
Report(sections) == [form |-> "object", results |-> sections]

(* A clean report, one with findings, one about another file, and no report. *)
MCReports ==
  {Report(<<Section>>), Report(<<[Section EXCEPT !.findings = 1]>>),
   Report(<<[Section EXCEPT !.source = "elsewhere"]>>),
   [form |-> "garbage", results |-> << >>]}
=============================================================================
