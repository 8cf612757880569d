--------------------------- MODULE MCPackageArchive ---------------------------
(***************************************************************************)
(* Small archives: gzip files of up to four chunks, and members with names *)
(* that normalise to the same path, lie below one another or leave the     *)
(* package.                                                                *)
(***************************************************************************)
EXTENDS PackageArchiveProperties

Chunk(out, tail) == [out |-> out, tail |-> tail]
FewChunks == {Chunk(out, tail) : out \in {0, 3, 4},
                                 tail \in {"more", "end", "extra", "corrupt"}}
AnyGzip == BoundedSeq(FewChunks, 4)

Relative(parts) == [legal |-> TRUE, rooted |-> FALSE, parts |-> parts]
(* A file of one unit is JSON, an empty or a larger one is not. *)
Member(name, kind, size) ==
  [name |-> name, kind |-> kind, size |-> size, json |-> size = 1]

InPackage == {Relative(<<"package", "a">>), Relative(<<"package", ".", "a">>),
              Relative(<<"package", "a", "package-lock.json">>),
              Relative(<<"package", "", "package-lock.json">>)}
Outside == {Relative(<<"package">>), Relative(<<"package", "..", "a">>),
            Relative(<<"other", "a">>), Relative(<<".">>),
            Relative(<<"package", "a", "b", "c">>),
            [Relative(<<"package", "a">>) EXCEPT !.rooted = TRUE],
            [Relative(<<"package", "a">>) EXCEPT !.legal = FALSE]}

AnyMember ==
  {Member(name, "file", size) : name \in InPackage, size \in 0..3} \union
  {Member(name, "file", 1) : name \in Outside} \union
  {Member(Relative(<<"package", "a">>), kind, 0) : kind \in {"dir", "other"}}
===============================================================================
