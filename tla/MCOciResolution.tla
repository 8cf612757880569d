---------------------------- MODULE MCOciResolution ----------------------------
(***************************************************************************)
(* A registry of twelve bodies: indexes that list one manifest, several or *)
(* the wrong one, with and without a declared type; manifests likewise;    *)
(* and bytes that are none of these.                                       *)
(***************************************************************************)
EXTENDS OciResolutionProperties, TLC

CONSTANTS amd64, arm64, realm1, realm2,
          an_index, bare_index, twice, wrong_size, wrong_type, nested, broken,
          manifest, bare_manifest, variant_manifest, garbage, blob

MCMachines == {amd64, arm64}
MCBodies == {an_index, bare_index, twice, wrong_size, wrong_type, nested, broken,
             manifest, bare_manifest, variant_manifest, garbage, blob}

P(machine, variant) == [machine |-> machine, variant |-> variant]
Item(body, size, machine, variant) ==
  [is_object |-> TRUE, platform |-> P(machine, variant),
   digest |-> Sha256(body), size |-> size, mediaType |-> "oci_manifest"]
Doc(size, type) ==
  [form |-> "object", size |-> size, mediaType |-> type,
   lists_manifests |-> FALSE, manifests |-> << >>]
Index(size, type, items) ==
  [Doc(size, type) EXCEPT !.lists_manifests = TRUE, !.manifests = items]

(* Its variant is absent in one entry and given in another; attestations have
   no platform. *)
GoodItems ==
  <<[Item(blob, 1, amd64, None) EXCEPT !.platform = None],
    Item(manifest, 1, amd64, None), Item(variant_manifest, 3, amd64, "v8"),
    Item(bare_manifest, 2, arm64, "")>>

MCDocument ==
  (an_index :> Index(10, "oci_index", GoodItems)) @@
  (bare_index :> Index(11, None, GoodItems)) @@
  (twice :> Index(12, "docker_index", GoodItems \o <<Item(blob, 1, amd64, "")>>)) @@
  (wrong_size :> Index(13, "oci_index", <<Item(manifest, 2, amd64, None)>>)) @@
  (wrong_type :> Index(14, "oci_index",
     <<[Item(manifest, 1, amd64, None) EXCEPT !.mediaType = "docker_manifest"],
       [Item(manifest, 1, arm64, None) EXCEPT !.digest = Malformed]>>)) @@
  (nested :> Index(15, "oci_index",
     <<[Item(an_index, 10, amd64, None) EXCEPT !.mediaType = "oci_index"]>>)) @@
  (broken :> Index(16, "oci_index",
     <<Item(manifest, 1, amd64, None),
       [Item(manifest, 1, arm64, None) EXCEPT !.is_object = FALSE]>>)) @@
  (manifest :> Doc(1, "oci_manifest")) @@
  (bare_manifest :> Doc(2, None)) @@
  (variant_manifest :> Doc(3, "oci_manifest")) @@
  (garbage :> [Doc(4, None) EXCEPT !.form = "garbage"]) @@
  (blob :> [Doc(1, None) EXCEPT !.form = "undecodable"])

MCRequested ==
  {[kind |-> "malformed", digest |-> None], [kind |-> "tag", digest |-> None]}
    \union {[kind |-> "digest", digest |-> Sha256(b)] : b \in MCBodies}

MCWishes == {P(amd64, None), P(amd64, "v8"), P(arm64, None), P(arm64, "v7")}

(* The registry sends any body, to four of them with any type, declared or
   not, and to two with the right digest, a wrong one or one that is none. *)
AnyResponses ==
  [body : MCBodies, content_type : {None}, docker_content_digest : {None}]
    \union [body : {an_index, bare_index, manifest, bare_manifest},
            content_type : {"oci_index", "oci_manifest", "other"},
            docker_content_digest : {None}]
    \union [body : {bare_index, manifest}, content_type : {None},
            docker_content_digest : {Malformed, Sha256(manifest),
                                     Sha256(bare_index)}]
===============================================================================
