------------------------------ MODULE OciIdentity ------------------------------
(***************************************************************************)
(* Which image manifest a reference and a platform stand for               *)
(* (src/oci_identity.py, the part that judges what a registry sent).       *)
(*                                                                         *)
(* A body is a string of bytes.  Document gives what those bytes hold:     *)
(* "undecodable" is no text in any encoding json.loads knows, "garbage" no *)
(* JSON, "not_object" JSON that is no object, "object" an object, with its *)
(* mediaType (None when absent), whether it lists manifests, and the       *)
(* descriptors listed.  A digest is Sha256 of a body, an injective         *)
(* constructor; Malformed stands for anything that is not written as a      *)
(* digest.                                                                 *)
(***************************************************************************)
EXTENDS Absence, Sequences, FiniteSets

CONSTANTS Malformed, Bodies, Document, Machines

IndexTypes == {"oci_index", "docker_index"}
ManifestTypes == {"oci_manifest", "docker_manifest"}
MediaTypes == IndexTypes \union ManifestTypes \union {"other"}
Variants == {"", "v7", "v8"}

Sha256(body) == [sha256 |-> body]
Digests == [sha256 : Bodies]

(* A platform as the caller asks for it and as a descriptor states it. *)
Platforms == [machine : Machines, variant : Variants \union {None}]
Descriptors ==
  [is_object : BOOLEAN, platform : Platforms \union {None},
   digest : Digests \union {Malformed}, size : Nat \union {None},
   mediaType : MediaTypes \union {None}]
Documents ==
  [form : {"undecodable", "garbage", "not_object", "object"}, size : Nat,
   mediaType : MediaTypes \union {None}, lists_manifests : BOOLEAN,
   manifests : Seq(Descriptors)]

(* parse_reference: a digest, a tag, or neither; a tag is given no name, as
   the registry may send anything for it. *)
References ==
  [kind : {"malformed", "tag"}, digest : {None}]
    \union [kind : {"digest"}, digest : Digests]

ManifestResponses ==
  [body : Bodies, content_type : MediaTypes \union {None},
   docker_content_digest : Digests \union {None, Malformed}]

ASSUME IdentityConstants ==
  /\ Document \in [Bodies -> Documents]
  /\ None \notin Bodies \union Machines \union Digests \union Nat
  /\ None \notin Platforms \union Descriptors \union ManifestResponses
  /\ None \notin MediaTypes \union Variants
  /\ Malformed \notin Digests \union {None}

-----------------------------------------------------------------------------
(* The type a response is read as: the registry's word, else the body's. *)
MediaType(response) ==
  IF response.content_type # None THEN response.content_type
                                  ELSE Document[response.body].mediaType

\* Mutant of MediaTypeError: the header overrules what the body declares.
MediaTypeErrorOfHeader(response) ==
  IF MediaType(response) \notin IndexTypes \union ManifestTypes
  THEN "unsupported_manifest_media_type"
  ELSE ""

MediaTypeError(response) ==
  LET declared == Document[response.body].mediaType IN
  IF response.content_type # None /\ declared # None
       /\ response.content_type # declared
  THEN "manifest_content_type_mismatch"
  ELSE IF MediaType(response) \notin IndexTypes \union ManifestTypes
  THEN "unsupported_manifest_media_type"
  ELSE ""

\* Mutant of DecodeError: a digest header, when sent, vouches for the body.
DecodeErrorTrusting(response, expected_digest) ==
  LET form == Document[response.body].form
      header == response.docker_content_digest IN
  IF (IF header = None THEN Sha256(response.body) ELSE header) # expected_digest
       /\ expected_digest # None THEN "manifest_body_digest_mismatch"
  ELSE IF header = Malformed THEN "registry_header_digest_invalid"
  ELSE IF form = "undecodable" THEN "UnicodeDecodeError"
  ELSE IF form = "garbage" THEN "manifest_json_invalid"
  ELSE IF form = "not_object" THEN "manifest_json_not_object"
  ELSE MediaTypeError(response)

(***************************************************************************)
(* The first error _decode_document raises, "" when it accepts.            *)
(* UnicodeDecodeError is the one it does not raise itself: json.loads does *)
(* and only JSONDecodeError is caught.                                     *)
(***************************************************************************)
DecodeError(response, expected_digest) ==
  LET form == Document[response.body].form
      actual == Sha256(response.body)
      header == response.docker_content_digest IN
  IF expected_digest # None /\ actual # expected_digest
  THEN "manifest_body_digest_mismatch"
  ELSE IF header = Malformed THEN "registry_header_digest_invalid"
  ELSE IF header # None /\ header # actual THEN "docker_content_digest_mismatch"
  ELSE IF form = "undecodable" THEN "UnicodeDecodeError"
  ELSE IF form = "garbage" THEN "manifest_json_invalid"
  ELSE IF form = "not_object" THEN "manifest_json_not_object"
  ELSE MediaTypeError(response)

-----------------------------------------------------------------------------
(* A caller that names no variant means the image without one. *)
Wanted(item, platform) ==
  /\ item.platform # None /\ item.platform.machine = platform.machine
  /\ IF platform.variant = None THEN item.platform.variant \in {None, ""}
                                ELSE item.platform.variant = platform.variant

Matches(index, platform) ==
  {i \in DOMAIN index.manifests : Wanted(index.manifests[i], platform)}

SelectError(index, platform) ==
  IF ~index.lists_manifests THEN "image_index_manifests_missing"
  ELSE IF \E i \in DOMAIN index.manifests : ~index.manifests[i].is_object
  THEN "image_index_descriptor_invalid"
  ELSE IF Matches(index, platform) = {} THEN "platform_manifest_not_found"
  ELSE IF \E i, j \in Matches(index, platform) : i # j
  THEN "platform_manifest_ambiguous"
  ELSE ""

(* _select_platform_descriptor. *)
Selected(index, platform) ==
  index.manifests[CHOOSE i \in Matches(index, platform) : TRUE]

(* What resolve_oci_identity asks of the manifest a descriptor led to. *)
ManifestError(descriptor, response) ==
  IF MediaType(response) \notin ManifestTypes
  THEN "platform_descriptor_did_not_resolve_to_manifest"
  ELSE IF descriptor.size # Document[response.body].size
  THEN "platform_manifest_size_mismatch"
  ELSE IF descriptor.mediaType # MediaType(response)
  THEN "platform_manifest_media_type_mismatch"
  ELSE ""

-----------------------------------------------------------------------------
(* ResolvedOciIdentity.record; exact_ref is the manifest's digest in the
   repository that was asked.  platform_verified and platform_source follow
   from the selection source. *)
Identity(reference, platform, source, root, manifest) ==
  [requested_ref |-> reference, platform |-> platform,
   selection_source |-> source, root_digest |-> Sha256(root.body),
   root_media_type |-> MediaType(root),
   manifest_digest |-> Sha256(manifest.body),
   manifest_media_type |-> MediaType(manifest),
   manifest_size |-> Document[manifest.body].size]

Identities ==
  [requested_ref : References, platform : Platforms,
   selection_source : {"image-index", "direct-manifest"},
   root_digest : Digests, root_media_type : IndexTypes \union ManifestTypes,
   manifest_digest : Digests, manifest_media_type : ManifestTypes,
   manifest_size : {Document[b].size : b \in Bodies}]
-----------------------------------------------------------------------------
(***************************************************************************)
(* The identities a reference and a platform may be resolved to, whatever  *)
(* the registry sends.                                                     *)
(***************************************************************************)

(* The document with digest d, read as media type t: its own word on its type,
   where it has one, is not overruled. *)
ReadAs(d, t) ==
  /\ Document[d.sha256].form = "object"
  /\ Document[d.sha256].mediaType \in {None, t}

(* Descriptor item of an index leads to identity i's manifest. *)
LeadsTo(item, i) ==
  /\ item.digest = i.manifest_digest /\ item.size = i.manifest_size
  /\ item.mediaType = i.manifest_media_type

(* Identity i is what ref and p stand for: a digest asked for is the root's;
   the root is the manifest, or lists exactly one manifest for the platform
   and that one is it. *)
Chain(i, ref, p) ==
  /\ i.requested_ref = ref /\ i.platform = p
  /\ ref.kind = "digest" => i.root_digest = ref.digest
  /\ ReadAs(i.root_digest, i.root_media_type)
  /\ ReadAs(i.manifest_digest, i.manifest_media_type)
  /\ i.manifest_size = Document[i.manifest_digest.sha256].size
  /\ IF i.root_media_type \in ManifestTypes
     THEN /\ i.selection_source = "direct-manifest"
          /\ i.manifest_digest = i.root_digest
          /\ i.manifest_media_type = i.root_media_type
     ELSE LET index == Document[i.root_digest.sha256] IN
          /\ i.selection_source = "image-index" /\ index.lists_manifests
          /\ \E n \in DOMAIN index.manifests :
               /\ Matches(index, p) = {n} /\ LeadsTo(index.manifests[n], i)

Resolutions(ref, p) == {i \in Identities : Chain(i, ref, p)}
===============================================================================
