------------------------ MODULE OciResolutionProperties ------------------------
(***************************************************************************)
(* What a resolution has to get right, whatever the registry sends.        *)
(***************************************************************************)
EXTENDS OciResolution

Done == {"resolved", "failed", "escaped"}
Diverted == {"request_diverted", "retry_diverted"}
Fetching == {"request", "authorize", "token", "retry", "read"} \union Diverted
PCs == Done \union Fetching \union {"parse", "decode_root", "decode_selected"}

DecodeErrors ==
  {"manifest_body_digest_mismatch", "registry_header_digest_invalid",
   "docker_content_digest_mismatch", "manifest_json_invalid",
   "manifest_json_not_object", "manifest_content_type_mismatch",
   "unsupported_manifest_media_type"}
SelectionErrors ==
  {"image_index_manifests_missing", "image_index_descriptor_invalid",
   "platform_manifest_not_found", "platform_manifest_ambiguous",
   "platform_descriptor_digest_invalid",
   "platform_descriptor_did_not_resolve_to_manifest",
   "platform_manifest_size_mismatch", "platform_manifest_media_type_mismatch"}
ClientErrors ==
  {"registry_manifest_http", "registry_manifest_transport_failed",
   "registry_auth_challenge_missing", "unsupported_registry_auth_challenge",
   "registry_auth_realm_invalid", "registry_token_request_failed",
   "registry_token_missing", "malformed_oci_reference"}

(* The variables hold what the code can put there, and an end is told by what
   it left: an identity, an error of its own, or an exception of a library. *)
TypeOK ==
  /\ reference \in References /\ platform \in Platforms
  /\ pc \in PCs /\ stage \in {"root", "selected"}
  /\ expected \in Digests \union {None}
  /\ descriptor \in Descriptors \union {None}
  /\ challenge \in Challenges \union {None}
  /\ authorization \in [issued_for : Keys] \union {None}
  /\ DOMAIN tokens \subseteq Keys
  /\ \A k \in DOMAIN tokens : tokens[k] = Token(k)
  /\ response \in ManifestResponses \union {None}
  /\ root \in ManifestResponses \union {None}
  /\ outcome \in Identities \union {None}
  /\ error \in {""} \union DecodeErrors \union SelectionErrors
                 \union ClientErrors \union Uncaught
  /\ pc = "resolved" <=> outcome # None
  /\ pc \in {"failed", "escaped"} <=> error # ""

-----------------------------------------------------------------------------
Phase ==
  IF pc = "resolved" THEN "answered"
  ELSE IF pc \in Done THEN "refused" ELSE "asked"

Promise == INSTANCE ImageIdentity WITH phase <- Phase, answer <- outcome

(* Whatever the registry answers, what a resolution returns is a chain of
   digests from the reference to exactly one manifest for the platform: the
   walk with its checks at every link implements ImageIdentity. *)
KeepsPromise == Promise!Spec

(* When a digest was asked for and its document declares its own type, the
   bytes alone decide: nothing the registry says in headers, and nothing it
   chooses to serve, could have led to another identity. *)
AnswerIsUnique ==
  /\ pc = "resolved" /\ reference.kind = "digest"
  /\ Document[outcome.root_digest.sha256].mediaType # None
  => Resolutions(reference, platform) = {outcome}

Requests == [to : {"registry", "tokens"}, key : Keys \union {None}]

(* The requests of a kind sent so far, by their place in the sequence. *)
Asked(service, key) ==
  {i \in DOMAIN sent : sent[i] = [to |-> service, key |-> key]}

(* A registry can not keep a client asking: a manifest is asked for at most
   twice, once without and once with a token, an image index is left for a
   manifest only once, and a token for the same key is fetched at most once.
   (The redirects urllib follows on the way, ten at most, are not counted.) *)
RequestsAreBounded ==
  /\ Cardinality(Asked("registry", None)) <= IF stage = "root" THEN 2 ELSE 4
  /\ \A k \in Keys : Cardinality(Asked("tokens", k)) <= 1

(* A token is only sent in answer to the challenge it was issued for, cached or
   not: the key of the cache tells realm, service and scope apart. *)
TokenAnswersChallenge ==
  authorization # None => authorization.issued_for = CacheKey(challenge)

(* Nothing but a server that goes on sending, the body of a manifest, a token
   or a redirect or interim answers, can keep a resolution from ending: no
   sequence of challenges, errors and documents leaves the client where none
   of its branches goes on. *)
OnlyASenderBlocks == []<>(pc \in Done \union Diverted \union {"read", "token"})

-----------------------------------------------------------------------------
(***************************************************************************)
(* The inductive invariant.                                                *)
(***************************************************************************)
(* A token is at hand only between its challenge and the end of its fetch. *)
TokensInPlace ==
  /\ pc \in {"authorize", "token"} => challenge # None
  /\ pc = "token" => challenge.realm # None
  /\ pc \in {"parse", "request", "request_diverted", "authorize", "token"} =>
       authorization = None

(* Each link of the walk was checked before the next was followed. *)
LinksAreChecked ==
  /\ stage = "root" =>
       descriptor = None /\ expected = IF pc = "parse" THEN None ELSE reference.digest
  /\ stage = "selected" =>
       LET index == Document[root.body] IN
       /\ root # None /\ DecodeError(root, reference.digest) = ""
       /\ MediaType(root) \notin ManifestTypes /\ index.lists_manifests
       /\ \E n \in DOMAIN index.manifests :
            Matches(index, platform) = {n} /\ descriptor = index.manifests[n]
       /\ expected = descriptor.digest /\ expected \in Digests
  /\ pc \in {"decode_root", "decode_selected"} => response # None
  /\ pc \in {"parse", "decode_root"} => stage = "root"
  /\ pc = "decode_selected" => stage = "selected"

Resolved == outcome # None => outcome \in Resolutions(reference, platform)

(* An inductive invariant: it holds initially, every step preserves it, and it
   implies that an answer is a chain of checked links. *)
IInv ==
  /\ TypeOK /\ TokensInPlace /\ LinksAreChecked /\ Resolved
  /\ TokenAnswersChallenge

(* How many manifest requests may have been sent: two for the root that was
   left, none or one before the answer to this fetch, two after it. *)
Budget ==
  (IF stage = "root" THEN 0 ELSE 2)
    + (IF pc \in {"parse", "request"} THEN 0
       ELSE IF pc \in {"request_diverted", "authorize", "token", "retry"} THEN 1
       ELSE 2)

(* The count behind RequestsAreBounded, and what makes it go on: a token that
   was asked for is cached unless the resolution ended, and one that is cached
   is not asked for. *)
RequestsCounted ==
  /\ sent \in Seq(Requests)
  /\ Cardinality(Asked("registry", None)) <= Budget
  /\ \A k \in Keys :
       /\ Cardinality(Asked("tokens", k)) <= 1
       /\ pc \notin {"failed", "escaped"} /\ k \notin DOMAIN tokens =>
            Asked("tokens", k) = {}
  /\ pc = "token" => CacheKey(challenge) \notin DOMAIN tokens
===============================================================================
