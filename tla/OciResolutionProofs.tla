-------------------------- MODULE OciResolutionProofs --------------------------
(***************************************************************************)
(* Proofs about resolving an image reference, for every registry: any      *)
(* bodies, any platforms, any answers, any token services.                 *)
(***************************************************************************)
EXTENDS OciResolutionProperties, FiniteSetTheorems, TLAPS

-----------------------------------------------------------------------------
(***************************************************************************)
(* What the checks of oci_identity.py establish.                           *)
(***************************************************************************)
LEMMA Distinct ==
  /\ None \notin Digests /\ None \notin Descriptors /\ None \notin ManifestResponses
  /\ None \notin Challenges /\ None \notin [issued_for : Keys]
  /\ None \notin Identities /\ None \notin Realms /\ None \notin MediaTypes
  /\ None \notin Nat /\ None \notin Platforms
  /\ Malformed \notin Digests /\ Malformed # None
BY IdentityConstants, ResolutionConstants, MarksAreNoAnswers

LEMMA DigestOfBody ==
  ASSUME NEW body \in Bodies
  PROVE  Sha256(body) \in Digests /\ Sha256(body).sha256 = body
BY DEF Sha256, Digests

LEMMA DocumentType ==
  ASSUME NEW body \in Bodies
  PROVE  /\ Document[body] \in Documents
         /\ Document[body].mediaType \in MediaTypes \union {None}
         /\ Document[body].size \in Nat
         /\ \A i \in DOMAIN Document[body].manifests :
              Document[body].manifests[i] \in Descriptors
<1>1. Document[body] \in Documents
  BY IdentityConstants
<1>2. /\ Document[body].mediaType \in MediaTypes \union {None}
      /\ Document[body].size \in Nat
      /\ Document[body].manifests \in Seq(Descriptors)
  BY <1>1 DEF Documents
<1>3. \A i \in DOMAIN Document[body].manifests :
        Document[body].manifests[i] \in Descriptors
  BY <1>2
<1> QED
  BY <1>1, <1>2, <1>3

(* A document that is accepted is the one asked for, and is read as what it
   says it is, if it says so. *)
LEMMA DecodedIsAsked ==
  ASSUME NEW r \in ManifestResponses, NEW wanted, DecodeError(r, wanted) = ""
  PROVE  /\ wanted # None => Sha256(r.body) = wanted
         /\ r.body \in Bodies /\ Sha256(r.body) \in Digests
         /\ MediaType(r) \in IndexTypes \union ManifestTypes
         /\ ReadAs(Sha256(r.body), MediaType(r))
<1>1. /\ r.body \in Bodies /\ r.content_type \in MediaTypes \union {None}
  BY DEF ManifestResponses
<1>2. /\ wanted # None => Sha256(r.body) = wanted
      /\ Document[r.body].form \notin {"undecodable", "garbage", "not_object"}
      /\ MediaTypeError(r) = ""
  BY DEF DecodeError
<1>3. Document[r.body].form = "object"
  BY <1>1, <1>2, DocumentType DEF Documents
<1>4. /\ MediaType(r) \in IndexTypes \union ManifestTypes
      /\ r.content_type # None /\ Document[r.body].mediaType # None
           => r.content_type = Document[r.body].mediaType
  BY <1>2 DEF MediaTypeError
<1>5. Document[r.body].mediaType \in {None, MediaType(r)}
  BY <1>4 DEF MediaType
<1> QED
  BY <1>1, <1>2, <1>3, <1>4, <1>5, DigestOfBody DEF ReadAs

(* The descriptor selected is the only one for the platform. *)
LEMMA SelectedIsOnly ==
  ASSUME NEW index, NEW p, SelectError(index, p) = ""
  PROVE  /\ index.lists_manifests
         /\ \E n \in DOMAIN index.manifests :
              Matches(index, p) = {n} /\ Selected(index, p) = index.manifests[n]
<1>1. /\ index.lists_manifests /\ Matches(index, p) # {}
      /\ \A i, j \in Matches(index, p) : i = j
  BY DEF SelectError
<1> DEFINE n == CHOOSE i \in Matches(index, p) : TRUE
<1>2. n \in Matches(index, p)
  BY <1>1
<1>3. Matches(index, p) = {n}
  BY <1>1, <1>2
<1>4. n \in DOMAIN index.manifests
  BY <1>2 DEF Matches
<1>5. Selected(index, p) = index.manifests[n]
  BY DEF Selected
<1> HIDE DEF n
<1> QED
  BY <1>1, <1>3, <1>4, <1>5

(* Read as an image manifest, the root is its own answer. *)
LEMMA DirectManifest ==
  ASSUME NEW ref \in References, NEW p \in Platforms, NEW r \in ManifestResponses,
         DecodeError(r, ref.digest) = "", MediaType(r) \in ManifestTypes
  PROVE  Identity(ref, p, "direct-manifest", r, r) \in Resolutions(ref, p)
<1> DEFINE i == Identity(ref, p, "direct-manifest", r, r)
<1>1. /\ r.body \in Bodies /\ Sha256(r.body) \in Digests
      /\ ReadAs(Sha256(r.body), MediaType(r))
      /\ ref.digest # None => Sha256(r.body) = ref.digest
  BY DecodedIsAsked
<1>2. /\ i.requested_ref = ref /\ i.platform = p
      /\ i.selection_source = "direct-manifest"
      /\ i.root_digest = Sha256(r.body) /\ i.root_media_type = MediaType(r)
      /\ i.manifest_digest = Sha256(r.body) /\ i.manifest_media_type = MediaType(r)
      /\ i.manifest_size = Document[r.body].size
  BY DEF Identity
<1>3. i \in Identities
  BY <1>1 DEF Identity, Identities
<1>4. ref.kind = "digest" => ref.digest \in Digests
  BY DEF References
<1>5. Chain(i, ref, p)
  BY <1>1, <1>2, <1>4, DigestOfBody, Distinct DEF Chain
<1> QED
  BY <1>3, <1>5 DEF Resolutions

(* A manifest whose every link from the reference was checked is an answer. *)
LEMMA SelectedManifest ==
  ASSUME NEW ref \in References, NEW p \in Platforms,
         NEW top \in ManifestResponses, NEW r \in ManifestResponses,
         DecodeError(top, ref.digest) = "", MediaType(top) \notin ManifestTypes,
         Document[top.body].lists_manifests,
         NEW n \in DOMAIN Document[top.body].manifests,
         Matches(Document[top.body], p) = {n},
         Document[top.body].manifests[n].digest \in Digests,
         DecodeError(r, Document[top.body].manifests[n].digest) = "",
         ManifestError(Document[top.body].manifests[n], r) = ""
  PROVE  Identity(ref, p, "image-index", top, r) \in Resolutions(ref, p)
<1> DEFINE i == Identity(ref, p, "image-index", top, r)
           item == Document[top.body].manifests[n]
<1>1. /\ top.body \in Bodies /\ Sha256(top.body) \in Digests
      /\ MediaType(top) \in IndexTypes \union ManifestTypes
      /\ ReadAs(Sha256(top.body), MediaType(top))
      /\ ref.digest # None => Sha256(top.body) = ref.digest
  BY DecodedIsAsked
<1>2. /\ r.body \in Bodies /\ Sha256(r.body) \in Digests
      /\ ReadAs(Sha256(r.body), MediaType(r)) /\ Sha256(r.body) = item.digest
  BY DecodedIsAsked, Distinct
<1>3. /\ MediaType(r) \in ManifestTypes /\ item.size = Document[r.body].size
      /\ item.mediaType = MediaType(r)
  BY DEF ManifestError
<1>4. /\ i.requested_ref = ref /\ i.platform = p /\ i.selection_source = "image-index"
      /\ i.root_digest = Sha256(top.body) /\ i.root_media_type = MediaType(top)
      /\ i.manifest_digest = Sha256(r.body) /\ i.manifest_media_type = MediaType(r)
      /\ i.manifest_size = Document[r.body].size
  BY DEF Identity
<1>5. i \in Identities
  BY <1>1, <1>2, <1>3 DEF Identity, Identities
<1>6. ref.kind = "digest" => ref.digest \in Digests
  BY DEF References
<1>7. LeadsTo(item, i)
  BY <1>2, <1>3, <1>4 DEF LeadsTo
<1>8. Sha256(top.body).sha256 = top.body /\ Sha256(r.body).sha256 = r.body
  BY <1>1, <1>2, DigestOfBody
<1> HIDE DEF i
<1>9. Chain(i, ref, p)
  BY <1>1, <1>2, <1>4, <1>6, <1>7, <1>8, Distinct DEF Chain
<1> QED
  BY <1>5, <1>9 DEF Resolutions, i

(* The bytes decide: no two identities are answers to one digest and platform
   when the document asked for declares its own type. *)
LEMMA ChainsAgree ==
  ASSUME NEW ref, NEW p, ref.kind = "digest",
         NEW i \in Resolutions(ref, p), NEW j \in Resolutions(ref, p),
         Document[i.root_digest.sha256].mediaType # None
  PROVE  i = j
<1>1. /\ i \in Identities /\ j \in Identities /\ Chain(i, ref, p) /\ Chain(j, ref, p)
  BY DEF Resolutions
<1>2. /\ i.requested_ref = j.requested_ref /\ i.platform = j.platform
      /\ i.root_digest = j.root_digest
  BY <1>1 DEF Chain
<1>3. i.root_media_type = j.root_media_type
  BY <1>1, <1>2 DEF Chain, ReadAs
<1>4. /\ i.selection_source = j.selection_source
      /\ i.manifest_digest = j.manifest_digest
      /\ i.manifest_media_type = j.manifest_media_type
  <2>1. CASE i.root_media_type \in ManifestTypes
    BY <1>1, <1>2, <1>3, <2>1 DEF Chain
  <2>2. CASE i.root_media_type \notin ManifestTypes
    <3> DEFINE index == Document[i.root_digest.sha256]
    <3>1. PICK n : Matches(index, p) = {n} /\ LeadsTo(index.manifests[n], i)
      BY <1>1, <2>2 DEF Chain
    <3>2. PICK m : Matches(index, p) = {m} /\ LeadsTo(index.manifests[m], j)
      BY <1>1, <1>2, <1>3, <2>2 DEF Chain
    <3>3. n = m
      BY <3>1, <3>2
    <3>4. i.selection_source = "image-index" /\ j.selection_source = "image-index"
      BY <1>1, <1>3, <2>2 DEF Chain
    <3> QED
      BY <3>1, <3>2, <3>3, <3>4 DEF LeadsTo
  <2> QED
    BY <2>1, <2>2
<1>5. i.manifest_size = j.manifest_size
  BY <1>1, <1>4 DEF Chain
<1> QED
  BY <1>1, <1>2, <1>3, <1>4, <1>5 DEF Identities

-----------------------------------------------------------------------------
(***************************************************************************)
(* Every step preserves the invariant.                                     *)
(***************************************************************************)
LEMMA ErrorTypes ==
  /\ \A r, wanted : DecodeError(r, wanted) \in DecodeErrors \union {"", "UnicodeDecodeError"}
  /\ \A index, p : SelectError(index, p) \in SelectionErrors \union {""}
  /\ \A item, r : ManifestError(item, r) \in SelectionErrors \union {""}
BY DEF DecodeError, MediaTypeError, DecodeErrors, SelectError, ManifestError,
       SelectionErrors

LEMMA KeyType ==
  ASSUME NEW c \in Challenges, c.realm # None PROVE CacheKey(c) \in Keys
BY DEF Challenges, CacheKey, Keys

(* A run that ends with an error leaves everything else as it was. *)
LEMMA FailStep ==
  ASSUME IInv, pc \notin Done, NEW e, Fail(e), pc # "parse" \/ reference.kind = "malformed",
         e \in DecodeErrors \union SelectionErrors \union ClientErrors \union Uncaught
  PROVE  IInv'
<1>1. e # ""
  BY DEF DecodeErrors, SelectionErrors, ClientErrors, Uncaught
<1>2. /\ error' = e /\ pc' \in {"escaped", "failed"}
      /\ UNCHANGED <<inputs, walk, fetch, tokens, response, outcome>>
  BY DEF Fail
<1>3. reference.kind = "malformed" => reference.digest = None
  BY DEF IInv, TypeOK, References
<1> USE DEF inputs, walk, fetch
<1>4. TypeOK'
  BY <1>1, <1>2 DEF IInv, TypeOK, PCs, Done
<1>5. LinksAreChecked'
  BY <1>2, <1>3 DEF IInv, LinksAreChecked
<1>6. TokensInPlace' /\ Resolved' /\ TokenAnswersChallenge'
  BY <1>2 DEF IInv, TokensInPlace, Resolved, TokenAnswersChallenge, CacheKey
<1> QED
  BY <1>4, <1>5, <1>6 DEF IInv

(* So does a step of a fetch that goes on, as long as the token is in place. *)
LEMMA FetchStep ==
  ASSUME IInv, pc \in Fetching,
         pc' \in Fetching \union {"decode_root", "decode_selected"},
         UNCHANGED <<inputs, walk, outcome, error>>, TokensInPlace',
         TokenAnswersChallenge',
         challenge' \in Challenges \union {None},
         authorization' \in [issued_for : Keys] \union {None},
         DOMAIN tokens' \subseteq Keys,
         \A k \in DOMAIN tokens' : tokens'[k] = Token(k),
         response' \in ManifestResponses \union {None},
         pc' \in {"decode_root", "decode_selected"} =>
           /\ response' # None
           /\ pc' = IF stage = "root" THEN "decode_root" ELSE "decode_selected"
  PROVE  IInv'
<1> USE DEF inputs, walk
<1>1. TypeOK'
  BY DEF IInv, TypeOK, PCs, Fetching, Diverted, Done
<1>2. LinksAreChecked'
  BY DEF IInv, LinksAreChecked, Fetching, Diverted, TypeOK
<1>3. Resolved'
  BY DEF IInv, Resolved
<1> QED
  BY <1>1, <1>2, <1>3 DEF IInv

LEMMA ParseStep == ASSUME IInv, Parse PROVE IInv'
<1>1. ASSUME reference.kind = "malformed", Fail("malformed_oci_reference")
      PROVE  IInv'
  BY <1>1, FailStep DEF Parse, Done, ClientErrors
<1>2. ASSUME reference.kind # "malformed", pc' = "request", expected' = reference.digest,
             UNCHANGED <<inputs, stage, descriptor, root, fetch, tokens, response,
                         outcome, error>>
      PROVE  IInv'
  <2>1. pc = "parse" /\ reference.digest \in Digests \union {None}
    BY DEF Parse, IInv, TypeOK, References
  <2> USE DEF inputs, fetch
  <2>2. TypeOK'
    BY <1>2, <2>1 DEF IInv, TypeOK, PCs, Fetching, Done
  <2>3. TokensInPlace' /\ Resolved' /\ TokenAnswersChallenge'
    BY <1>2, <2>1 DEF IInv, TokensInPlace, Resolved, TokenAnswersChallenge
  <2>4. stage = "root"
    BY <2>1, Distinct DEF IInv, LinksAreChecked, TypeOK
  <2>5. LinksAreChecked'
    BY <1>2, <2>1, <2>4 DEF IInv, LinksAreChecked
  <2> QED
    BY <2>2, <2>3, <2>5 DEF IInv
<1> QED
  BY <1>1, <1>2 DEF Parse

LEMMA ClientStep ==
  ASSUME IInv,
         \/ Request \/ RequestDiverted \/ Authorize \/ RequestToken
         \/ Retry \/ RetryDiverted \/ ReadBody
  PROVE  IInv'
<1> USE Distinct
<1> DEFINE Tokens ==
      /\ DOMAIN tokens \subseteq Keys /\ \A k \in DOMAIN tokens : tokens[k] = Token(k)
<1>1. pc \in Fetching /\ pc \notin Done /\ pc # "parse" /\ Tokens
  BY DEF Request, RequestDiverted, Authorize, RequestToken, Retry, RetryDiverted,
         ReadBody, Fetching, Diverted, Done, IInv, TypeOK
<1>2. /\ challenge \in Challenges \union {None}
      /\ authorization \in [issued_for : Keys] \union {None}
      /\ response \in ManifestResponses \union {None}
  BY DEF IInv, TypeOK
<1>3. ASSUME NEW e \in ClientErrors \union Uncaught, Fail(e)
      PROVE  IInv'
  BY <1>1, <1>3, FailStep
<1>4. ASSUME \/ Proceed("read")
             \/ pc = "request" /\ Proceed("request_diverted")
             \/ pc = "retry" /\ Proceed("retry_diverted")
      PROVE  IInv'
  BY <1>1, <1>2, <1>4, FetchStep
     DEF Proceed, IInv, TokensInPlace, TokenAnswersChallenge, fetch, Fetching, Diverted,
         CacheKey
<1>10. ASSUME Answered
       PROVE  IInv'
  BY <1>3, <1>4, <1>10 DEF Answered, ClientErrors, Uncaught
<1>5. CASE Request \/ RequestDiverted
  <2>1. ASSUME challenge' \in Challenges, pc' = "authorize",
               UNCHANGED <<inputs, walk, authorization, tokens, response, outcome, error>>
        PROVE  IInv'
    <3>1. authorization = None
      BY <1>5 DEF Request, RequestDiverted, IInv, TokensInPlace
    <3> QED
      BY <1>1, <1>2, <2>1, <3>1, FetchStep
         DEF TokensInPlace, TokenAnswersChallenge, Fetching
  <2>2. ASSUME Challenged
        PROVE  IInv'
    BY <1>3, <2>1, <2>2 DEF Challenged, ClientErrors
  <2> QED
    BY <1>4, <1>5, <1>10, <2>2 DEF Request, RequestDiverted
<1>6. CASE Authorize
  <2>1. challenge \in Challenges /\ authorization = None
    BY <1>2, <1>6 DEF Authorize, IInv, TokensInPlace
  <2>2. ASSUME challenge.realm # None, CacheKey(challenge) \in DOMAIN tokens,
               authorization' = tokens[CacheKey(challenge)], pc' = "retry",
               UNCHANGED <<inputs, walk, challenge, tokens, response, outcome, error>>
        PROVE  IInv'
    <3>1. /\ authorization' = [issued_for |-> CacheKey(challenge)]
          /\ CacheKey(challenge) \in Keys
      BY <1>1, <2>2 DEF Token
    <3>2. /\ authorization' \in [issued_for : Keys]
          /\ authorization'.issued_for = CacheKey(challenge)
      BY <3>1
    <3>3. TokensInPlace' /\ TokenAnswersChallenge'
      BY <2>2, <3>2 DEF TokensInPlace, TokenAnswersChallenge, CacheKey
    <3> QED
      BY <1>1, <1>2, <2>2, <3>2, <3>3, FetchStep DEF Fetching
  <2>3. ASSUME challenge.realm # None, pc' = "token",
               UNCHANGED <<inputs, walk, fetch, tokens, response, outcome, error>>
        PROVE  IInv'
    <3>1. TokensInPlace' /\ TokenAnswersChallenge'
      BY <2>1, <2>3 DEF TokensInPlace, TokenAnswersChallenge, fetch
    <3> QED
      BY <1>1, <1>2, <2>3, <3>1, FetchStep DEF Fetching, fetch
  <2> QED
    BY <1>3, <1>6, <2>2, <2>3 DEF Authorize, ClientErrors
<1>7. CASE RequestToken
  <2>1. ASSUME authorization' = Token(CacheKey(challenge)),
               tokens' = [key \in DOMAIN tokens \union {CacheKey(challenge)} |->
                            IF key = CacheKey(challenge) THEN authorization'
                                                         ELSE tokens[key]],
               pc' = "retry",
               UNCHANGED <<inputs, walk, challenge, response, outcome, error>>
        PROVE  IInv'
    <3>1. CacheKey(challenge) \in Keys
      BY <1>2, <1>7, KeyType DEF RequestToken, IInv, TokensInPlace
    <3>2. /\ authorization' \in [issued_for : Keys]
          /\ authorization'.issued_for = CacheKey(challenge)
      BY <2>1, <3>1 DEF Token
    <3>3. /\ DOMAIN tokens' \subseteq Keys
          /\ \A k \in DOMAIN tokens' : tokens'[k] = Token(k)
      BY <1>1, <2>1, <3>1
    <3>4. TokensInPlace' /\ TokenAnswersChallenge'
      BY <2>1, <3>2 DEF TokensInPlace, TokenAnswersChallenge, CacheKey
    <3> QED
      BY <1>1, <1>2, <2>1, <3>2, <3>3, <3>4, FetchStep DEF Fetching
  <2> QED
    BY <1>3, <1>7, <2>1 DEF RequestToken, ClientErrors
<1>8. CASE Retry \/ RetryDiverted
  BY <1>4, <1>8, <1>10 DEF Retry, RetryDiverted
<1>9. CASE ReadBody
  <2>1. ASSUME response' \in Responses,
               pc' = IF stage = "root" THEN "decode_root" ELSE "decode_selected",
               UNCHANGED <<inputs, walk, fetch, tokens, outcome, error>>
        PROVE  IInv'
    <3>1. response' \in ManifestResponses /\ response' # None
      BY <2>1, ResolutionConstants
    <3>2. TokensInPlace' /\ TokenAnswersChallenge'
      BY <2>1 DEF IInv, TokensInPlace, TokenAnswersChallenge, fetch, CacheKey
    <3> QED
      BY <1>1, <1>2, <2>1, <3>1, <3>2, FetchStep DEF fetch
  <2> QED
    BY <1>3, <1>9, <2>1 DEF ReadBody, ClientErrors
<1> QED
  BY <1>5, <1>6, <1>7, <1>8, <1>9

(* ImageIdentity speaks of the identities OciIdentity defines. *)
LEMMA SameResolutions ==
  ASSUME NEW ref, NEW p
  PROVE  Promise!Resolutions(ref, p) = Resolutions(ref, p)
<1>1. /\ Promise!IndexTypes = IndexTypes /\ Promise!ManifestTypes = ManifestTypes
      /\ Promise!Digests = Digests /\ Promise!Variants = Variants
  BY DEF Promise!IndexTypes, IndexTypes, Promise!ManifestTypes, ManifestTypes,
         Promise!Digests, Digests, Promise!Variants, Variants
<1>2. Promise!Platforms = Platforms /\ Promise!References = References
  BY <1>1 DEF Promise!Platforms, Platforms, Promise!References, References
<1>3. Promise!Identities = Identities
  BY <1>1, <1>2 DEF Promise!Identities, Identities
<1>4. \A index : Promise!Matches(index, p) = Matches(index, p)
  BY DEF Promise!Matches, Matches, Promise!Wanted, Wanted
<1>5. ASSUME NEW i PROVE Promise!Chain(i, ref, p) <=> Chain(i, ref, p)
  BY <1>1, <1>4 DEF Promise!Chain, Chain, Promise!ReadAs, ReadAs, Promise!LeadsTo,
       LeadsTo
<1> QED
  BY <1>3, <1>5 DEF Promise!Resolutions, Resolutions

(* An answer is the end of a resolution whose every link was checked. *)
LEMMA ResolveStep ==
  ASSUME IInv, NEW source, NEW top, NEW r, Resolve(source, top, r),
         pc \in {"decode_root", "decode_selected"},
         Identity(reference, platform, source, top, r) \in Resolutions(reference, platform)
  PROVE  IInv' /\ Promise!Answer
<1>1. /\ outcome' \in Resolutions(reference, platform) /\ pc' = "resolved"
      /\ UNCHANGED <<inputs, walk, fetch, tokens, response, error>>
  BY DEF Resolve
<1>2. outcome' \in Identities /\ outcome' # None
  BY <1>1, Distinct DEF Resolutions
<1> USE DEF inputs, walk, fetch
<1>3. TypeOK'
  BY <1>1, <1>2 DEF IInv, TypeOK, PCs, Done
<1>4. TokensInPlace' /\ TokenAnswersChallenge' /\ LinksAreChecked'
  BY <1>1 DEF IInv, TokensInPlace, TokenAnswersChallenge, LinksAreChecked, CacheKey
<1>5. Resolved'
  BY <1>1 DEF Resolved
<1>6. outcome = None
  BY DEF IInv, TypeOK
<1>7. Promise!Answer
  BY <1>1, <1>6, SameResolutions DEF Promise!Answer, Phase, Done
<1> QED
  BY <1>3, <1>4, <1>5, <1>7 DEF IInv

LEMMA DecodeRootStep == ASSUME IInv, DecodeRoot PROVE IInv' /\ (pc' = "resolved" => Promise!Answer)
<1> DEFINE index == Document[response.body]
           item == Selected(index, platform)
<1>1. /\ pc = "decode_root" /\ stage = "root" /\ expected = reference.digest
      /\ response \in ManifestResponses /\ reference \in References
      /\ platform \in Platforms
  BY DEF DecodeRoot, IInv, TypeOK, LinksAreChecked
<1>2. ASSUME NEW e \in DecodeErrors \union SelectionErrors \union Uncaught, Fail(e)
      PROVE  IInv' /\ pc' # "resolved"
  BY <1>1, <1>2, FailStep DEF Done, Fail
<1>3. CASE DecodeError(response, expected) # ""
  BY <1>2, <1>3, ErrorTypes DEF DecodeRoot, Uncaught
<1>4. CASE DecodeError(response, expected) = "" /\ MediaType(response) \in ManifestTypes
  <2>1. Resolve("direct-manifest", response, response)
    BY <1>4 DEF DecodeRoot
  <2> QED
    BY <1>1, <1>4, <2>1, DirectManifest, ResolveStep
<1>5. CASE /\ DecodeError(response, expected) = ""
           /\ MediaType(response) \notin ManifestTypes
           /\ SelectError(index, platform) # ""
  BY <1>2, <1>5, ErrorTypes DEF DecodeRoot
<1>6. CASE /\ DecodeError(response, expected) = ""
           /\ MediaType(response) \notin ManifestTypes
           /\ SelectError(index, platform) = ""
           /\ item.digest = Malformed
  BY <1>2, <1>6 DEF DecodeRoot, SelectionErrors
<1>7. CASE /\ DecodeError(response, expected) = ""
           /\ MediaType(response) \notin ManifestTypes
           /\ SelectError(index, platform) = ""
           /\ item.digest # Malformed
  <2>1. Descend(item)
    BY <1>7 DEF DecodeRoot
  <2>2. PICK n \in DOMAIN index.manifests :
          Matches(index, platform) = {n} /\ item = index.manifests[n]
    BY <1>7, SelectedIsOnly
  <2>3. index.lists_manifests
    BY <1>7, SelectedIsOnly
  <2>4. item \in Descriptors
    BY <1>1, <1>7, <2>2, DecodedIsAsked, DocumentType
  <2>5. item.digest \in Digests
    BY <1>7, <2>4 DEF Descriptors
  <2>6. /\ stage' = "selected" /\ descriptor' = item /\ expected' = item.digest
        /\ root' = response /\ pc' = "request"
        /\ challenge' = None /\ authorization' = None
        /\ UNCHANGED <<inputs, tokens, response, outcome, error>>
    BY <2>1 DEF Descend
  <2> HIDE DEF item
  <2> USE DEF inputs
  <2>7. TypeOK'
    BY <1>1, <2>4, <2>5, <2>6 DEF IInv, TypeOK, PCs, Fetching, Done
  <2>8. TokensInPlace' /\ Resolved' /\ TokenAnswersChallenge'
    BY <2>6 DEF IInv, TokensInPlace, Resolved, TokenAnswersChallenge
  <2>9. LinksAreChecked'
    <3>1. response # None
      BY <1>1, Distinct
    <3> QED
      BY <1>1, <1>7, <2>2, <2>3, <2>5, <2>6, <3>1 DEF LinksAreChecked
  <2> QED
    BY <2>6, <2>7, <2>8, <2>9 DEF IInv
<1> QED
  BY <1>3, <1>4, <1>5, <1>6, <1>7

LEMMA DecodeSelectedStep ==
  ASSUME IInv, DecodeSelected PROVE IInv' /\ (pc' = "resolved" => Promise!Answer)
<1> DEFINE index == Document[root.body]
<1>1. /\ pc = "decode_selected" /\ stage = "selected"
      /\ response \in ManifestResponses /\ reference \in References
      /\ platform \in Platforms /\ root \in ManifestResponses
      /\ DecodeError(root, reference.digest) = ""
      /\ MediaType(root) \notin ManifestTypes /\ index.lists_manifests
      /\ expected = descriptor.digest /\ expected \in Digests
  BY DEF DecodeSelected, IInv, TypeOK, LinksAreChecked
<1>2. PICK n \in DOMAIN index.manifests :
        Matches(index, platform) = {n} /\ descriptor = index.manifests[n]
  BY <1>1 DEF IInv, LinksAreChecked
<1>3. ASSUME NEW e \in DecodeErrors \union SelectionErrors \union Uncaught, Fail(e)
      PROVE  IInv' /\ pc' # "resolved"
  BY <1>1, <1>3, FailStep DEF Done, Fail
<1>4. CASE DecodeError(response, expected) # ""
  BY <1>3, <1>4, ErrorTypes DEF DecodeSelected, Uncaught
<1>5. CASE DecodeError(response, expected) = "" /\ ManifestError(descriptor, response) # ""
  BY <1>3, <1>5, ErrorTypes DEF DecodeSelected
<1>6. CASE DecodeError(response, expected) = "" /\ ManifestError(descriptor, response) = ""
  <2>1. Resolve("image-index", root, response)
    BY <1>6 DEF DecodeSelected
  <2>2. Identity(reference, platform, "image-index", root, response)
          \in Resolutions(reference, platform)
    BY <1>1, <1>2, <1>6, SelectedManifest
  <2> QED
    BY <1>1, <2>1, <2>2, ResolveStep
<1> QED
  BY <1>4, <1>5, <1>6

-----------------------------------------------------------------------------
LEMMA InitInvariant == Init => IInv
<1> SUFFICES ASSUME Init
             PROVE  IInv
  OBVIOUS
<1>1. reference \in References /\ platform \in Platforms /\ outcome = None /\ pc = "parse"
  BY ResolutionConstants DEF Init
<1>2. TypeOK
  <2>1. DOMAIN << >> = {}
    <3>1. << >> \in Seq(Nat) /\ Len(<< >>) = 0
      OBVIOUS
    <3>2. DOMAIN << >> = 1..0
      BY <3>1
    <3> QED
      BY <3>2
  <2>2. DOMAIN tokens = {}
    BY <2>1 DEF Init
  <2> QED
    BY <1>1, <2>2 DEF Init, TypeOK, PCs, Done, Fetching
<1>3. TokensInPlace /\ LinksAreChecked /\ Resolved /\ TokenAnswersChallenge
  BY DEF Init, TokensInPlace, LinksAreChecked, Resolved, TokenAnswersChallenge
<1> QED
  BY <1>2, <1>3 DEF IInv

(* What another step than the last shows ImageIdentity: nothing, or a refusal. *)
LEMMA UnansweredStep ==
  ASSUME IInv, IInv', pc \notin Done, pc' # "resolved", UNCHANGED inputs
  PROVE  Promise!Refuse \/ UNCHANGED <<reference, platform, Phase, outcome>>
<1>1. outcome = None /\ outcome' = None
  BY DEF IInv, TypeOK, Done
<1>2. Phase = "asked" /\ Phase' \in {"asked", "refused"}
  BY DEF Phase, Done
<1> QED
  BY <1>1, <1>2 DEF Promise!Refuse, inputs

LEMMA StepInvariant ==
  ASSUME IInv, Next
  PROVE  IInv' /\ (Promise!Next \/ UNCHANGED <<reference, platform, Phase, outcome>>)
<1>1. pc \notin Done /\ UNCHANGED inputs
  BY DEF Next, Parse, Request, RequestDiverted, Authorize, RequestToken, Retry,
         RetryDiverted, ReadBody, DecodeRoot, DecodeSelected, Done, Fail, Proceed,
         Answered, Challenged, Resolve, Descend, inputs
<1>2. IInv'
  BY ParseStep, ClientStep, DecodeRootStep, DecodeSelectedStep DEF Next
<1>3. CASE pc' = "resolved"
  <2>1. DecodeRoot \/ DecodeSelected
    BY <1>3 DEF Next, Parse, Request, RequestDiverted, Authorize, RequestToken, Retry,
         RetryDiverted, ReadBody, Fail, Proceed, Answered, Challenged
  <2> QED
    BY <1>2, <1>3, <2>1, DecodeRootStep, DecodeSelectedStep DEF Promise!Next
<1>4. CASE pc' # "resolved"
  BY <1>1, <1>2, <1>4, UnansweredStep DEF Promise!Next
<1> QED
  BY <1>2, <1>3, <1>4

LEMMA StutterInvariant ==
  IInv /\ UNCHANGED vars => IInv' /\ UNCHANGED <<reference, platform, Phase, outcome>>
BY DEF IInv, vars, inputs, walk, fetch, TypeOK, TokensInPlace, LinksAreChecked,
       Resolved, TokenAnswersChallenge, CacheKey, Phase

(* The inductive invariant, for every registry and every token service. *)
THEOREM Invariance == Spec => []IInv
<1>1. IInv /\ [Next]_vars => IInv'
  BY StepInvariant, StutterInvariant
<1> QED
  BY <1>1, InitInvariant, PTL DEF Spec

(* The variables keep their types, and every end of a resolution is told by an
   identity or an error of a known name. *)
THEOREM TypeCorrect == Spec => []TypeOK
<1>1. IInv => TypeOK
  BY DEF IInv
<1> QED
  BY <1>1, Invariance, PTL

(* No token is sent to a repository, realm or scope it was not issued for. *)
THEOREM TokensAnswer == Spec => []TokenAnswersChallenge
<1>1. IInv => TokenAnswersChallenge
  BY DEF IInv
<1> QED
  BY <1>1, Invariance, PTL

(* Whatever the registry sends, in whatever order, and whatever it holds: an
   identity resolve_oci_identity returns is a chain of digests from the
   reference to exactly one manifest for the platform. *)
THEOREM ImplementsPromise == Spec => KeepsPromise
<1>1. Init => Promise!Init
  <2>1. References = Promise!References /\ Platforms = Promise!Platforms
    BY DEF References, Promise!References, Platforms, Promise!Platforms, Digests,
           Promise!Digests, Variants, Promise!Variants
  <2> QED
    BY <2>1, ResolutionConstants DEF Init, Promise!Init, Phase, Done
<1>2. IInv /\ [Next]_vars =>
        [Promise!Next]_<<reference, platform, Phase, outcome>>
  BY StepInvariant, StutterInvariant
<1> QED
  BY <1>1, <1>2, Invariance, PTL DEF Spec, KeepsPromise, Promise!Spec

(* A digest whose document declares its own type stands for one identity, for
   each platform, whichever registry is asked. *)
THEOREM AnswersAreUnique == Spec => []AnswerIsUnique
<1>1. IInv => AnswerIsUnique
  <2> SUFFICES ASSUME IInv, pc = "resolved", reference.kind = "digest",
                      Document[outcome.root_digest.sha256].mediaType # None
               PROVE  Resolutions(reference, platform) = {outcome}
    BY DEF AnswerIsUnique
  <2>1. outcome \in Resolutions(reference, platform)
    BY DEF IInv, TypeOK, Resolved
  <2> QED
    BY <2>1, ChainsAgree
<1> QED
  BY <1>1, Invariance, PTL

-----------------------------------------------------------------------------
(***************************************************************************)
(* How often a client asks.                                                *)
(***************************************************************************)
LEMMA AskedIsFinite ==
  ASSUME sent \in Seq(Requests)
  PROVE  \A s, k : IsFiniteSet(Asked(s, k)) /\ Cardinality(Asked(s, k)) \in Nat
<1> TAKE s, k
<1>1. IsFiniteSet(1..Len(sent))
  BY FS_Interval
<1>2. Asked(s, k) \in SUBSET (1..Len(sent))
  BY DEF Asked
<1>3. IsFiniteSet(Asked(s, k))
  BY <1>1, <1>2, FS_Subset
<1> QED
  BY <1>3, FS_CardinalityType

(* One more request counts once, among those of its kind. *)
LEMMA AskedOnce ==
  ASSUME sent \in Seq(Requests), NEW service, NEW key, Send(service, key),
         service \in {"registry", "tokens"}, key \in Keys \union {None}
  PROVE  /\ sent' \in Seq(Requests)
         /\ Cardinality(Asked(service, key))' = Cardinality(Asked(service, key)) + 1
         /\ \A s, k : <<s, k>> # <<service, key>> => Asked(s, k)' = Asked(s, k)
<1> DEFINE r == [to |-> service, key |-> key]
           n == Len(sent) + 1
<1>1. r \in Requests
  BY DEF Requests
<1>2. /\ sent' \in Seq(Requests) /\ Len(sent') = n /\ n \in Nat
      /\ \A i \in 1..Len(sent) : sent'[i] = sent[i]
      /\ sent'[n] = r
  <2>1. sent' = Append(sent, r)
    BY DEF Send
  <2> HIDE DEF r
  <2> QED
    BY <1>1, <2>1
<1>3. /\ DOMAIN sent = 1..Len(sent) /\ DOMAIN sent' = 1..n
      /\ n \notin DOMAIN sent /\ DOMAIN sent' = DOMAIN sent \union {n}
  BY <1>2
<1>4. Asked(service, key)' = Asked(service, key) \union {n}
  <2> HIDE DEF n
  <2> QED
    BY <1>2, <1>3 DEF Asked
<1>5. n \notin Asked(service, key)
  BY <1>3 DEF Asked
<1>6. IsFiniteSet(Asked(service, key))
  BY AskedIsFinite
<1>7. Cardinality(Asked(service, key) \union {n}) = Cardinality(Asked(service, key)) + 1
  <2> HIDE DEF n
  <2> QED
    BY <1>5, <1>6, FS_AddElement
<1>8. ASSUME NEW s, NEW k, <<s, k>> # <<service, key>>
      PROVE  Asked(s, k)' = Asked(s, k)
  <2>1. [to |-> s, key |-> k] # r
    BY <1>8
  <2> HIDE DEF n
  <2> QED
    BY <1>2, <1>3, <2>1 DEF Asked
<1> QED
  BY <1>2, <1>4, <1>7, <1>8

(* A step that sends nothing spends nothing. *)
LEMMA SilentStep ==
  ASSUME IInv, RequestsCounted, UNCHANGED <<sent, tokens>>,
         pc \notin {"failed", "escaped"},
         Budget <= Budget',
         pc' = "token" => CacheKey(challenge)' \notin DOMAIN tokens
  PROVE  RequestsCounted'
<1>1. \A s, k : Asked(s, k)' = Asked(s, k)
  BY DEF Asked
<1>2. /\ Budget \in Nat /\ Budget' \in Nat
      /\ Cardinality(Asked("registry", None)) \in Nat
  BY AskedIsFinite DEF Budget, RequestsCounted
<1> QED
  BY <1>1, <1>2 DEF RequestsCounted

(* A manifest request spends what the budget of its stage gained. *)
LEMMA ManifestRequestStep ==
  ASSUME IInv, RequestsCounted, Send("registry", None), UNCHANGED <<tokens, stage>>,
         \/ pc = "request" /\ pc' \in {"request_diverted", "read", "failed", "escaped",
                                       "authorize"}
         \/ pc = "retry" /\ pc' \in {"retry_diverted", "read", "failed", "escaped"}
  PROVE  RequestsCounted'
<1>1. /\ sent' \in Seq(Requests)
      /\ Cardinality(Asked("registry", None))'
           = Cardinality(Asked("registry", None)) + 1
      /\ \A k \in Keys : Asked("tokens", k)' = Asked("tokens", k)
  BY AskedOnce DEF RequestsCounted
<1>2. Budget + 1 <= Budget'
  BY DEF Budget
<1>3. /\ Budget \in Nat /\ Budget' \in Nat
      /\ Cardinality(Asked("registry", None)) \in Nat
  BY AskedIsFinite DEF Budget, RequestsCounted
<1>4. pc \notin {"failed", "escaped"} /\ pc' # "token"
  OBVIOUS
<1> QED
  BY <1>1, <1>2, <1>3, <1>4 DEF RequestsCounted

(* A token request is the first for its key, and is cached or the last. *)
LEMMA TokenRequestStep ==
  ASSUME IInv, RequestsCounted, RequestToken PROVE RequestsCounted'
<1>0. PICK key \in Keys : key = CacheKey(challenge)
  BY KeyType DEF RequestToken, IInv, TypeOK, TokensInPlace
<1>1. /\ pc = "token" /\ Send("tokens", key) /\ key \notin DOMAIN tokens
      /\ pc' \in {"failed", "escaped", "retry"} /\ UNCHANGED stage
  BY <1>0 DEF RequestToken, RequestsCounted, Fail, walk
<1>2. key \in Keys
  BY <1>0
<1>3. Asked("tokens", key) = {}
  BY <1>1, <1>2 DEF RequestsCounted
<1>4. pc' = "retry" => DOMAIN tokens' = DOMAIN tokens \union {key}
  BY <1>0, <1>1 DEF RequestToken, Fail
<1>5. pc' # "retry" => UNCHANGED tokens
  BY <1>1 DEF RequestToken, Fail
<1>6. /\ sent' \in Seq(Requests)
      /\ Cardinality(Asked("tokens", key))' = Cardinality(Asked("tokens", key)) + 1
      /\ Asked("registry", None)' = Asked("registry", None)
      /\ \A k \in Keys \ {key} : Asked("tokens", k)' = Asked("tokens", k)
  BY <1>1, <1>2, AskedOnce DEF RequestsCounted
<1>7. Cardinality(Asked("tokens", key))' = 1
  <2>1. Cardinality(Asked("tokens", key)) = 0
    BY <1>3, FS_EmptySet
  <2> QED
    BY <1>6, <2>1
<1>8. /\ Budget <= Budget' /\ Budget \in Nat /\ Budget' \in Nat
      /\ Cardinality(Asked("registry", None)) \in Nat
  BY <1>1, AskedIsFinite DEF Budget, RequestsCounted
<1>9. ASSUME NEW k \in Keys
      PROVE  /\ Cardinality(Asked("tokens", k))' <= 1
             /\ pc' \notin {"failed", "escaped"} /\ k \notin DOMAIN tokens' =>
                  Asked("tokens", k)' = {}
  <2>1. CASE k = key
    BY <1>1, <1>4, <1>7, <2>1
  <2>2. CASE k # key
    BY <1>1, <1>4, <1>6, <2>2 DEF RequestsCounted
  <2> QED
    BY <2>1, <2>2
<1> QED
  BY <1>1, <1>6, <1>8, <1>9 DEF RequestsCounted

LEMMA RequestsStep == ASSUME IInv, RequestsCounted, Next PROVE RequestsCounted'
<1>1. CASE Parse
  BY <1>1, SilentStep DEF Parse, Fail, Budget, walk, Uncaught
<1>2. CASE Request
  BY <1>2, ManifestRequestStep DEF Request, Answered, Challenged, Proceed, Fail, walk
<1>9. CASE RequestDiverted \/ RetryDiverted
  <2>1. /\ UNCHANGED <<sent, tokens, stage>> /\ pc' # "token"
        /\ \/ pc = "request_diverted" /\ pc' \in {"read", "failed", "escaped", "authorize"}
           \/ pc = "retry_diverted" /\ pc' \in {"read", "failed", "escaped"}
    BY <1>9 DEF RequestDiverted, RetryDiverted, Answered, Challenged, Proceed, Fail, walk
  <2> QED
    BY <2>1, SilentStep DEF Budget
<1>3. CASE Authorize
  <2>1. pc = "authorize" /\ UNCHANGED <<sent, tokens, stage, challenge>>
    BY <1>3 DEF Authorize, Fail, walk, fetch
  <2>2. /\ pc' \in {"failed", "escaped", "retry", "token"}
        /\ pc' = "token" => CacheKey(challenge) \notin DOMAIN tokens
    BY <1>3 DEF Authorize, Fail
  <2>3. CacheKey(challenge)' = CacheKey(challenge)
    BY <2>1 DEF CacheKey
  <2>4. Budget <= Budget'
    BY <2>1, <2>2 DEF Budget
  <2> QED
    BY <2>1, <2>2, <2>3, <2>4, SilentStep
<1>4. CASE RequestToken
  BY <1>4, TokenRequestStep
<1>5. CASE Retry
  BY <1>5, ManifestRequestStep DEF Retry, Answered, Proceed, Fail, walk
<1>6. CASE ReadBody
  BY <1>6, SilentStep DEF ReadBody, Fail, Budget, walk
<1>7. CASE DecodeRoot
  <2>1. pc = "decode_root" /\ stage = "root" /\ UNCHANGED <<sent, tokens>>
    BY <1>7 DEF DecodeRoot, Fail, Resolve, Descend, IInv, LinksAreChecked
  <2>2. \/ pc' \in {"failed", "escaped", "resolved"} /\ stage' = "root"
        \/ pc' = "request" /\ stage' = "selected"
    BY <1>7, <2>1 DEF DecodeRoot, Fail, Resolve, Descend, walk
  <2> QED
    BY <2>1, <2>2, SilentStep DEF Budget
<1>8. CASE DecodeSelected
  <2>1. /\ pc = "decode_selected" /\ UNCHANGED <<sent, tokens, stage>>
        /\ pc' \in {"failed", "escaped", "resolved"}
    BY <1>8 DEF DecodeSelected, Fail, Resolve, walk
  <2>2. Budget <= Budget'
    BY <2>1 DEF Budget
  <2> QED
    BY <2>1, <2>2, SilentStep
<1> QED
  BY <1>1, <1>2, <1>3, <1>4, <1>5, <1>6, <1>7, <1>8, <1>9 DEF Next

LEMMA RequestsStutter == RequestsCounted /\ UNCHANGED vars => RequestsCounted'
BY DEF RequestsCounted, vars, walk, fetch, Asked, Budget, CacheKey

LEMMA NothingSent == Init => RequestsCounted
<1> SUFFICES ASSUME Init PROVE RequestsCounted
  OBVIOUS
<1>1. sent \in Seq(Requests) /\ Len(sent) = 0
  <2>1. << >> \in Seq(Requests) /\ Len(<< >>) = 0
    OBVIOUS
  <2> QED
    BY <2>1 DEF Init
<1>2. \A s, k : Asked(s, k) = {}
  BY <1>1 DEF Asked
<1>3. pc = "parse" /\ stage = "root"
  BY DEF Init
<1>4. Budget = 0
  BY <1>3 DEF Budget
<1>5. \A s, k : Cardinality(Asked(s, k)) = 0
  BY <1>2, FS_EmptySet
<1> QED
  BY <1>1, <1>2, <1>3, <1>4, <1>5 DEF RequestsCounted

(* However a registry and its token services answer, fetch_manifest asks each
   at most as often as the code's branches say: two requests for a manifest,
   two manifests, one token for a key. *)
THEOREM RequestsBounded == Spec => []RequestsAreBounded
<1>1. IInv /\ RequestsCounted /\ [Next]_vars => RequestsCounted'
  BY RequestsStep, RequestsStutter
<1>2. RequestsCounted => RequestsAreBounded
  <2> SUFFICES ASSUME RequestsCounted PROVE RequestsAreBounded
    OBVIOUS
  <2>1. /\ Cardinality(Asked("registry", None)) \in Nat
        /\ Cardinality(Asked("registry", None)) <= Budget
        /\ Budget \in Nat /\ Budget <= IF stage = "root" THEN 2 ELSE 4
    BY AskedIsFinite DEF RequestsCounted, Budget
  <2> QED
    BY <2>1 DEF RequestsCounted, RequestsAreBounded
<1> QED
  BY <1>1, <1>2, NothingSent, Invariance, PTL DEF Spec
===============================================================================
