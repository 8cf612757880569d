----------------------------- MODULE OciResolution -----------------------------
(***************************************************************************)
(* One resolution of an image reference against a registry                 *)
(* (src/oci_identity.py: resolve_oci_identity over a new RegistryClient).  *)
(*                                                                         *)
(* The registry and its token service may answer every request with        *)
(* anything.  A request and what comes of it is one action, unless urlopen *)
(* is diverted before it returns; the body is read after the headers, and  *)
(* may fail by itself.                                                     *)
(*                                                                         *)
(* An error is named as the code names it, HTTP status codes left out.  An *)
(* error in Uncaught is no OciIdentityError: nothing on the way out of     *)
(* run() catches it.                                                       *)
(***************************************************************************)
EXTENDS OciIdentity

CONSTANTS
  Requested,     \* references to resolve
  Wishes,        \* platforms to resolve them for
  Responses,     \* what the registry may answer a manifest request with
  Realms,        \* token services with an https address
  Services, Scopes

ASSUME ResolutionConstants ==
  /\ Requested \subseteq References /\ Wishes \subseteq Platforms
  /\ Responses \subseteq ManifestResponses
  /\ None \notin Realms \union Services \union Scopes \union Identities

VARIABLES
  reference, platform,   \* the arguments
  pc,
  stage,        \* of the root, then of the selected manifest
  expected,     \* the digest asked for, None for a tag
  descriptor,   \* the one the index listed, None before and without
  challenge,    \* WWW-Authenticate of this fetch, None without
  authorization,\* the token of this fetch
  tokens,       \* the client's token cache: from cache keys to tokens
  response,     \* what this fetch returned
  root,         \* what the first one returned
  outcome,      \* the identity it resolved to
  error,        \* the error it ended with, if it did
  sent          \* every request sent so far, in order

inputs == <<reference, platform>>
fetch == <<challenge, authorization>>
walk == <<stage, expected, descriptor, root>>
vars == <<inputs, pc, walk, fetch, tokens, response, outcome, error, sent>>

(* What a WWW-Authenticate header says: a scheme, and parameters that may be
   missing; a realm without https is as good as none. *)
Challenges ==
  [bearer : BOOLEAN, realm : Realms \union {None},
   service : Services \union {""}, scope : Scopes \union {""}]

(* The key a token is cached under; the scope defaults to pulling from the
   repository. *)
CacheKey(c) ==
  [realm |-> c.realm, service |-> c.service,
   scope |-> IF c.scope = "" THEN "pull" ELSE c.scope]

Token(key) == [issued_for |-> key]
Keys == [realm : Realms, service : Services \union {""},
         scope : Scopes \union {"pull"}]

(* The mark of an absent header or token is neither. *)
ASSUME MarksAreNoAnswers ==
  None \notin Challenges /\ None \notin [issued_for : Keys]

Uncaught == {"UnicodeDecodeError", "HTTPException", "ValueError"}

-----------------------------------------------------------------------------
Init ==
  /\ reference \in Requested /\ platform \in Wishes
  /\ pc = "parse" /\ stage = "root" /\ expected = None /\ descriptor = None
  /\ challenge = None /\ authorization = None /\ tokens = << >>
  /\ response = None /\ root = None
  /\ outcome = None /\ error = "" /\ sent = << >>

Fail(e) ==
  /\ error' = e /\ pc' = IF e \in Uncaught THEN "escaped" ELSE "failed"
  /\ UNCHANGED <<inputs, walk, fetch, tokens, response, outcome>>

Parse ==
  /\ pc = "parse" /\ UNCHANGED sent
  /\ \/ reference.kind = "malformed" /\ Fail("malformed_oci_reference")
     \/ /\ reference.kind # "malformed"
        /\ pc' = "request" /\ expected' = reference.digest
        /\ UNCHANGED <<inputs, stage, descriptor, root, fetch, tokens, response,
                       outcome, error>>

(***************************************************************************)
(* RegistryClient.fetch_manifest.                                          *)
(***************************************************************************)
Send(service, key) == sent' = Append(sent, [to |-> service, key |-> key])

Proceed(there) ==
  /\ pc' = there
  /\ UNCHANGED <<inputs, walk, fetch, tokens, response, outcome, error>>

(* What the server says in the end: the headers of a manifest, whose body is
   still to be read, or an error; a request that can not be made is none of
   the errors the client catches. *)
Answered ==
  \/ Proceed("read")
  \/ \E e \in {"registry_manifest_http", "registry_manifest_transport_failed",
                "HTTPException", "ValueError"} : Fail(e)

(* A first request may also be answered with 401 and a challenge or none. *)
Challenged ==
  \/ Fail("registry_auth_challenge_missing")
  \/ /\ challenge' \in Challenges /\ pc' = "authorize"
     /\ UNCHANGED <<inputs, walk, authorization, tokens, response, outcome, error>>

(* The first request carries no token, whatever the cache holds.  Before it
   returns, urlopen skips interim answers (100), as many as there are, and
   follows redirects, whose bodies it reads to their end. *)
Request ==
  /\ pc = "request" /\ Send("registry", None)
  /\ Answered \/ Challenged \/ Proceed("request_diverted")

RequestDiverted ==
  pc = "request_diverted" /\ UNCHANGED sent /\ (Answered \/ Challenged)

\* Mutant of Authorize: the cache goes by the realm alone.
AuthorizeByRealm ==
  /\ pc = "authorize" /\ UNCHANGED sent
  /\ LET cached == {k \in DOMAIN tokens : k.realm = challenge.realm} IN
     IF cached # {}
     THEN /\ authorization' = tokens[CHOOSE k \in cached : TRUE] /\ pc' = "retry"
          /\ UNCHANGED <<inputs, walk, challenge, tokens, response, outcome, error>>
     ELSE /\ pc' = "token"
          /\ UNCHANGED <<inputs, walk, fetch, tokens, response, outcome, error>>

(* _bearer_token up to its request: the challenge is judged, then the cache is
   asked.  A cached token is used however old it is. *)
Authorize ==
  /\ pc = "authorize" /\ UNCHANGED sent
  /\ IF ~challenge.bearer THEN Fail("unsupported_registry_auth_challenge")
     ELSE IF challenge.realm = None THEN Fail("registry_auth_realm_invalid")
     ELSE IF CacheKey(challenge) \in DOMAIN tokens
     THEN /\ authorization' = tokens[CacheKey(challenge)] /\ pc' = "retry"
          /\ UNCHANGED <<inputs, walk, challenge, tokens, response, outcome, error>>
     ELSE /\ pc' = "token"
          /\ UNCHANGED <<inputs, walk, fetch, tokens, response, outcome, error>>

RequestToken ==
  /\ pc = "token" /\ Send("tokens", CacheKey(challenge))
  /\ \/ \E e \in {"registry_token_request_failed", "registry_token_missing"}
                       \union Uncaught : Fail(e)
     \/ /\ authorization' = Token(CacheKey(challenge))
        /\ tokens' = [key \in DOMAIN tokens \union {CacheKey(challenge)} |->
                       IF key = CacheKey(challenge) THEN authorization'
                                                    ELSE tokens[key]]
        /\ pc' = "retry"
        /\ UNCHANGED <<inputs, walk, challenge, response, outcome, error>>

\* Mutant of Retry: a second 401 discards the token and asks for another.
RetryForever ==
  /\ pc = "retry" /\ Send("registry", None)
  /\ \/ Answered
     \/ /\ pc' = "authorize" /\ challenge' \in Challenges /\ tokens' = << >>
        /\ UNCHANGED <<inputs, walk, authorization, response, outcome, error>>

\* Mutant of Retry: a second 401 is taken for a first one and its request
\* repeated (unrecorded), though the cache still holds the refused token.
RetryAgain ==
  /\ pc = "retry"
  /\ \/ Send("registry", None) /\ Answered
     \/ UNCHANGED sent /\ Proceed("authorize")

(* A second 401 is an HTTP error like any other. *)
Retry ==
  /\ pc = "retry" /\ Send("registry", None)
  /\ Answered \/ Proceed("retry_diverted")

RetryDiverted == pc = "retry_diverted" /\ UNCHANGED sent /\ Answered

ReadBody ==
  /\ pc = "read" /\ UNCHANGED sent
  /\ \/ Fail("registry_manifest_transport_failed")
     \/ /\ response' \in Responses
        /\ pc' = IF stage = "root" THEN "decode_root" ELSE "decode_selected"
        /\ UNCHANGED <<inputs, walk, fetch, tokens, outcome, error>>

(***************************************************************************)
(* resolve_oci_identity.                                                   *)
(***************************************************************************)
Resolve(source, root_response, manifest_response) ==
  /\ outcome' = Identity(reference, platform, source, root_response,
                         manifest_response)
  /\ pc' = "resolved"
  /\ UNCHANGED <<inputs, walk, fetch, tokens, response, error>>

(* The fetch of the selected manifest starts afresh: no token is carried over
   but through the cache. *)
Descend(item) ==
  /\ stage' = "selected" /\ descriptor' = item /\ expected' = item.digest
  /\ root' = response /\ pc' = "request"
  /\ challenge' = None /\ authorization' = None
  /\ UNCHANGED <<inputs, tokens, response, outcome, error>>

DecodeRoot ==
  /\ pc = "decode_root" /\ UNCHANGED sent
  /\ LET index == Document[response.body]
         problem == DecodeError(response, expected) IN
     IF problem # "" THEN Fail(problem)
     ELSE IF MediaType(response) \in ManifestTypes
     THEN Resolve("direct-manifest", response, response)
     ELSE IF SelectError(index, platform) # ""
     THEN Fail(SelectError(index, platform))
     ELSE IF Selected(index, platform).digest = Malformed
     THEN Fail("platform_descriptor_digest_invalid")
     ELSE Descend(Selected(index, platform))

DecodeSelected ==
  /\ pc = "decode_selected" /\ UNCHANGED sent
  /\ LET problem == DecodeError(response, expected) IN
     IF problem # "" THEN Fail(problem)
     ELSE IF ManifestError(descriptor, response) # ""
     THEN Fail(ManifestError(descriptor, response))
     ELSE Resolve("image-index", root, response)

-----------------------------------------------------------------------------
Next ==
  \/ Parse \/ Request \/ RequestDiverted \/ Authorize \/ RequestToken
  \/ Retry \/ RetryDiverted \/ ReadBody \/ DecodeRoot \/ DecodeSelected

Spec == Init /\ [][Next]_vars

(***************************************************************************)
(* Every wait on a socket ends after RegistryClient.timeout, and a status  *)
(* line and its headers are of bounded size, so a manifest request is      *)
(* answered, is diverted or fails; the client keeps running.  Nothing      *)
(* bounds the size of a body or the number of interim answers: ReadBody,   *)
(* RequestToken, which reads a body, and the diverted are not fair.        *)
(***************************************************************************)
FairSpec ==
  /\ Spec
  /\ WF_vars(Parse \/ Authorize \/ DecodeRoot \/ DecodeSelected)
  /\ WF_vars(Request \/ Retry)
===============================================================================
