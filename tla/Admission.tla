------------------------------ MODULE Admission ------------------------------
(***************************************************************************)
(* What stands between a client and the job store in one API process: the  *)
(* rate limiter (module RateLimiter), the size and form checks of          *)
(* create_compare_job, and the request signature with its cache of nonces  *)
(* (app/core/hmac_auth.py).  The read endpoints pass the limiter and the   *)
(* signature only.                                                         *)
(*                                                                         *)
(* Handlers are coroutines of one event loop.  create_compare_job gives    *)
(* way to others only where it awaits its two files, so it is two steps,   *)
(* with the requests between them in pending; every other handler is one.  *)
(* Ticks are seconds; the monotonic and the wall clock advance together.   *)
(***************************************************************************)
EXTENDS RateLimiter

CONSTANTS
    Slot,         \* bound: POST requests in progress at once
    Client,       \* client addresses
    Nonce, None,
    Upload,       \* the POST requests that clients send
    Query,        \* the GET requests that clients send
    RateLimiting, \* COMPARE_RATE_LIMIT_ENABLED
    MaxTotal,     \* COMPARE_MAX_TOTAL_UPLOAD_BYTES
    MaxFile,      \* COMPARE_MAX_FILE_SIZE_BYTES
    Signing,      \* HMAC_ENABLED
    Skew,         \* HMAC_ALLOWED_SKEW_SEC
    RequireNonce, \* HMAC_REQUIRE_NONCE
    NonceTtl      \* HMAC_NONCE_TTL_SEC

\* What Pillow and the pixel limits say of a file that is not empty.
ImageVerdict == {"fits", "large", "format", "unidentified", "unreadable"}
Image == [bytes : Nat, verdict : ImageVerdict]

\* The headers of a signed request.  signed: the signature is there and is that
\* of the request with this timestamp and nonce.
Headers == [client : Client, stamped : BOOLEAN, stamp : Int, nonce : Nonce \cup {None},
            signed : BOOLEAN]

\* declared: the content-length header, -1 if it is absent or not a number.
\* form: job_id, metric and normalize can be parsed.
Post == [headers : Headers, declared : Int, form : BOOLEAN, a : Image, b : Image]

\* validate_hmac_settings, at start-up.
ValidSettings == Signing => Skew > 0 /\ NonceTtl > 0

ASSUME AdmissionAssumption ==
    /\ Key = {"create", "read"} \X Client
    /\ Upload \subseteq Post /\ Query \subseteq Headers
    /\ RateLimiting \in BOOLEAN /\ Signing \in BOOLEAN /\ RequireNonce \in BOOLEAN
    /\ MaxTotal \in Int /\ MaxFile \in Int /\ Skew \in Int /\ NonceTtl \in Int
    /\ ValidSettings

VARIABLES
    pending, \* pending[s]: the POST request that awaits its files in slot s, or None
    expiry,  \* expiry[n]: when the cache forgets nonce n; 0 if it does not hold n
    uses     \* history: uses[n]: when requests with nonce n were let through

limiterVars == <<now, events, admitted, answer>>
admissionVars == <<now, events, admitted, answer, pending, expiry, uses>>

AdmissionInit ==
    /\ Init
    /\ pending = [s \in Slot |-> None]
    /\ expiry = [n \in Nonce |-> 0]
    /\ uses = [n \in Nonce |-> <<>>]

-----------------------------------------------------------------------------
\* The checks of a handler come in an order; the first that fails answers.

TotalFits(u) == MaxTotal <= 0 \/ u.a.bytes + u.b.bytes <= MaxTotal

DeclaredFits(u) == MaxTotal <= 0 \/ u.declared <= MaxTotal

\* _validate_image_bytes.
ImageFits(image) ==
    /\ image.bytes > 0
    /\ MaxFile <= 0 \/ image.bytes <= MaxFile
    /\ image.verdict = "fits"

\* Before the files are awaited, and after.
Announced(u) == DeclaredFits(u) /\ u.form
Received(u)  == TotalFits(u) /\ ImageFits(u.a) /\ ImageFits(u.b)

-----------------------------------------------------------------------------
\* verify_hmac_request.

Abs(x) == IF x < 0 THEN -x ELSE x

\* The checks of the headers that come before the signature's.
Current(h) ==
    /\ h.stamped /\ Abs(now - h.stamp) <= Skew
    /\ RequireNonce => h.nonce # None

\* Deviation: stale nonces stay.
KeepAll == expiry

\* Each call drops what is stale, whether or not its own nonce is accepted.
Pruned == [n \in Nonce |-> IF expiry[n] <= now THEN 0 ELSE expiry[n]]

\* Deviation: counted from the request's timestamp.
RememberSinceStamp(h) ==
    expiry' = [Pruned EXCEPT ![h.nonce] = IF @ = 0 THEN h.stamp + NonceTtl ELSE @]

Remember(h) ==
    expiry' = [Pruned EXCEPT ![h.nonce] = IF @ = 0 THEN now + NonceTtl ELSE @]

Unused(h) == Pruned[h.nonce] = 0

\* Deviation: the nonce is remembered before the signature is compared.
VerifyNonceFirst(h) ==
    IF Signing /\ RequireNonce /\ Current(h) THEN Remember(h) ELSE UNCHANGED expiry

\* What the verification of h does to the cache.
Verify(h) ==
    IF Signing /\ RequireNonce /\ Current(h) /\ h.signed THEN Remember(h)
                                                         ELSE UNCHANGED expiry

\* Whether it lets h through.
Verified(h) == Signing => Current(h) /\ h.signed /\ (RequireNonce => Unused(h))

LetThrough(h) ==
    uses' = [n \in Nonce |-> IF n = h.nonce THEN Append(uses[n], now) ELSE uses[n]]

-----------------------------------------------------------------------------
\* _rate_limit_request.
LimitRate(bucket, client) ==
    IF RateLimiting THEN Allow(<<bucket, client>>)
                    ELSE answer' = "allowed" /\ UNCHANGED <<now, events, admitted>>

\* create_compare_job up to the await: 429, 413 or 400, or it waits.
ReceivePost(s, u) ==
    /\ pending[s] = None
    /\ LimitRate("create", u.headers.client)
    /\ pending' = [pending EXCEPT ![s] =
                     IF answer' = "allowed" /\ Announced(u) THEN u ELSE None]
    /\ UNCHANGED <<expiry, uses>>

\* From the await to create_job: 413, 400, 415 or 401, or the job is created.
HandlePost(s) ==
    LET u == pending[s] IN
    /\ u # None
    /\ IF Received(u) THEN Verify(u.headers) ELSE UNCHANGED expiry
    /\ IF Received(u) /\ Verified(u.headers)
       THEN LetThrough(u.headers)
       ELSE UNCHANGED uses
    /\ pending' = [pending EXCEPT ![s] = None]
    /\ UNCHANGED limiterVars

\* A read endpoint: 429 or 401, or it is answered.
HandleGet(h) ==
    /\ LimitRate("read", h.client)
    /\ IF answer' = "allowed" THEN Verify(h) ELSE UNCHANGED expiry
    /\ IF answer' = "allowed" /\ Verified(h) THEN LetThrough(h) ELSE UNCHANGED uses
    /\ UNCHANGED pending

PassTime == Tick /\ UNCHANGED <<pending, expiry, uses>>

AdmissionNext ==
    \/ \E s \in Slot : HandlePost(s) \/ \E u \in Upload : ReceivePost(s, u)
    \/ \E h \in Query : HandleGet(h)
    \/ PassTime

AdmissionSpec == AdmissionInit /\ [][AdmissionNext]_admissionVars

-----------------------------------------------------------------------------
\* README: "Nonce is single-use within HMAC_NONCE_TTL_SEC".  Whatever handlers
\* are between their two steps, two requests with one nonce that are both let
\* through are at least the TTL apart.
NonceSingleUse ==
    Signing /\ RequireNonce =>
        \A n \in Nonce : \A i \in 1..Len(uses[n]) - 1 :
            uses[n][i + 1] - uses[n][i] >= NonceTtl

\* A request that any of these checks refuses may be sent again as it is: every
\* nonce in the cache is there for a request that was let through.  (What
\* create_job then makes of it, 409 included, comes after the nonce is spent.)
RefusedSpendsNothing ==
    \A n \in Nonce : expiry[n] # 0 =>
        /\ uses[n] # <<>>
        /\ expiry[n] = uses[n][Len(uses[n])] + NonceTtl

\* The cache holds the nonces of one TTL and no older ones, however many
\* requests have come.
CacheWithinTtl ==
    \A m, n \in Nonce : expiry[m] # 0 /\ expiry[n] # 0 => expiry[m] - expiry[n] < NonceTtl
=============================================================================
