-------------------------------- MODULE Ratings --------------------------------
(***************************************************************************)
(* src/frontend/app/api/ratings/route.ts with lib/api/ratingsProtocol.ts,  *)
(* for one product: a wallet signs a message with a nonce and an expiry,   *)
(* the route accepts it once, appends the rating to the product's list and *)
(* marks the wallet.  Requests run at the same time, and the store may     *)
(* fail at each call.  Signatures are valid; marks of wallets, kept for a  *)
(* year, do not expire here, the keys of nonces do.                        *)
(***************************************************************************)
EXTENDS Naturals, Sequences, FiniteSets

CONSTANTS
  Poster,                   \* requests that can run at the same time
  Message,                  \* signed messages: the wallet and the nonce
  ExpiryWindow, NonceTtl,   \* 300 s and 600 s
  MaxRatingTime, MaxPosts   \* bounds

ASSUME ExpiryAssumption == ExpiryWindow \in Nat /\ NonceTtl \in Nat /\ MaxRatingTime \in Nat

VARIABLES
  ratingNow,    \* the clock
  expiresAt,    \* expiry of the signed messages
  nonceUntil,   \* nonce:rate:*: when the key expires, 0 if it was never set
  rated,        \* rating:dup:*
  ratings,      \* ratings:*, as the wallets in order
  poster,       \* what each request does
  consumed,     \* history: times a message's nonce was consumed
  thanked,      \* history: wallets that were answered 201
  crossed,      \* history: wallets whose requests overlapped another or came late
  unmarked,     \* history: wallets whose rating was stored, then the request failed
  posts

ratingVars == <<ratingNow, expiresAt, nonceUntil, rated, ratings, poster, consumed,
                thanked, crossed, unmarked, posts>>

Wallet == {m[1] : m \in Message}
AtRest == [at |-> "idle", message |-> <<"none", "none">>, copy |-> <<>>]
WalletOf(q) == poster[q].message[1]
Running == {q \in Poster : poster[q].at # "idle"}

\* parseAndValidateMessage
ValidMessage == expiresAt > ratingNow /\ expiresAt <= ratingNow + ExpiryWindow
PostRating(q, m) ==
  /\ poster[q].at = "idle" /\ ValidMessage /\ posts < MaxPosts
  /\ posts' = posts + 1
  /\ poster' = [poster EXCEPT ![q] = [AtRest EXCEPT !.at = "nonce", !.message = m]]
  /\ crossed' = IF Running = {} THEN crossed
                ELSE crossed \cup {m[1]} \cup {WalletOf(p) : p \in Running}
  /\ UNCHANGED <<ratingNow, expiresAt, nonceUntil, rated, ratings, consumed, thanked, unmarked>>

\* consumeNonce.  A request that takes so long to come here that the key of a nonce
\* may have expired is late: the message was valid when it began.
Late == ratingNow >= expiresAt + NonceTtl - ExpiryWindow
ReadNonce(q) ==
  /\ poster[q].at = "nonce"
  /\ poster' = [poster EXCEPT ![q] =
       IF nonceUntil[@.message] > ratingNow THEN AtRest ELSE [@ EXCEPT !.at = "consume"]]
  /\ crossed' = IF Late THEN crossed \cup {WalletOf(q)} ELSE crossed
  /\ UNCHANGED <<ratingNow, expiresAt, nonceUntil, rated, ratings, consumed, thanked, unmarked,
                 posts>>
NonceForgotten == ratingNow + ExpiryWindow \div 2             \* faulty variant
NonceKeptUntil == ratingNow + NonceTtl
ConsumeNonce(q) ==
  /\ poster[q].at = "consume"
  /\ nonceUntil' = [nonceUntil EXCEPT ![poster[q].message] = NonceKeptUntil]
  /\ consumed' = [consumed EXCEPT ![poster[q].message] = @ + 1]
  /\ poster' = [poster EXCEPT ![q].at = "duplicate"]
  /\ UNCHANGED <<ratingNow, expiresAt, rated, ratings, thanked, crossed, unmarked, posts>>

\* hasDuplicateRating
CheckDuplicate(q) ==
  /\ poster[q].at = "duplicate"
  /\ poster' = [poster EXCEPT ![q] = IF WalletOf(q) \in rated THEN AtRest
                                     ELSE [@ EXCEPT !.at = "read"]]
  /\ UNCHANGED <<ratingNow, expiresAt, nonceUntil, rated, ratings, consumed, thanked, crossed,
                 unmarked, posts>>

ReadRatings(q) ==
  /\ poster[q].at = "read"
  /\ poster' = [poster EXCEPT ![q].at = "write", ![q].copy = ratings]
  /\ UNCHANGED <<ratingNow, expiresAt, nonceUntil, rated, ratings, consumed, thanked, crossed,
                 unmarked, posts>>
WriteRatings(q) ==
  /\ poster[q].at = "write"
  /\ ratings' = Append(poster[q].copy, WalletOf(q))
  /\ poster' = [poster EXCEPT ![q].at = "mark"]
  /\ UNCHANGED <<ratingNow, expiresAt, nonceUntil, rated, consumed, thanked, crossed, unmarked,
                 posts>>
RecordRating(q) ==
  /\ poster[q].at = "mark"
  /\ rated' = rated \cup {WalletOf(q)} /\ thanked' = thanked \cup {WalletOf(q)}
  /\ poster' = [poster EXCEPT ![q] = AtRest]
  /\ UNCHANGED <<ratingNow, expiresAt, nonceUntil, ratings, consumed, crossed, unmarked, posts>>

\* A call to the store throws: 500.
StoreFails(q) ==
  /\ poster[q].at # "idle"
  /\ unmarked' = IF poster[q].at = "mark" THEN unmarked \cup {WalletOf(q)} ELSE unmarked
  /\ poster' = [poster EXCEPT ![q] = AtRest]
  /\ UNCHANGED <<ratingNow, expiresAt, nonceUntil, rated, ratings, consumed, thanked, crossed,
                 posts>>

RatingTimePasses ==
  /\ ratingNow < MaxRatingTime /\ ratingNow' = ratingNow + 1
  /\ UNCHANGED <<expiresAt, nonceUntil, rated, ratings, poster, consumed, thanked, crossed,
                 unmarked, posts>>

RatingsInit ==
  /\ ratingNow = 0 /\ expiresAt \in 1..MaxRatingTime
  /\ nonceUntil = [m \in Message |-> 0] /\ rated = {} /\ ratings = <<>>
  /\ poster = [q \in Poster |-> AtRest]
  /\ consumed = [m \in Message |-> 0]
  /\ thanked = {} /\ crossed = {} /\ unmarked = {} /\ posts = 0

RatingsNext ==
  \/ RatingTimePasses
  \/ \E q \in Poster :
       \/ \E m \in Message : PostRating(q, m)
       \/ ReadNonce(q) \/ ConsumeNonce(q) \/ CheckDuplicate(q) \/ ReadRatings(q)
       \/ WriteRatings(q) \/ RecordRating(q) \/ StoreFails(q)

-----------------------------------------------------------------------------
\* A signed message is used once though its nonce's key expires, because it expires
\* first; a wallet's rating is counted once, and kept once it was answered.  Only
\* overlapping or late requests and a failure after the rating was stored break it
\* (ratingsProtocol.ts:20-24, 102-108; ratings/route.ts:79-121).
TimesRated(w) == Cardinality({i \in DOMAIN ratings : ratings[i] = w})
EachRatingCountsOnce ==
  \A w \in Wallet \ crossed :
    /\ \A m \in Message : m[1] = w => consumed[m] <= 1
    /\ w \notin unmarked => TimesRated(w) <= 1
    /\ w \in thanked => TimesRated(w) >= 1
=============================================================================
