------------------------------- MODULE KeyCache -------------------------------
(***************************************************************************)
(* OidcIdentityProviderAdapter: the public keys of the identity provider   *)
(* in memory, and the calls of resolveIdentity that look up a key by the   *)
(* kid of their token.  A call refreshes all keys when there is none or    *)
(* the last refresh is too long ago, and again when it does not find its   *)
(* kid; refreshes of several calls overlap, and end in any order.          *)
(*                                                                         *)
(* The provider publishes and withdraws keys as it likes.  A token is the  *)
(* key that signed it, and whether it names that key in its kid; its       *)
(* claims are left out, and so is a missing configuration.                 *)
(***************************************************************************)
EXTENDS Naturals, Sequences, SequencesExt

CONSTANTS
    Keys,           \* keys of the provider
    Tokens,         \* calls of resolveIdentity, each with its token
    Ttl,            \* jwksCacheTtlMs
    Timeout,        \* of the request for the keys
    MaxNow,         \* bound on the time
    MaxChanges      \* bound on the changes of the published keys

ASSUME KeyConstants ==
    /\ Ttl \in Nat /\ Timeout \in Nat /\ MaxNow \in Nat /\ MaxChanges \in Nat

VARIABLES
    now,        \* Date.now()
    published,  \* the keys the provider publishes, in their order
    changes,    \* how often it has changed them
    lastSeen,   \* lastSeen[k]: the last moment at which k was published
    cache,      \* jwksCache: keys in the order of their insertion
    lastFetch,  \* lastJwksFetch
    stage,      \* stage[t]: where the call with token t is
    token,      \* token[t]: its signer, and whether it has a kid
    sent,       \* sent[t]: when its request was sent
    answer,     \* answer[t]: the keys the provider answers it with
    answered,   \* tokens whose request the provider has answered
    failed,     \* tokens one of whose refreshes failed
    steady      \* tokens whose key was published all the time of the call

keyVars == <<now, published, changes, lastSeen, cache, lastFetch, stage, token,
             sent, answer, answered, failed, steady>>

provider == <<published, changes, lastSeen>>

Refreshing == {"refresh", "force"}

KeyTypeOK ==
    /\ now \in 0 .. MaxNow
    /\ published \in Seq(Keys) /\ cache \in Seq(Keys)
    /\ changes \in 0 .. MaxChanges
    /\ lastSeen \in [Keys -> 0 .. MaxNow]
    /\ lastFetch \in 0 .. MaxNow
    /\ stage \in [Tokens -> {"new", "accepted", "refused"} \cup Refreshing]
    /\ token \in [Tokens -> [signer : Keys, kid : BOOLEAN]]
    /\ sent \in [Tokens -> 0 .. MaxNow]
    /\ answer \in [Tokens -> Seq(Keys)]
    /\ answered \subseteq Tokens /\ failed \subseteq Tokens
    /\ steady \subseteq Tokens

KeyInit ==
    /\ now = 0
    /\ \E k \in Keys : published = <<k>>
    /\ changes = 0
    /\ lastSeen = [k \in Keys |-> 0]
    /\ cache = <<>>
    /\ lastFetch = 0
    /\ stage = [t \in Tokens |-> "new"]
    /\ token \in [Tokens -> [signer : Keys, kid : BOOLEAN]]
    /\ sent = [t \in Tokens |-> 0]
    /\ answer = [t \in Tokens |-> <<>>]
    /\ answered = {}
    /\ failed = {}
    /\ steady = {}

-----------------------------------------------------------------------------
\* The call t goes on to wait for a refresh: "refresh" or "force".
Await(t, step) ==
    /\ stage' = [stage EXCEPT ![t] = step]
    /\ sent' = [sent EXCEPT ![t] = now]
    /\ answered' = answered \ {t}
    /\ answer' = [answer EXCEPT ![t] = <<>>]

\* The signature of t is verified with one key.
Judge(t, key) ==
    /\ stage' = [stage EXCEPT ![t] =
                 IF token[t].signer = key THEN "accepted" ELSE "refused"]
    /\ answered' = answered \ {t}
    /\ answer' = [answer EXCEPT ![t] = <<>>]
    /\ UNCHANGED sent

TurnAway(t) ==
    /\ stage' = [stage EXCEPT ![t] = "refused"]
    /\ answered' = answered \ {t}
    /\ answer' = [answer EXCEPT ![t] = <<>>]
    /\ UNCHANGED sent

\* The key of t among the keys held: its kid, or else the first of them.
Fallback(t, held) ==
    IF held = <<>> THEN TurnAway(t) ELSE Judge(t, Head(held))

\* Mutant of LookUp: an unknown kid is no reason to ask the provider.
LookUpOnce(t, held, forced) ==
    IF token[t].kid /\ token[t].signer \in ToSet(held)
    THEN Judge(t, token[t].signer)
    ELSE Fallback(t, held)

LookUp(t, held, forced) ==
    IF token[t].kid /\ token[t].signer \in ToSet(held)
    THEN Judge(t, token[t].signer)
    ELSE IF token[t].kid /\ ~forced
         THEN Await(t, "force")
         ELSE Fallback(t, held)

\* Mutant of Outdated: keys that were fetched once are kept for good.
OutdatedNever == cache = <<>>

Outdated == cache = <<>> \/ now - lastFetch > Ttl

\* resolveIdentity comes to getPublicKey.
Arrive(t) ==
    /\ stage[t] = "new"
    /\ IF Outdated THEN Await(t, "refresh") ELSE LookUp(t, cache, FALSE)
    /\ steady' = IF token[t].signer \in ToSet(published)
                 THEN steady \cup {t} ELSE steady
    /\ UNCHANGED <<provider, now, token, cache, lastFetch, failed>>

\* The provider makes its answer to the request of t.
Answer(t) ==
    /\ stage[t] \in Refreshing /\ t \notin answered
    /\ answered' = answered \cup {t}
    /\ answer' = [answer EXCEPT ![t] = published]
    /\ UNCHANGED <<provider, now, stage, token, sent, cache, lastFetch, failed,
                   steady>>

\* refreshJwks has the answer: the keys are replaced, and the call goes on.
Refreshed(t) ==
    /\ stage[t] \in Refreshing /\ t \in answered
    /\ cache' = answer[t]
    /\ lastFetch' = now
    /\ LookUp(t, cache', stage[t] = "force")
    /\ UNCHANGED <<provider, now, token, failed, steady>>

\* refreshJwks fails, and the keys stay.
RefreshFails(t) ==
    /\ stage[t] \in Refreshing
    /\ failed' = failed \cup {t}
    /\ LookUp(t, cache, stage[t] = "force")
    /\ UNCHANGED <<provider, now, token, cache, lastFetch, steady>>

Tick ==
    /\ now < MaxNow
    /\ \A t \in Tokens : stage[t] \in Refreshing => now < sent[t] + Timeout
    /\ now' = now + 1
    /\ lastSeen' = [k \in Keys |-> IF k \in ToSet(published) THEN now'
                                   ELSE lastSeen[k]]
    /\ UNCHANGED <<published, changes, cache, lastFetch, stage, token, sent,
                   answer, answered, failed, steady>>

\* The provider publishes other keys.
Rotate ==
    /\ changes < MaxChanges
    /\ changes' = changes + 1
    /\ \/ \E k \in Keys \ ToSet(published) : published' = Append(published, k)
       \/ \E i \in DOMAIN published : published' = RemoveAt(published, i)
    /\ lastSeen' = [k \in Keys |-> IF k \in ToSet(published') THEN now
                                   ELSE lastSeen[k]]
    /\ steady' = {t \in steady : \/ stage[t] \notin Refreshing
                                 \/ token[t].signer \in ToSet(published')}
    /\ UNCHANGED <<now, cache, lastFetch, stage, token, sent, answer, answered,
                   failed>>

\* The process starts anew: its keys and its calls are gone.
Restart ==
    /\ cache' = <<>>
    /\ lastFetch' = 0
    /\ stage' = [t \in Tokens |-> IF stage[t] \in Refreshing THEN "refused" ELSE stage[t]]
    /\ answer' = [t \in Tokens |-> <<>>]
    /\ answered' = {}
    /\ failed' = failed \cup {t \in Tokens : stage[t] \in Refreshing}
    /\ UNCHANGED <<provider, now, token, sent, steady>>

KeyNext ==
    \/ \E t \in Tokens : Arrive(t) \/ Answer(t) \/ Refreshed(t) \/ RefreshFails(t)
    \/ Tick
    \/ Rotate
    \/ Restart

KeySpec == KeyInit /\ [][KeyNext]_keyVars

-----------------------------------------------------------------------------
\* A token that names a key which is published all the time of the call is
\* accepted, however old the keys in memory are and whichever older answers
\* overwrite them, unless a refresh of this very call failed.
PublishedKeyAccepted ==
    \A t \in steady \ failed : stage[t] = "refused" => ~token[t].kid

\* A token of a key that was withdrawn longer than Ttl + Timeout ago is
\* refused, unless a refresh of this very call failed: an answer overtaken by
\* a newer one brings a withdrawn key back, but not for longer than that.
WithdrawnKeyRefused ==
    [][\A t \in Tokens :
          stage[t] # "accepted" /\ stage'[t] = "accepted" /\ t \notin failed'
              => now <= lastSeen[token[t].signer] + Ttl + Timeout]_keyVars
=============================================================================
