---------------------------- MODULE TokenSource ----------------------------
(* The access token of the FCM sender (internal/push/serviceaccount.go and *)
(* fcm.go): a cache behind a mutex that is held across the exchange with   *)
(* the token endpoint, and senders that take a token and then make their   *)
(* own call.  The cache learns a token's lifetime only when the answer     *)
(* arrives, so it believes the token to live longer than it does.          *)
EXTENDS Integers

CONSTANTS
    Senders,
    Grace,        \* tokenExpiryGrace
    MaxExchange,  \* the HTTP client's timeout on the exchange
    MaxSend,      \* and on the send
    Lifetimes,    \* expires_in of the tokens the endpoint hands out
    MaxClock      \* bound on the clock

ASSUME TokenAssumption ==
    /\ "free" \notin Senders
    /\ Grace \in Nat /\ MaxExchange \in Nat /\ MaxSend \in Nat /\ MaxClock \in Nat
    /\ Lifetimes \subseteq Nat
    /\ MaxExchange + MaxSend < Grace
    /\ \A ttl \in Lifetimes : ttl > MaxExchange + MaxSend

NoToken == -1

VARIABLES
    clock,
    cache,   \* [real, expiry]: when the cached token really expires, and when Token thinks it does
    lock,    \* the sender in Token that holds the mutex, or "free"
    sender   \* [pc, real, ttl, since]

tokenVars == <<clock, cache, lock, sender>>

AtRest == [pc |-> "idle", real |-> NoToken, ttl |-> 0, since |-> 0]

TokenInit ==
    /\ clock = 0 /\ lock = "free"
    /\ cache = [real |-> NoToken, expiry |-> 0]
    /\ sender = [s \in Senders |-> AtRest]

\* Mutant: no allowance.
FreshToTheEnd == cache.real # NoToken /\ clock < cache.expiry

Fresh == cache.real # NoToken /\ clock < cache.expiry - Grace

Become(s, pc, real) == sender' = [sender EXCEPT ![s] = [pc |-> pc, real |-> real, ttl |-> sender[s].ttl, since |-> clock]]

\* FCMSender.Send asks for a token.
Send(s) ==
    /\ sender[s].pc \in {"idle", "accepted", "expired"}
    /\ Become(s, "token", NoToken)
    /\ UNCHANGED <<clock, cache, lock>>

\* Mutant: the cache is looked at before the mutex is taken.
TokenUnlocked(s) ==
    /\ \/ sender[s].pc = "token" /\ Fresh /\ Become(s, "send", cache.real) /\ UNCHANGED lock
       \/ sender[s].pc = "token" /\ ~Fresh /\ Become(s, "stale", NoToken) /\ UNCHANGED lock
       \/ sender[s].pc = "stale" /\ lock = "free" /\ lock' = s /\ Become(s, "exchange", NoToken)
    /\ UNCHANGED <<clock, cache>>

\* Token: under the mutex, the cached token if it is fresh, else an exchange.
Token(s) ==
    /\ sender[s].pc = "token" /\ lock = "free"
    /\ \/ Fresh /\ Become(s, "send", cache.real) /\ UNCHANGED lock
       \/ ~Fresh /\ Become(s, "exchange", NoToken) /\ lock' = s
    /\ UNCHANGED <<clock, cache>>

\* The endpoint mints a token; its lifetime runs from here.
MintToken(s) ==
    /\ sender[s].pc = "exchange"
    /\ \E ttl \in Lifetimes :
        sender' = [sender EXCEPT ![s] = [pc |-> "minted", real |-> clock + ttl, ttl |-> ttl, since |-> sender[s].since]]
    /\ UNCHANGED <<clock, cache, lock>>

\* The answer arrives: the expiry is counted from now.
Cache(s) ==
    /\ sender[s].pc = "minted"
    /\ cache' = [real |-> sender[s].real, expiry |-> clock + sender[s].ttl]
    /\ lock' = "free"
    /\ Become(s, "send", sender[s].real)
    /\ UNCHANGED clock

\* Signing or the exchange fails, or its answer is lost or unusable: Token
\* returns the error and the cache keeps what it had.
ExchangeFailed(s) ==
    /\ sender[s].pc \in {"exchange", "minted"}
    /\ lock' = "free"
    /\ sender' = [sender EXCEPT ![s] = AtRest]
    /\ UNCHANGED <<clock, cache>>

\* The message reaches FCM with its bearer token.
Deliver(s) ==
    /\ sender[s].pc = "send"
    /\ Become(s, IF clock < sender[s].real THEN "accepted" ELSE "expired", NoToken)
    /\ UNCHANGED <<clock, cache, lock>>

SendFailed(s) ==
    /\ sender[s].pc = "send"
    /\ sender' = [sender EXCEPT ![s] = AtRest]
    /\ UNCHANGED <<clock, cache, lock>>

\* No call outlives its client's timeout.
ClockTick ==
    /\ clock < MaxClock
    /\ \A s \in Senders :
        /\ sender[s].pc \in {"exchange", "minted"} => clock - sender[s].since < MaxExchange
        /\ sender[s].pc = "send" => clock - sender[s].since < MaxSend
    /\ clock' = clock + 1
    /\ UNCHANGED <<cache, lock, sender>>

TokenNext ==
    \/ ClockTick
    \/ \E s \in Senders : \/ Send(s) \/ Token(s) \/ MintToken(s) \/ Cache(s) \/ ExchangeFailed(s)
                          \/ Deliver(s) \/ SendFailed(s)

TokenSpec == TokenInit /\ [][TokenNext]_tokenVars

-----------------------------------------------------------------------------

\* A token never expires between the cache's check and the FCM call that uses
\* it, although the cache overestimates its lifetime by the time the exchange
\* took (internal/push/serviceaccount.go:114-140).
NeverExpiresMidFlight == \A s \in Senders : sender[s].pc # "expired"

\* The mutex makes concurrent senders share one exchange: whoever is exchanging
\* has found no fresh token, and none appears behind its back
\* (internal/push/serviceaccount.go:118-140).
NoNeedlessExchange == \A s \in Senders : sender[s].pc \in {"exchange", "minted"} => lock = s /\ ~Fresh

=============================================================================
