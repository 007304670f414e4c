---------------------------- MODULE AuthService ----------------------------
(***************************************************************************)
(* FirebaseAuthService: the account the worker is signed in to, in memory and  *)
(* in chrome.storage.local, and its token refreshes, sign-ins and sign-outs.   *)
(*                                                                         *)
(* One action is one stretch of JavaScript between two answers from outside:   *)
(* the storage area, which carries out its calls in the order they are made     *)
(* and answers each; Google; the Firebase endpoints.  A continuation waiting     *)
(* on a promise is a step of its own: taking it later is the same as its own     *)
(* last answer having come later.                                            *)
(***************************************************************************)
EXTENDS Naturals, Sequences

CONSTANTS
  Logins,       \* calls of signInWithGoogle
  UserOf,       \* the account chosen in each
  Callers,      \* calls of getIdToken that find the token expired
  Nobody,       \* null
  Minted,       \* the token the silent lookup of each sign-out mints if none is cached
  MaxSignOuts,  \* bound: sign-outs
  MaxFaults,    \* bound: calls to the outside that fail
  MaxStops      \* bound: times the worker is stopped

ASSUME NobodyAssumption == Nobody \notin Logins \cup [login : Logins, token : Logins]
ASSUME AuthBoundsAssumption == MaxSignOuts \in Nat /\ MaxFaults \in Nat /\ MaxStops \in Nat
ASSUME MintedAssumption ==
  /\ \A n \in 1..MaxSignOuts : Minted[n] \notin Logins \cup {Nobody}
  /\ \A m, n \in 1..MaxSignOuts : Minted[m] = Minted[n] => m = n

VARIABLES
  stored,          \* firebaseRestAuthState in storage.local
  writes,          \* calls to storage.local without an answer, in the order made
  access,          \* storageAccessPromise
  restored,        \* restorePromise
  current,         \* currentState: a login, and the login its tokens were issued to
  authGeneration,
  signIn,          \* how far each sign-in is
  googleToken,     \* the Google token each sign-in exchanges
  preceding,       \* precedingCommit of each sign-in
  tail,            \* pendingSignInCommit: the login whose commit ends the chain
  signOut,         \* pendingSignOut
  googleCache,     \* external: the token Chrome has cached
  refresh,         \* each call of getIdToken
  signOuts, faults, stops,
  revoked,         \* history: Google tokens sent to the revocation endpoint
  askedAfter,      \* history: sign-outs begun when a sign-in asked Google for a token
  storedLate,      \* history: storage holds a refresh stored behind a newer sign-in
  removed          \* history: logins whose tokens a sign-out has removed

durableState == <<stored, storedLate, removed>>
loginState == <<signIn, googleToken, preceding, askedAfter>>
googleState == <<googleCache, revoked>>
authVars == <<stored, writes, access, restored, current, authGeneration, signIn, googleToken,
              preceding, tail, signOut, googleCache, refresh, signOuts, faults, stops, revoked,
              askedAfter, storedLate, removed>>

State == [login : Logins, token : Logins]
\* The tokens Google issues: one to each sign-in, one to the lookup of each sign-out.
GoogleToken == Logins \cup {Minted[n] : n \in 1..MaxSignOuts}
Access == [kind |-> "access", by |-> Nobody, state |-> Nobody, late |-> FALSE]
Get == [kind |-> "get", by |-> Nobody, state |-> Nobody, late |-> FALSE]
Remove == [kind |-> "remove", by |-> Nobody, state |-> Nobody, late |-> FALSE]
SetSignIn(l) ==
  [kind |-> "signIn", by |-> l, state |-> [login |-> l, token |-> l], late |-> FALSE]
SetRefresh(c, s, late) == [kind |-> "refresh", by |-> c, state |-> s, late |-> late]
Outstanding(kind) == \E i \in DOMAIN writes : writes[i].kind = kind

NoSignOut == [pc |-> "none", token |-> Nobody]
NoRefresh == [pc |-> "new", login |-> Nobody, gen |-> 0, token |-> Nobody, late |-> FALSE]

AuthInit ==
  /\ stored = Nobody /\ storedLate = FALSE /\ removed = {}
  /\ writes = <<Access>> /\ access = "pending" /\ restored = "pending"
  /\ current = Nobody /\ authGeneration = 0
  /\ signIn = [l \in Logins |-> "new"]
  /\ googleToken = [l \in Logins |-> Nobody]
  /\ preceding = [l \in Logins |-> Nobody]
  /\ askedAfter = [l \in Logins |-> 0]
  /\ tail = Nobody /\ signOut = NoSignOut
  /\ googleCache = Nobody /\ revoked = {}
  /\ refresh = [c \in Callers |-> NoRefresh]
  /\ signOuts = 0 /\ faults = 0 /\ stops = 0

Fault == faults < MaxFaults /\ faults' = faults + 1
-----------------------------------------------------------------------------
\* The constructor: the storage area is restricted, then the account read back.
AccessGranted ==
  /\ writes # <<>> /\ Head(writes).kind = "access"
  /\ access' = "ok" /\ writes' = Append(Tail(writes), Get)
  /\ UNCHANGED <<durableState, restored, current, authGeneration, loginState, tail, signOut,
                 googleState, refresh, signOuts, faults, stops>>
AccessDenied ==
  /\ writes # <<>> /\ Head(writes).kind = "access"
  /\ Fault /\ access' = "failed" /\ restored' = "failed" /\ writes' = Tail(writes)
  /\ UNCHANGED <<durableState, current, authGeneration, loginState, tail, signOut, googleState,
                 refresh, signOuts, stops>>

RestoreAuthState ==
  /\ writes # <<>> /\ Head(writes).kind = "get"
  /\ writes' = Tail(writes) /\ restored' = "ok"
  /\ current' = stored /\ authGeneration' = authGeneration + 1
  /\ UNCHANGED <<durableState, access, loginState, tail, signOut, googleState, refresh, signOuts,
                 faults, stops>>
RestoreFails ==
  /\ writes # <<>> /\ Head(writes).kind = "get"
  /\ Fault /\ writes' = Tail(writes) /\ restored' = "failed"
  /\ UNCHANGED <<durableState, access, current, authGeneration, loginState, tail, signOut,
                 googleState, refresh, signOuts, stops>>
-----------------------------------------------------------------------------
AskGoogleDuringSignOut(l) ==  \* mutant
  /\ signIn[l] = "new" /\ access = "ok" /\ restored # "pending"
  /\ signIn' = [signIn EXCEPT ![l] = "google"]
  /\ askedAfter' = [askedAfter EXCEPT ![l] = signOuts]
  /\ UNCHANGED <<durableState, writes, access, restored, current, authGeneration, googleToken,
                 preceding, tail, signOut, googleState, refresh, signOuts, faults, stops>>
\* signInWithGoogle waits for a pending sign-out, the access level, the restore, whatever
\* came of it, and again for a sign-out, and asks Google; only a refused access level fails it.
AskGoogle(l) ==
  /\ signIn[l] = "new"
  /\ signOut.pc = "none" /\ access = "ok" /\ restored # "pending"
  /\ signIn' = [signIn EXCEPT ![l] = "google"]
  /\ askedAfter' = [askedAfter EXCEPT ![l] = signOuts]
  /\ UNCHANGED <<durableState, writes, access, restored, current, authGeneration, googleToken,
                 preceding, tail, signOut, googleState, refresh, signOuts, faults, stops>>

\* getChromeAuthToken(true) answers with the cached token or a new one; the exchange begins.
GoogleAnswers(l) ==
  LET token == IF googleCache = Nobody THEN l ELSE googleCache
  IN /\ signIn[l] = "google"
     /\ signIn' = [signIn EXCEPT ![l] = "exchange"]
     /\ googleToken' = [googleToken EXCEPT ![l] = token]
     /\ googleCache' = token
     /\ UNCHANGED <<durableState, writes, access, restored, current, authGeneration, preceding,
                    askedAfter, tail, signOut, revoked, refresh, signOuts, faults, stops>>

\* The sign-in has no more use for its Google token.
TokenUsed(l) ==
  /\ googleToken' = [googleToken EXCEPT ![l] = Nobody]
  /\ askedAfter' = [askedAfter EXCEPT ![l] = 0]
\* signInWithIdp answers; a sign-out begun meanwhile is waited for before anything is stored.
Exchanged(l) ==
  /\ signIn[l] = "exchange"
  /\ signIn' = [signIn EXCEPT ![l] = "exchanged"] /\ TokenUsed(l)
  /\ UNCHANGED <<durableState, writes, access, restored, current, authGeneration, preceding,
                 tail, signOut, googleState, refresh, signOuts, faults, stops>>

SignInFails(l) ==
  /\ signIn[l] \in {"google", "exchange"}
  /\ Fault /\ signIn' = [signIn EXCEPT ![l] = "failed"] /\ TokenUsed(l)
  /\ UNCHANGED <<durableState, writes, access, restored, current, authGeneration, preceding,
                 tail, signOut, googleState, refresh, signOuts, stops>>

\* commitSignIn waits for the commit that ended the chain.
ChainCommit(l) ==
  /\ signIn[l] = "exchanged" /\ signOut.pc = "none"
  /\ preceding' = [preceding EXCEPT ![l] = tail]
  /\ tail' = l
  /\ IF tail = Nobody
     THEN writes' = Append(writes, SetSignIn(l)) /\ signIn' = [signIn EXCEPT ![l] = "writing"]
     ELSE signIn' = [signIn EXCEPT ![l] = "chained"] /\ UNCHANGED writes
  /\ UNCHANGED <<durableState, access, restored, current, authGeneration, googleToken,
                 askedAfter, signOut, googleState, refresh, signOuts, faults, stops>>

\* The completion of a commit: the marker goes if it still names it, its successor writes.
Successors(l) == {m \in Logins : signIn[m] = "chained" /\ preceding[m] = l}
CompletedOnSuccess(l, outcome) ==  \* mutant
  /\ tail' = IF tail = l THEN Nobody ELSE tail
  /\ signIn' = [m \in Logins |-> IF m = l THEN outcome
                                 ELSE IF m \in Successors(l) /\ outcome = "done" THEN "writing"
                                 ELSE signIn[m]]
  /\ writes' = IF Successors(l) = {} \/ outcome = "failed" THEN Tail(writes)
               ELSE Append(Tail(writes), SetSignIn(CHOOSE m \in Successors(l) : TRUE))
  /\ UNCHANGED <<access, googleToken, preceding, askedAfter, signOut, googleState, refresh,
                 signOuts, stops>>
CompletedMarked(l, outcome) ==  \* mutant
  /\ signIn' = [m \in Logins |-> IF m = l THEN outcome
                                 ELSE IF m \in Successors(l) THEN "writing" ELSE signIn[m]]
  /\ writes' = IF Successors(l) = {} THEN Tail(writes)
               ELSE Append(Tail(writes), SetSignIn(CHOOSE m \in Successors(l) : TRUE))
  /\ UNCHANGED <<access, googleToken, preceding, tail, askedAfter, signOut, googleState, refresh,
                 signOuts, stops>>
Completed(l, outcome) ==
  /\ tail' = IF tail = l THEN Nobody ELSE tail
  /\ signIn' = [m \in Logins |-> IF m = l THEN outcome
                                 ELSE IF m \in Successors(l) THEN "writing" ELSE signIn[m]]
  /\ writes' = IF Successors(l) = {} THEN Tail(writes)
               ELSE Append(Tail(writes), SetSignIn(CHOOSE m \in Successors(l) : TRUE))
  /\ UNCHANGED <<access, googleToken, preceding, askedAfter, signOut, googleState, refresh,
                 signOuts, stops>>

SignInStored ==
  /\ writes # <<>> /\ Head(writes).kind = "signIn"
  /\ stored' = Head(writes).state /\ storedLate' = FALSE
  /\ current' = Head(writes).state
  /\ authGeneration' = authGeneration + 1
  /\ restored' = "ok"
  /\ Completed(Head(writes).by, "done")
  /\ UNCHANGED <<removed, faults>>
SignInPublishedFirst ==  \* mutant
  /\ writes # <<>> /\ Head(writes).kind = "signIn"
  /\ Fault
  /\ current' = Head(writes).state /\ authGeneration' = authGeneration + 1
  /\ Completed(Head(writes).by, "failed")
  /\ UNCHANGED <<durableState, restored>>
SignInNotStored ==
  /\ writes # <<>> /\ Head(writes).kind = "signIn"
  /\ Fault
  /\ Completed(Head(writes).by, "failed")
  /\ UNCHANGED <<durableState, current, authGeneration, restored>>
-----------------------------------------------------------------------------
SignOutUnreserved ==  \* mutant
  /\ signOut.pc = "none" /\ signOuts < MaxSignOuts
  /\ signOut' = [NoSignOut EXCEPT !.pc = "wait"]
  /\ signOuts' = signOuts + 1
  /\ UNCHANGED <<durableState, writes, access, restored, current, authGeneration, loginState, tail,
                 googleState, refresh, faults, stops>>
\* signOut() reserves a generation; a second call joins this one.
SignOut ==
  /\ signOut.pc = "none" /\ signOuts < MaxSignOuts
  /\ signOut' = [NoSignOut EXCEPT !.pc = "wait"]
  /\ authGeneration' = authGeneration + 1 /\ signOuts' = signOuts + 1
  /\ UNCHANGED <<durableState, writes, access, restored, current, loginState, tail, googleState,
                 refresh, faults, stops>>

SignOutRefused ==
  /\ signOut.pc = "wait" /\ access = "failed"
  /\ signOut' = NoSignOut
  /\ UNCHANGED <<durableState, writes, access, restored, current, authGeneration, loginState,
                 tail, googleState, refresh, signOuts, faults, stops>>

CommitsNotDrained ==  \* mutant
  /\ signOut.pc = "wait" /\ access = "ok"
  /\ signOut' = [signOut EXCEPT !.pc = "lookup"]
  /\ UNCHANGED <<durableState, writes, access, restored, current, authGeneration, loginState,
                 tail, googleState, refresh, signOuts, faults, stops>>
\* Every queued commit is over: the token to revoke is looked up, without a prompt.
CommitsDrained ==
  /\ signOut.pc = "wait" /\ access = "ok" /\ tail = Nobody
  /\ signOut' = [signOut EXCEPT !.pc = "lookup"]
  /\ UNCHANGED <<durableState, writes, access, restored, current, authGeneration, loginState,
                 tail, googleState, refresh, signOuts, faults, stops>>
\* getChromeAuthToken(false) answers with the cached token or a new one, or with nothing, and
\* the stored account is removed.
RemoveStored ==
  /\ signOut.pc = "lookup"
  /\ \E t \in {IF googleCache = Nobody THEN Minted[signOuts] ELSE googleCache, Nobody} :
       /\ signOut' = [pc |-> "remove", token |-> t]
       /\ googleCache' = IF t = Nobody THEN googleCache ELSE t
  /\ writes' = Append(writes, Remove)
  /\ UNCHANGED <<durableState, access, restored, current, authGeneration, loginState, tail,
                 revoked, refresh, signOuts, faults, stops>>

\* The tokens that storage and memory hold.
TokensHeld == {s.token : s \in {stored, current} \ {Nobody}}
SignedOutStored ==
  /\ writes # <<>> /\ Head(writes).kind = "remove"
  /\ writes' = Tail(writes)
  /\ stored' = Nobody /\ storedLate' = FALSE /\ removed' = removed \cup TokensHeld
  /\ current' = Nobody /\ authGeneration' = authGeneration + 1
  /\ signOut' = IF signOut.token = Nobody THEN NoSignOut ELSE [signOut EXCEPT !.pc = "uncache"]
  /\ UNCHANGED <<access, restored, loginState, tail, googleState, refresh, signOuts, faults,
                 stops>>
SignedOutNotStored ==
  /\ writes # <<>> /\ Head(writes).kind = "remove"
  /\ Fault /\ writes' = Tail(writes) /\ signOut' = NoSignOut
  /\ UNCHANGED <<durableState, access, restored, current, authGeneration, loginState, tail,
                 googleState, refresh, signOuts, stops>>

\* removeCachedAuthToken calls back; the revocation request leaves.
Uncached ==
  /\ signOut.pc = "uncache"
  /\ googleCache' = IF googleCache = signOut.token THEN Nobody ELSE googleCache
  /\ revoked' = revoked \cup {signOut.token}
  /\ signOut' = [signOut EXCEPT !.pc = "revoke"]
  /\ UNCHANGED <<durableState, writes, access, restored, current, authGeneration, loginState,
                 tail, refresh, signOuts, faults, stops>>
\* It answers, fails, or is aborted after GOOGLE_REVOKE_TIMEOUT_MS.
Revoked ==
  /\ signOut.pc = "revoke"
  /\ signOut' = NoSignOut
  /\ UNCHANGED <<durableState, writes, access, restored, current, authGeneration, loginState,
                 tail, googleState, refresh, signOuts, faults, stops>>
-----------------------------------------------------------------------------
\* getIdToken of an expired token: the refresh is of this login and generation.
StartRefresh(c) ==
  /\ refresh[c].pc = "new" /\ restored = "ok" /\ signOut.pc = "none" /\ current # Nobody
  /\ refresh' = [refresh EXCEPT ![c] =
       [NoRefresh EXCEPT !.pc = "fetch", !.login = current.login, !.token = current.token,
                         !.gen = authGeneration]]
  /\ UNCHANGED <<durableState, writes, access, restored, current, authGeneration, loginState,
                 tail, signOut, googleState, signOuts, faults, stops>>

SameUser(r) == current # Nobody /\ UserOf[current.login] = UserOf[r.login]  \* mutant
SameSession(r) ==
  /\ current # Nobody /\ UserOf[current.login] = UserOf[r.login]
  /\ authGeneration = r.gen

DiscardRefreshLive(c) ==  \* mutant
  /\ refresh[c].pc = "fetch" /\ ~SameSession(refresh[c])
  /\ refresh' = [refresh EXCEPT ![c] =
       [@ EXCEPT !.pc = "got", !.token = IF current = Nobody THEN @ ELSE current.token]]
  /\ UNCHANGED <<durableState, writes, access, restored, current, authGeneration, loginState,
                 tail, signOut, googleState, signOuts, faults, stops>>
\* A stale answer is handed to its caller and kept from everyone else.
DiscardRefresh(c) ==
  /\ refresh[c].pc = "fetch" /\ ~SameSession(refresh[c])
  /\ refresh' = [refresh EXCEPT ![c].pc = "got"]
  /\ UNCHANGED <<durableState, writes, access, restored, current, authGeneration, loginState,
                 tail, signOut, googleState, signOuts, faults, stops>>
PublishRefresh(c) ==
  LET refreshed == [current EXCEPT !.token = refresh[c].token]
      behind == Outstanding("signIn")
  IN /\ refresh[c].pc = "fetch" /\ SameSession(refresh[c])
     /\ current' = refreshed
     /\ writes' = Append(writes, SetRefresh(c, refreshed, behind))
     /\ refresh' = [refresh EXCEPT ![c] = [@ EXCEPT !.pc = "store", !.late = behind]]
     /\ UNCHANGED <<durableState, access, restored, authGeneration, loginState, tail, signOut,
                    googleState, signOuts, faults, stops>>
RefreshFails(c) ==
  /\ refresh[c].pc = "fetch"
  /\ Fault /\ refresh' = [refresh EXCEPT ![c].pc = "thrown"]
  /\ UNCHANGED <<durableState, writes, access, restored, current, authGeneration, loginState,
                 tail, signOut, googleState, signOuts, stops>>

\* The caller is answered with the token of whoever is signed in by then.
RefreshStored ==
  /\ writes # <<>> /\ Head(writes).kind = "refresh"
  /\ writes' = Tail(writes)
  /\ stored' = Head(writes).state /\ storedLate' = Head(writes).late
  /\ refresh' = [refresh EXCEPT ![Head(writes).by] =
       IF current = Nobody THEN [@ EXCEPT !.pc = "thrown"]
       ELSE [@ EXCEPT !.pc = "got", !.token = current.token]]
  /\ UNCHANGED <<removed, access, restored, current, authGeneration, loginState, tail, signOut,
                 googleState, signOuts, faults, stops>>
RefreshNotStored ==
  /\ writes # <<>> /\ Head(writes).kind = "refresh"
  /\ Fault /\ writes' = Tail(writes)
  /\ refresh' = [refresh EXCEPT ![Head(writes).by].pc = "thrown"]
  /\ UNCHANGED <<durableState, access, restored, current, authGeneration, loginState, tail,
                 signOut, googleState, signOuts, stops>>
-----------------------------------------------------------------------------
\* The worker is stopped, with any number of the calls to storage carried out, and starts
\* again: nothing of its memory is left.  A prompt it had open comes to nothing.
Changes == {i \in DOMAIN writes : writes[i].kind \in {"signIn", "refresh", "remove"}}
Stop ==
  /\ stops < MaxStops /\ stops' = stops + 1
  /\ \/ UNCHANGED durableState
     \/ \E i \in Changes :
          /\ stored' = writes[i].state /\ storedLate' = writes[i].late
          /\ removed' = IF \E j \in Changes : j <= i /\ writes[j].kind = "remove"
                        THEN removed \cup TokensHeld \cup
                               {writes[j].state.token : j \in {k \in Changes : k <= i
                                                      /\ writes[k].kind # "remove"}}
                        ELSE removed
  /\ writes' = <<Access>> /\ access' = "pending" /\ restored' = "pending"
  /\ current' = Nobody /\ authGeneration' = 0
  /\ signIn' = [l \in Logins |-> IF signIn[l] \in {"new", "done"} THEN signIn[l] ELSE "failed"]
  /\ preceding' = [l \in Logins |-> Nobody]
  /\ tail' = Nobody /\ signOut' = NoSignOut
  /\ refresh' = [c \in Callers |-> IF refresh[c].pc \in {"fetch", "store"}
                                   THEN [NoRefresh EXCEPT !.pc = "thrown"] ELSE refresh[c]]
  /\ googleToken' = [l \in Logins |-> Nobody] /\ askedAfter' = [l \in Logins |-> 0]
  /\ UNCHANGED <<googleState, signOuts, faults>>

SignInNext ==
  \E l \in Logins : \/ AskGoogle(l) \/ GoogleAnswers(l) \/ Exchanged(l) \/ SignInFails(l)
                    \/ ChainCommit(l)
StorageNext ==
  \/ AccessGranted \/ AccessDenied \/ RestoreAuthState \/ RestoreFails
  \/ SignInStored \/ SignInNotStored \/ SignedOutStored \/ SignedOutNotStored
  \/ RefreshStored \/ RefreshNotStored
SignOutNext ==
  SignOut \/ SignOutRefused \/ CommitsDrained \/ RemoveStored \/ Uncached \/ Revoked
RefreshNext ==
  \E c \in Callers : StartRefresh(c) \/ DiscardRefresh(c) \/ PublishRefresh(c) \/ RefreshFails(c)
AuthNext == SignInNext \/ StorageNext \/ SignOutNext \/ RefreshNext \/ Stop

-----------------------------------------------------------------------------
CallsToStorage ==
  [kind : {"access", "get", "remove", "signIn", "refresh"}, by : Logins \cup Callers \cup {Nobody},
   state : State \cup {Nobody}, late : BOOLEAN]
RefreshRecord ==
  [pc : {"new", "fetch", "store", "got", "thrown"}, login : Logins \cup {Nobody}, gen : Nat,
   token : Logins \cup {Nobody}, late : BOOLEAN]
AuthTypeOK ==
  /\ stored \in State \cup {Nobody} /\ current \in State \cup {Nobody}
  /\ writes \in Seq(CallsToStorage)
  /\ access \in {"pending", "ok", "failed"} /\ restored \in {"pending", "ok", "failed"}
  /\ authGeneration \in Nat
  /\ signIn \in [Logins -> {"new", "google", "exchange", "exchanged", "chained", "writing", "done",
                            "failed"}]
  /\ googleToken \in [Logins -> GoogleToken \cup {Nobody}] /\ googleCache \in GoogleToken \cup {Nobody}
  /\ preceding \in [Logins -> Logins \cup {Nobody}] /\ tail \in Logins \cup {Nobody}
  /\ signOut \in [pc : {"none", "wait", "lookup", "remove", "uncache", "revoke"},
                   token : GoogleToken \cup {Nobody}]
  /\ refresh \in [Callers -> RefreshRecord]
  /\ signOuts \in 0..MaxSignOuts /\ faults \in 0..MaxFaults /\ stops \in 0..MaxStops
  /\ revoked \subseteq GoogleToken /\ askedAfter \in [Logins -> Nat]
  /\ storedLate \in BOOLEAN /\ removed \subseteq Logins

\* Storage holds the account that is signed in, at every moment: a sign-in that cannot be stored
\* leaves both the old account, and a restart brings back no other account than the one that
\* was live (commitSignIn, performSignOut and getIdToken).
Durable == (stored = Nobody <=> current = Nobody) /\ (stored # Nobody => stored.login = current.login)
StoredIsLive == restored = "ok" => Durable
\* The same but for a refresh that was stored behind a newer sign-in.
StoredIsLiveUnlessLate == restored = "ok" /\ ~storedLate => Durable

\* A session never holds tokens that were issued to another sign-in, even one of the same
\* account that was signed in before (the ABA of getIdToken).
TokensAreOfTheSession ==
  \A s \in {stored, current} \ {Nobody} : s.token = s.login

\* Tokens a sign-out has removed are never live or stored again: no refresh begun before it, no
\* commit it has not waited for and no restart brings them back.
RemovedStaysRemoved == TokensHeld \cap removed = {}

\* What the next start of the worker restores is the account that was live, and nothing a
\* sign-out has removed: storage and memory change together for every other part of the worker.
StorageFollowsTheAccount == StoredIsLiveUnlessLate /\ RemovedStaysRemoved

\* A sign-in that asked Google for a token when no sign-out was pending, and none has begun
\* since, does not exchange a token a sign-out has sent to be revoked (signInWithGoogle waits
\* for the clean-up of performSignOut before it asks).
RevokedTokenIsNotExchanged ==
  \A l \in Logins : signIn[l] = "exchange" /\ askedAfter[l] = signOuts =>
    signOut.pc = "none" /\ googleToken[l] \notin revoked

\* A caller of getIdToken is answered with a token of the sign-in it asked for, unless its
\* refresh was published under the storage write of a newer sign-in.
CallerGetsItsToken ==
  \A c \in Callers : refresh[c].pc = "got" /\ ~refresh[c].late => refresh[c].token = refresh[c].login

\* Tokens are used for the sign-in they were issued to, wherever they are held, handed out or
\* exchanged: in memory, in storage, with a caller of getIdToken and with Google.
TokensFollowTheSession ==
  TokensAreOfTheSession /\ RevokedTokenIsNotExchanged /\ CallerGetsItsToken

\* What the other parts of the worker are told of the account: who is signed in changes with the
\* generation only, never once a sign-out sets about the removal, and no refresh or failure
\* changes it.
Session == INSTANCE AccountSession WITH
  live <- IF current = Nobody THEN Nobody ELSE current.login,
  epoch <- authGeneration,
  leaving <- CASE signOut.pc = "wait" -> "asked"
               [] signOut.pc \in {"lookup", "remove"} -> "removing"
               [] signOut.pc \in {"uncache", "revoke"} -> "gone"
               [] OTHER -> "no"
KeepsTheSession == Session!SessionSpec

\* Every sign-out comes to an end, so that the sign-ins that wait for it may go on.
SignOutSettles == signOut.pc # "none" ~> signOut.pc = "none"
\* A sign-in Firebase has answered is stored or fails: neither a sign-out nor the chain of
\* commits keeps it.
SignInSettles ==
  \A l \in Logins : signIn[l] = "exchanged" ~> signIn[l] \in {"done", "failed"}
\* Sign-ins, which wait for a sign-out, and sign-outs, which wait for the chain of commits, never
\* wait for each other for ever.
SessionSettles == SignOutSettles /\ SignInSettles

\* Storage answers; the silent token lookup, the cache and the bounded revocation do.
AuthFairness ==
  /\ WF_authVars(StorageNext)
  /\ WF_authVars(SignOutRefused \/ CommitsDrained \/ RemoveStored \/ Uncached \/ Revoked)
  /\ \A l \in Logins : WF_authVars(ChainCommit(l))
AuthSpec == AuthInit /\ [][AuthNext]_authVars
AuthFairSpec == AuthSpec /\ AuthFairness
=============================================================================
