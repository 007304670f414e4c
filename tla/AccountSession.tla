-------------------------- MODULE AccountSession ---------------------------
(***************************************************************************)
(* Who is signed in, as every other part of the worker is told: the login     *)
(* that is live and the generation they compare before they commit anything.  *)
(* AuthService shows that the account service keeps this, whatever its        *)
(* storage, the Google sign-in and the token endpoint do in between.          *)
(***************************************************************************)
EXTENDS Naturals

CONSTANTS
  Logins,  \* sign-ins; two of one account are two logins
  Nobody   \* nobody signed in

VARIABLES
  live,     \* the login of currentState
  epoch,    \* getAuthGeneration()
  leaving   \* the sign-out that is pending: "no", "asked", "removing", "gone"

sessionVars == <<live, epoch, leaving>>

NewWorker == live' = Nobody /\ epoch' = 0 /\ leaving' = "no"
Restored(who) == live = Nobody /\ live' = who /\ epoch' = epoch + 1 /\ UNCHANGED leaving
\* Nobody signs in from the moment a sign-out sets about the removal.
SignedIn(l) == leaving \in {"no", "asked"} /\ live' = l /\ epoch' = epoch + 1 /\ UNCHANGED leaving
SignOutAsked == leaving = "no" /\ leaving' = "asked" /\ epoch' = epoch + 1 /\ UNCHANGED live
SignOutRemoves == leaving = "asked" /\ leaving' = "removing" /\ UNCHANGED <<live, epoch>>
SignedOut ==
  /\ leaving = "removing" /\ leaving' \in {"gone", "no"}
  /\ live' = Nobody /\ epoch' = epoch + 1
SignOutFails == leaving \in {"asked", "removing"} /\ leaving' = "no" /\ UNCHANGED <<live, epoch>>
SignOutSettled == leaving = "gone" /\ leaving' = "no" /\ UNCHANGED <<live, epoch>>

SessionInit == live = Nobody /\ epoch = 0 /\ leaving = "no"
SessionNext ==
  \/ NewWorker
  \/ \E who \in Logins \cup {Nobody} : Restored(who)
  \/ \E l \in Logins : SignedIn(l)
  \/ SignOutAsked \/ SignOutRemoves \/ SignedOut \/ SignOutFails \/ SignOutSettled
SessionSpec == SessionInit /\ [][SessionNext]_sessionVars
=============================================================================
