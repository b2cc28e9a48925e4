----------------------------- MODULE WebSession -----------------------------
(***************************************************************************)
(* The admin's session in one tab of the dashboard                         *)
(* (admin/src/auth/AuthProvider.tsx): a stored token is validated when the *)
(* tab loads, the login form signs in by two requests, and signing out     *)
(* waits for the server before it clears anything.  Their answers arrive   *)
(* in any order.  The server's side is routes/auth.js.                     *)
(*                                                                         *)
(* A token stands for its session.  The page sends its token and the       *)
(* browser its cookie, and the server goes by the cookie when there is one *)
(* (middleware/auth.js).                                                   *)
(***************************************************************************)
EXTENDS Naturals, FiniteSets

CONSTANTS
  MaxTokens,   \* bound of the model: tokens the server issues
  MaxEnded,    \* bound of the model: tokens that end
  MaxLeaving   \* bound of the model: sign-outs under way that are told apart

VARIABLES
  issued,      \* the server: what has become of each token
  cookie,      \* the browser's cookie: the session of the last login
  stored,      \* sessionStorage
  token,       \* the provider's token
  status,      \* "checking", "authenticated" or "anonymous"
  admin,       \* whose profile is shown, as the session the server took it for
  validating,  \* the session GET /auth/me is sent with to validate the token
  timer,       \* the token whose expiry signs out
  signIn,      \* what the login form waits for
  leaving,     \* sign-outs that wait for POST /auth/logout
  strays       \* history: sessions whose sign-in ended without their profile

session == <<issued, cookie, stored, token, status, admin, validating, timer, signIn, leaving, strays>>

None == 0
Tokens == 1..MaxTokens
Waiting == [pc : {"idle", "login", "profile"}, token : Tokens \cup {None}]
FormIdle == [pc |-> "idle", token |-> None]

ASSUME SessionAssumption == {MaxTokens, MaxEnded} \subseteq Nat /\ MaxLeaving \in Nat \ {0}

Good(t) == t # None /\ issued[t] = "good"

\* The session of a request that is sent with token t.
Served(t) == IF cookie # None THEN cookie ELSE t

\* What a sign-in leaves that ends before its profile is there.
GivesUpSignIn ==
  /\ signIn' = FormIdle
  /\ strays' = strays \cup ({signIn.token} \ {None})

\* What a load of the tab starts from.
Loaded(kept) ==
  /\ stored' = kept /\ token' = kept
  /\ validating' = IF kept # None THEN Served(kept) ELSE None
  /\ status' = IF kept # None THEN "checking" ELSE "anonymous"
  /\ admin' = None /\ timer' = None
  /\ GivesUpSignIn
  /\ leaving' = 0

SessionInit ==
  /\ issued \in {[t \in Tokens |-> IF t = 1 THEN first ELSE "free"] : first \in {"good", "ended"}}
  /\ stored \in {None} \cup (Tokens \cap {1}) /\ cookie \in {None} \cup (Tokens \cap {1})
  /\ token = stored /\ validating = stored
  /\ status = IF stored # None THEN "checking" ELSE "anonymous"
  /\ admin = None /\ timer = None
  /\ signIn = FormIdle
  /\ leaving = 0 /\ strays = {}

----------------------------------------------------------------------------
(* Signing out *)

\* A sign-out begins: nothing is cleared before the server has answered.
LeavingMore == leaving' = IF leaving < MaxLeaving THEN leaving + 1 ELSE leaving

SignOutStarts ==
  LeavingMore /\ UNCHANGED <<issued, cookie, stored, token, status, admin, validating, timer, signIn, strays>>

\* The logout is answered, or fails: "best-effort".  An answer takes the cookie
\* away, whichever the browser has by then.
SignedOut ==
  /\ leaving > 0
  /\ leaving' = leaving - 1
  /\ cookie' \in {cookie, None}
  /\ stored' = None /\ token' = None
  /\ status' = "anonymous" /\ admin' = None
  /\ validating' = None /\ timer' = None
  /\ UNCHANGED <<issued, signIn, strays>>

\* The token's hour is over.
TimerFires ==
  /\ timer # None /\ issued[timer] = "ended"
  /\ timer' = None
  /\ LeavingMore
  /\ UNCHANGED <<issued, cookie, stored, token, status, admin, validating, signIn, strays>>

----------------------------------------------------------------------------
(* Validating a stored token *)

\* The effect's state is authenticated with the profile it was answered.
Validated ==
  /\ Good(validating)
  /\ status' = "authenticated" /\ admin' = validating
  /\ timer' = token
  /\ validating' = None
  /\ UNCHANGED <<issued, cookie, stored, token, signIn, leaving, strays>>

\* Variant: only a token the server refuses is given up.
RefusedOnly ==
  /\ validating # None
  /\ validating' = None
  /\ IF Good(validating) THEN UNCHANGED leaving ELSE LeavingMore
  /\ UNCHANGED <<issued, cookie, stored, token, status, admin, timer, signIn, strays>>

\* The token is refused, or the server is not reached.
NotValidated ==
  /\ validating # None
  /\ validating' = None
  /\ LeavingMore
  /\ UNCHANGED <<issued, cookie, stored, token, status, admin, timer, signIn, strays>>

\* Variant: the request for the earlier token goes on.
StillValidating == validating

\* The effect is cleaned up when the status or the token changes: its request
\* is aborted.
ValidationAborted == None

----------------------------------------------------------------------------
(* Signing in *)

\* /login shows its form unless the admin is authenticated.  In the model it is
\* submitted while there is a token left.
Submit ==
  /\ status # "authenticated"
  /\ signIn.pc = "idle" /\ \E t \in Tokens : issued[t] = "free"
  /\ signIn' = [pc |-> "login", token |-> None]
  /\ UNCHANGED <<issued, cookie, stored, token, status, admin, validating, timer, leaving, strays>>

\* The login or GET /auth/me fails: what the browser has as its cookie stays.
SignInFails ==
  /\ signIn.pc # "idle"
  /\ GivesUpSignIn
  /\ UNCHANGED <<issued, cookie, stored, token, status, admin, validating, timer, leaving>>

\* POST /auth/login issues a token and sets it as the cookie.
LoggedIn ==
  /\ signIn.pc = "login"
  /\ \E t \in Tokens :
       /\ issued[t] = "free"
       /\ issued' = [issued EXCEPT ![t] = "good"]
       /\ signIn' = [pc |-> "profile", token |-> t]
       /\ cookie' = t
  /\ UNCHANGED <<stored, token, status, admin, validating, timer, leaving, strays>>

\* GET /auth/me with it, sent as soon as the cookie was set.
SignedIn ==
  /\ signIn.pc = "profile" /\ Good(signIn.token)
  /\ stored' = signIn.token /\ token' = signIn.token
  /\ status' = "authenticated" /\ admin' = signIn.token
  /\ validating' = ValidationAborted /\ timer' = signIn.token
  /\ signIn' = FormIdle
  /\ UNCHANGED <<issued, cookie, leaving, strays>>

----------------------------------------------------------------------------
(* The tab is loaded again; tokens end *)

\* A stored token that has expired is cleared; one the server refuses for
\* another reason is found out by validating it.
LoadTab ==
  /\ \/ Loaded(stored)
     \/ stored # None /\ ~Good(stored) /\ Loaded(None)
  /\ UNCHANGED <<issued, cookie>>

\* Its hour is over, or the admin was deactivated.
TokenEnds ==
  /\ Cardinality({t \in Tokens : issued[t] = "ended"}) < MaxEnded
  /\ \E t \in {token, signIn.token, cookie} : Good(t) /\ issued' = [issued EXCEPT ![t] = "ended"]
  /\ UNCHANGED <<cookie, stored, token, status, admin, validating, timer, signIn, leaving, strays>>

----------------------------------------------------------------------------
(* Properties *)

SessionTypeOK ==
  /\ issued \in [Tokens -> {"free", "good", "ended"}]
  /\ cookie \in Tokens \cup {None} /\ stored \in Tokens \cup {None} /\ token \in Tokens \cup {None}
  /\ status \in {"checking", "authenticated", "anonymous"}
  /\ admin \in Tokens \cup {None} /\ validating \in Tokens \cup {None} /\ timer \in Tokens \cup {None}
  /\ signIn \in Waiting
  /\ leaving \in 0..MaxLeaving
  /\ strays \subseteq Tokens

\* "Never leave the app half-authenticated": whatever order a validation, a
\* sign-in and sign-outs end in, the stored token and the one requests are sent
\* with are the same, and there is a profile on screen exactly while the admin
\* is signed in.  The profile, and the session the server takes the page's
\* requests for, are the token's own - but for the cookie of a sign-in that is
\* under way, or that got no profile.
OneSession ==
  /\ stored = token
  /\ status = "anonymous" <=> token = None
  /\ status = "authenticated" <=> admin # None
  /\ admin \in {None, token} \cup strays
  /\ token # None => cookie \in {None, token, signIn.token} \cup strays
=============================================================================
