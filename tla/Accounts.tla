------------------------------ MODULE Accounts ------------------------------
(***************************************************************************)
(* Accounts and sessions: register, login, logout and requireAuth in       *)
(* http/server.go over CreateUser, Authenticate, CreateSession,            *)
(* UserBySession and DeleteSession in store/store.go, and the session      *)
(* cookie of auth/auth.go.                                                 *)
(*                                                                         *)
(* Every store call is one autocommitted statement, so one action each;    *)
(* what a browser has of an answer changes when the answer arrives.  A     *)
(* browser may have several requests under way.  A session id is 256       *)
(* random bits, here the next number; the signature of a cookie lets only  *)
(* ids through that the server has issued.  An email stands for the        *)
(* account's key.                                                          *)
(***************************************************************************)
EXTENDS Integers

CONSTANTS
  Browsers, Requests, Emails,
  Names,       \* usernames that match usernamePattern
  SlugOf,      \* username -> auth.Slug of it
  NoSlug,      \* the empty slug
  NoUser, NoBrowser, NoName,
  Lifetime,    \* how long a session is good for (30 days)
  MaxSession,  \* bound: sessions ever created
  MaxTime      \* bound: the clock stops here

ASSUME NamesAssumption == /\ DOMAIN SlugOf = Names
                          /\ NoUser \notin Emails
ASSUME NumbersAssumption == /\ Lifetime \in Nat
                            /\ MaxSession \in Nat
                            /\ MaxTime \in Nat

VARIABLES
  clock,
  users,      \* the rows of users
  sessions,   \* session id -> its row
  issued,     \* how many session ids have been issued
  jar,        \* browser -> the session its cookie names, 0 for none
  req,        \* request -> where its handler is and what it holds
  proven,     \* history: which browser has shown the password of which account
  ended       \* history: the sessions a logout has deleted

vars == <<clock, users, sessions, issued, jar, req, proven, ended>>

-----------------------------------------------------------------------------
Idle == [pc |-> "idle", browser |-> NoBrowser, email |-> NoUser, name |-> NoName,
         user |-> NoUser, session |-> 0]

Init ==
  /\ clock = 0
  /\ users = {}
  /\ sessions = << >>
  /\ issued = 0
  /\ jar = [b \in Browsers |-> 0]
  /\ req = [t \in Requests |-> Idle]
  /\ proven = {}
  /\ ended = {}

Go(t, next) == req' = [req EXCEPT ![t] = next]

End(t) == Go(t, Idle)

dataVars == <<clock, users, sessions, issued, jar, proven, ended>>

(* A form is posted or a page asked for, with the cookie the browser has.  *)
Register(t, b, e, n) ==
  /\ req[t].pc = "idle"
  /\ Go(t, [Idle EXCEPT !.pc = "create", !.browser = b, !.email = e, !.name = n])
  /\ UNCHANGED dataVars

Login(t, b, e) ==
  /\ req[t].pc = "idle"
  /\ Go(t, [Idle EXCEPT !.pc = "authenticate", !.browser = b, !.email = e])
  /\ UNCHANGED dataVars

Logout(t, b) ==
  /\ req[t].pc = "idle"
  /\ Go(t, [Idle EXCEPT !.pc = IF jar[b] = 0 THEN "clear" ELSE "delete",
                        !.browser = b, !.session = jar[b]])
  /\ UNCHANGED dataVars

Visit(t, b) ==
  /\ req[t].pc = "idle"
  /\ jar[b] # 0
  /\ Go(t, [Idle EXCEPT !.pc = "check", !.browser = b, !.session = jar[b]])
  /\ UNCHANGED dataVars

-----------------------------------------------------------------------------
(* Mutant: the schema makes usernames unique, not slugs.                   *)
TakenByName(e, n) == \E u \in users : u.email = e \/ u.name = n

(* idx_users_email, idx_users_username, idx_users_slug                     *)
Taken(e, n) == \E u \in users : u.email = e \/ u.name = n \/ SlugOf[u.name] = SlugOf[n]

(* validateSignup lets the name through and no unique key is in the way.   *)
CreateUser(t) ==
  /\ req[t].pc = "create"
  /\ SlugOf[req[t].name] # NoSlug
  /\ ~ Taken(req[t].email, req[t].name)
  /\ users' = users \cup {[email |-> req[t].email, name |-> req[t].name]}
  /\ proven' = proven \cup {<<req[t].browser, req[t].email>>}
  /\ Go(t, [req[t] EXCEPT !.pc = "session", !.user = req[t].email])
  /\ UNCHANGED <<clock, sessions, issued, jar, ended>>

(* Mutant: register goes on after CreateUser's error.                      *)
SignupRefusedGoesOn(t) ==
  /\ req[t].pc = "create"
  /\ \/ SlugOf[req[t].name] = NoSlug
     \/ Taken(req[t].email, req[t].name)
  /\ Go(t, [req[t] EXCEPT !.pc = "session"])
  /\ UNCHANGED dataVars

SignupRefused(t) ==
  /\ req[t].pc = "create"
  /\ \/ SlugOf[req[t].name] = NoSlug
     \/ Taken(req[t].email, req[t].name)
  /\ End(t)
  /\ UNCHANGED dataVars

HasAccount(e) == \E u \in users : u.email = e

(* The password matches the account's hash.                                *)
Authenticate(t) ==
  /\ req[t].pc = "authenticate"
  /\ HasAccount(req[t].email)
  /\ proven' = proven \cup {<<req[t].browser, req[t].email>>}
  /\ Go(t, [req[t] EXCEPT !.pc = "session", !.user = req[t].email])
  /\ UNCHANGED <<clock, users, sessions, issued, jar, ended>>

(* Mutant: the result of CheckPassword is not looked at.                   *)
LoginRefusedUnlessUnknown(t) ==
  /\ req[t].pc = "authenticate"
  /\ IF HasAccount(req[t].email)
     THEN Go(t, [req[t] EXCEPT !.pc = "session", !.user = req[t].email])
     ELSE End(t)
  /\ UNCHANGED dataVars

(* No such account, or the password does not match.                        *)
LoginRefused(t) ==
  /\ req[t].pc = "authenticate"
  /\ End(t)
  /\ UNCHANGED dataVars

CreateSession(t) ==
  /\ req[t].pc = "session"
  /\ issued < MaxSession
  /\ issued' = issued + 1
  /\ sessions' = [id \in DOMAIN sessions \cup {issued'} |->
                    IF id = issued'
                    THEN [user |-> req[t].user, browser |-> req[t].browser,
                          expires |-> clock + Lifetime]
                    ELSE sessions[id]]
  /\ Go(t, [req[t] EXCEPT !.pc = "reply", !.session = issued'])
  /\ UNCHANGED <<clock, users, jar, proven, ended>>

(* The answer arrives, and with it the cookie.                             *)
SetSessionCookie(t) ==
  /\ req[t].pc = "reply"
  /\ jar' = [jar EXCEPT ![req[t].browser] = req[t].session]
  /\ End(t)
  /\ UNCHANGED <<clock, users, sessions, issued, proven, ended>>

-----------------------------------------------------------------------------
(* Mutant: the row is looked for under the signed value of the cookie.     *)
DeleteSessionMisses(t) ==
  /\ req[t].pc = "delete"
  /\ ended' = ended \cup {req[t].session}
  /\ Go(t, [req[t] EXCEPT !.pc = "clear"])
  /\ UNCHANGED <<clock, users, sessions, issued, jar, proven>>

DeleteSession(t) ==
  /\ req[t].pc = "delete"
  /\ sessions' = [id \in DOMAIN sessions \ {req[t].session} |-> sessions[id]]
  /\ ended' = ended \cup {req[t].session}
  /\ Go(t, [req[t] EXCEPT !.pc = "clear"])
  /\ UNCHANGED <<clock, users, issued, jar, proven>>

(* logout ignores the error: the cookie goes, the session stays.           *)
DeleteSessionFails(t) ==
  /\ req[t].pc = "delete"
  /\ Go(t, [req[t] EXCEPT !.pc = "clear"])
  /\ UNCHANGED dataVars

ClearSessionCookie(t) ==
  /\ req[t].pc = "clear"
  /\ jar' = [jar EXCEPT ![req[t].browser] = 0]
  /\ End(t)
  /\ UNCHANGED <<clock, users, sessions, issued, proven, ended>>

-----------------------------------------------------------------------------
(* sessions JOIN users WHERE sessions.id = ? AND expires_at > now()        *)
Accepted(id) == /\ id \in DOMAIN sessions
                /\ sessions[id].expires > clock
                /\ HasAccount(sessions[id].user)

(* requireAuth finds the user and calls the handler.                       *)
Admit(t) ==
  /\ req[t].pc = "check"
  /\ Accepted(req[t].session)
  /\ Go(t, [req[t] EXCEPT !.pc = "serve", !.user = sessions[req[t].session].user])
  /\ UNCHANGED dataVars

Refuse(t) ==
  /\ req[t].pc = "check"
  /\ ~ Accepted(req[t].session)
  /\ End(t)
  /\ UNCHANGED dataVars

(* A handler returns; or an error ends a request at any point, a form is   *)
(* refused for what it says, an answer is lost on the way.                 *)
EndRequest(t) ==
  /\ req[t].pc # "idle"
  /\ End(t)
  /\ UNCHANGED dataVars

Crash ==
  /\ req' = [t \in Requests |-> Idle]
  /\ UNCHANGED dataVars

Tick ==
  /\ clock < MaxTime
  /\ clock' = clock + 1
  /\ UNCHANGED <<users, sessions, issued, jar, req, proven, ended>>

-----------------------------------------------------------------------------
SignUp(t) == CreateUser(t) \/ SignupRefused(t)

LogIn(t) == Authenticate(t) \/ LoginRefused(t)

LogOut(t) == DeleteSession(t) \/ DeleteSessionFails(t) \/ ClearSessionCookie(t)

Begin(t, b) ==
  \/ \E e \in Emails : Login(t, b, e) \/ \E n \in Names : Register(t, b, e, n)
  \/ Logout(t, b) \/ Visit(t, b)

Next == \/ \E t \in Requests :
             \/ \E b \in Browsers : Begin(t, b)
             \/ SignUp(t) \/ LogIn(t) \/ CreateSession(t) \/ SetSessionCookie(t)
             \/ LogOut(t) \/ Admit(t) \/ Refuse(t) \/ EndRequest(t)
        \/ Crash \/ Tick

Spec == Init /\ [][Next]_vars

-----------------------------------------------------------------------------
SessionRow == [user : Emails, browser : Browsers, expires : Nat]

Request == [pc : {"idle", "create", "authenticate", "session", "reply", "delete", "clear",
                  "check", "serve"},
            browser : Browsers \cup {NoBrowser}, email : Emails \cup {NoUser},
            name : Names \cup {NoName}, user : Emails \cup {NoUser},
            session : 0..issued]

(* Every variable has its type.  A session belongs to some account: no     *)
(* path through register or login creates one for nobody.                  *)
TypeOK ==
  /\ clock \in 0..MaxTime
  /\ users \subseteq [email : Emails, name : Names]
  /\ issued \in 0..MaxSession
  /\ DOMAIN sessions \subseteq 1..issued
  /\ \A id \in DOMAIN sessions : sessions[id] \in SessionRow /\ HasAccount(sessions[id].user)
  /\ jar \in [Browsers -> 0..issued]
  /\ proven \subseteq Browsers \X Emails
  /\ ended \subseteq 1..issued
  /\ req \in [Requests -> Request]

(* Whatever order sign-ups, logins and answers come in, an email, and the  *)
(* address a name turns into, belong to one account, and every account has *)
(* an address: sign-ups whose names differ only in what Slug drops do not  *)
(* share a page, and a name it drops wholly gets no account.               *)
OneAccountPerPage ==
  /\ \A u, v \in users : u.email = v.email \/ SlugOf[u.name] = SlugOf[v.name] => u = v
  /\ \A u \in users : SlugOf[u.name] # NoSlug

(* A protected handler runs for an account only in a browser that has      *)
(* shown that account's password, or created it: through registration,     *)
(* conflicts, overlapping logins and late answers.                         *)
ServedAsProven ==
  \A t \in Requests : req[t].pc = "serve" => <<req[t].browser, req[t].user>> \in proven

(* Once logout has deleted a session, no request is admitted under it,     *)
(* though the browser may still hold the cookie, or get it again from an   *)
(* answer that was under way.                                              *)
LogoutHolds == [][\A t \in Requests : Admit(t) => req[t].session \notin ended]_vars

-----------------------------------------------------------------------------
(* What makes these inductive: whose a session is, for everything that     *)
(* still names one.                                                        *)
Own(b, id) == id \in DOMAIN sessions => sessions[id].browser = b

JarsOwned == \A b \in Browsers : Own(b, jar[b])

SessionsProven ==
  \A id \in DOMAIN sessions : <<sessions[id].browser, sessions[id].user>> \in proven

EndedGone == ended \cap DOMAIN sessions = {}

WellFormed(r) ==
  /\ r.pc # "idle" => r.browser \in Browsers
  /\ r.pc = "create" => r.email \in Emails /\ r.name \in Names
  /\ r.pc = "authenticate" => r.email \in Emails
  /\ r.pc = "session" => HasAccount(r.user) /\ <<r.browser, r.user>> \in proven
  /\ r.pc \in {"reply", "check", "delete"} => r.session # 0 /\ Own(r.browser, r.session)
  /\ r.pc = "serve" => <<r.browser, r.user>> \in proven

HandlerShape == \A t \in Requests : WellFormed(req[t])

(* The inductive invariant: a session, a cookie and a request that names   *)
(* one belong to a browser that has proven the account, and what a logout  *)
(* has deleted stays deleted.                                              *)
IndInv == /\ TypeOK /\ OneAccountPerPage
          /\ JarsOwned /\ SessionsProven /\ EndedGone /\ HandlerShape
=============================================================================
