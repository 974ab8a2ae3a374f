-------------------------- MODULE Accounts_proof --------------------------
(***************************************************************************)
(* IndInv is an inductive invariant of Accounts for every value of its     *)
(* constants; with it, one account has one address, nobody is served       *)
(* unproven, and a logout holds.                                           *)
(***************************************************************************)
EXTENDS Accounts, TLAPS

USE NamesAssumption, NumbersAssumption

-----------------------------------------------------------------------------
(* The idle handler is a handler, and nothing is asked of it.              *)
LEMMA IdleType ==
  ASSUME issued \in Nat
  PROVE  Idle \in Request /\ Idle.pc = "idle" /\ WellFormed(Idle)
BY DEF Idle, Request, WellFormed

(* The tables are empty at first, so nothing belongs to anybody.           *)
LEMMA InitInv == Init => IndInv
<1> SUFFICES ASSUME Init PROVE IndInv
  OBVIOUS
<1>1. DOMAIN sessions = {} /\ issued = 0
  BY DEF Init
<1>2. \A t \in Requests : req[t] = Idle
  BY DEF Init
<1>3. TypeOK
  BY <1>1, IdleType DEF Init, TypeOK
<1>4. OneAccountPerPage /\ JarsOwned /\ SessionsProven /\ EndedGone
  BY <1>1 DEF Init, OneAccountPerPage, JarsOwned, Own, SessionsProven, EndedGone
<1>5. HandlerShape
  BY <1>1, <1>2, IdleType DEF HandlerShape
<1> QED BY <1>3, <1>4, <1>5 DEF IndInv

-----------------------------------------------------------------------------
(* A step that changes requests alone, to what they may be.                *)
LEMMA RequestsOnly ==
  ASSUME IndInv, UNCHANGED dataVars, req' \in [Requests -> Request],
         \A t \in Requests : WellFormed(req'[t])
  PROVE  IndInv'
<1>1. TypeOK' /\ OneAccountPerPage' /\ JarsOwned' /\ SessionsProven' /\ EndedGone'
  BY DEF IndInv, TypeOK, Request, OneAccountPerPage, JarsOwned, Own, SessionsProven,
     EndedGone, HasAccount, dataVars
<1>2. HandlerShape'
  BY DEF HandlerShape, WellFormed, Own, HasAccount, dataVars
<1> QED BY <1>1, <1>2 DEF IndInv

(* The same of one request.                                                *)
LEMMA OnlyRequest ==
  ASSUME IndInv, UNCHANGED dataVars, NEW t \in Requests, NEW next \in Request,
         Go(t, next), WellFormed(next)
  PROVE  IndInv'
<1>1. req' \in [Requests -> Request]
  BY DEF Go, IndInv, TypeOK
<1>2. \A q \in Requests : WellFormed(req'[q])
  BY DEF Go, IndInv, TypeOK, HandlerShape
<1> QED BY <1>1, <1>2, RequestsOnly

(* What a form or a visit begins with.                                     *)
LEMMA BeginStep ==
  ASSUME IndInv, NEW t \in Requests, NEW b \in Browsers, Begin(t, b)
  PROVE  IndInv'
<1> USE DEF IndInv, TypeOK
<1>1. jar[b] \in 0..issued /\ Own(b, jar[b]) /\ 0 \in 0..issued
  BY DEF JarsOwned
<1>2. CASE \E e \in Emails : Login(t, b, e)
  <2> PICK e \in Emails : Login(t, b, e)
    BY <1>2
  <2> DEFINE next == [Idle EXCEPT !.pc = "authenticate", !.browser = b, !.email = e]
  <2>1. next \in Request /\ WellFormed(next)
    BY <1>1 DEF Idle, Request, WellFormed
  <2> QED BY <2>1, OnlyRequest DEF Login
<1>3. CASE \E e \in Emails, n \in Names : Register(t, b, e, n)
  <2> PICK e \in Emails, n \in Names : Register(t, b, e, n)
    BY <1>3
  <2> DEFINE next == [Idle EXCEPT !.pc = "create", !.browser = b, !.email = e, !.name = n]
  <2>1. next \in Request /\ WellFormed(next)
    BY <1>1 DEF Idle, Request, WellFormed
  <2> QED BY <2>1, OnlyRequest DEF Register
<1>4. CASE Logout(t, b)
  <2> DEFINE next == [Idle EXCEPT !.pc = IF jar[b] = 0 THEN "clear" ELSE "delete",
                                  !.browser = b, !.session = jar[b]]
  <2>1. next \in Request /\ WellFormed(next)
    BY <1>1 DEF Idle, Request, WellFormed
  <2> QED BY <1>4, <2>1, OnlyRequest DEF Logout
<1>5. CASE Visit(t, b)
  <2> DEFINE next == [Idle EXCEPT !.pc = "check", !.browser = b, !.session = jar[b]]
  <2>1. next \in Request /\ WellFormed(next)
    BY <1>1, <1>5 DEF Idle, Request, WellFormed, Visit
  <2> QED BY <1>5, <2>1, OnlyRequest DEF Visit
<1> QED BY <1>2, <1>3, <1>4, <1>5 DEF Begin

(* A request ends, in whatever way.                                        *)
LEMMA EndStep ==
  ASSUME IndInv, NEW t \in Requests, End(t), UNCHANGED dataVars
  PROVE  IndInv'
<1>1. Idle \in Request /\ WellFormed(Idle)
  BY IdleType DEF IndInv, TypeOK
<1> QED BY <1>1, OnlyRequest DEF End

(* The session passes requireAuth: its owner is proven.                    *)
LEMMA AdmitStep ==
  ASSUME IndInv, NEW t \in Requests, Admit(t)
  PROVE  IndInv'
<1> DEFINE id == req[t].session
           next == [req[t] EXCEPT !.pc = "serve", !.user = sessions[id].user]
<1>1. req[t] \in Request /\ WellFormed(req[t])
  BY DEF IndInv, TypeOK, HandlerShape
<1>2. id \in DOMAIN sessions /\ sessions[id] \in SessionRow
  BY DEF Admit, Accepted, IndInv, TypeOK
<1>3. sessions[id].browser = req[t].browser
  BY <1>1, <1>2 DEF Admit, WellFormed, Own
<1>4. <<sessions[id].browser, sessions[id].user>> \in proven
  BY <1>2 DEF IndInv, SessionsProven
<1>5. next \in Request
  BY <1>1, <1>2 DEF Request, SessionRow
<1>6. WellFormed(next)
  BY <1>1, <1>3, <1>4 DEF WellFormed, Request, Admit
<1> QED BY <1>5, <1>6, OnlyRequest DEF Admit

(* logout goes on to clear the cookie after an error.                      *)
LEMMA DeleteFailsStep ==
  ASSUME IndInv, NEW t \in Requests, DeleteSessionFails(t)
  PROVE  IndInv'
<1> DEFINE next == [req[t] EXCEPT !.pc = "clear"]
<1>1. req[t] \in Request /\ WellFormed(req[t])
  BY DEF IndInv, TypeOK, HandlerShape
<1>2. next \in Request /\ WellFormed(next)
  BY <1>1 DEF WellFormed, Request, DeleteSessionFails
<1> QED BY <1>2, OnlyRequest DEF DeleteSessionFails

-----------------------------------------------------------------------------
(* What holds of a request goes on to hold while accounts and proofs are   *)
(* only added and no session changes hands.                                *)
LEMMA StillWellFormed ==
  ASSUME users \subseteq users', proven \subseteq proven',
         NEW r \in Request, WellFormed(r),
         Own(r.browser, r.session) => Own(r.browser, r.session)'
  PROVE  WellFormed(r)'
BY DEF WellFormed, HasAccount, Own

(* register and login: a browser shows, or makes, the password of an       *)
(* account that now exists, and goes on to a session.                      *)
LEMMA ProvenStep ==
  ASSUME IndInv, NEW t \in Requests, NEW next \in Request,
         req[t].browser \in Browsers, req[t].email \in Emails,
         next = [req[t] EXCEPT !.pc = "session", !.user = req[t].email],
         Go(t, next), UNCHANGED <<clock, sessions, issued, jar, ended>>,
         proven' = proven \cup {<<req[t].browser, req[t].email>>},
         users \subseteq users', users' \subseteq [email : Emails, name : Names],
         \E u \in users' : u.email = req[t].email, OneAccountPerPage'
  PROVE  IndInv'
<1> USE DEF IndInv
<1>1. WellFormed(next)'
  <2>1. next.pc = "session" /\ next.browser = req[t].browser /\ next.user = req[t].email
    BY DEF TypeOK, Request
  <2> QED BY <2>1 DEF WellFormed, HasAccount
<1>2. \A r \in Request : WellFormed(r) => WellFormed(r)'
  BY StillWellFormed DEF Own, WellFormed
<1>3. \A q \in Requests : req'[q] = next \/ (req'[q] = req[q] /\ req[q] \in Request)
  BY DEF Go, TypeOK
<1>4. HandlerShape'
  BY <1>1, <1>2, <1>3 DEF HandlerShape, WellFormed
<1>5. TypeOK'
  BY DEF TypeOK, HasAccount, Request, Go
<1>6. JarsOwned' /\ SessionsProven' /\ EndedGone'
  BY DEF JarsOwned, SessionsProven, EndedGone, Own
<1> QED BY <1>4, <1>5, <1>6

(* register: the INSERT finds the email, the name and the slug free.       *)
LEMMA CreateUserStep ==
  ASSUME IndInv, NEW t \in Requests, CreateUser(t)
  PROVE  IndInv'
<1> DEFINE row == [email |-> req[t].email, name |-> req[t].name]
<1>1. req[t] \in Request /\ WellFormed(req[t])
  BY DEF IndInv, TypeOK, HandlerShape
<1>2. /\ req[t].browser \in Browsers
      /\ row \in [email : Emails, name : Names]
      /\ [req[t] EXCEPT !.pc = "session", !.user = req[t].email] \in Request
  BY <1>1 DEF CreateUser, WellFormed, Request
<1>3. users' = users \cup {row}
  BY DEF CreateUser
<1>4. OneAccountPerPage'
  BY <1>3 DEF IndInv, OneAccountPerPage, CreateUser, Taken
<1>5. \E u \in users' : u.email = req[t].email
  <2>1. row \in users' /\ row.email = req[t].email
    BY <1>3
  <2> QED BY <2>1
<1>6. PICK next \in Request : next = [req[t] EXCEPT !.pc = "session", !.user = req[t].email]
  BY <1>2
<1>7. /\ Go(t, next)
      /\ proven' = proven \cup {<<req[t].browser, req[t].email>>}
      /\ UNCHANGED <<clock, sessions, issued, jar, ended>>
  BY <1>6 DEF CreateUser
<1>8. users \subseteq users' /\ users' \subseteq [email : Emails, name : Names]
  BY <1>2, <1>3 DEF IndInv, TypeOK
<1> QED BY <1>2, <1>4, <1>5, <1>6, <1>7, <1>8, ProvenStep

(* login: the password is the account's.                                   *)
LEMMA AuthenticateStep ==
  ASSUME IndInv, NEW t \in Requests, Authenticate(t)
  PROVE  IndInv'
<1>1. req[t] \in Request /\ WellFormed(req[t])
  BY DEF IndInv, TypeOK, HandlerShape
<1>2. /\ req[t].browser \in Browsers /\ req[t].email \in Emails
      /\ [req[t] EXCEPT !.pc = "session", !.user = req[t].email] \in Request
  BY <1>1 DEF Authenticate, WellFormed, Request
<1>3. (\E u \in users' : u.email = req[t].email) /\ OneAccountPerPage'
  BY DEF Authenticate, HasAccount, IndInv, OneAccountPerPage
<1> QED BY <1>2, <1>3, ProvenStep DEF Authenticate, IndInv, TypeOK

-----------------------------------------------------------------------------
(* A session is made for an account that was proven, in the browser that   *)
(* proved it.                                                              *)
LEMMA CreateSessionStep ==
  ASSUME IndInv, NEW t \in Requests, CreateSession(t)
  PROVE  IndInv'
<1> USE DEF IndInv
<1> DEFINE row == [user |-> req[t].user, browser |-> req[t].browser,
                   expires |-> clock + Lifetime]
<1>1. /\ issued \in Nat /\ issued' = issued + 1 /\ issued' \in 0..MaxSession
      /\ DOMAIN sessions \subseteq 1..issued
  BY DEF CreateSession, TypeOK
<1>2. req[t] \in Request /\ req[t].browser \in Browsers /\ HasAccount(req[t].user)
      /\ <<req[t].browser, req[t].user>> \in proven
  BY DEF TypeOK, HandlerShape, WellFormed, CreateSession
<1>3. row \in SessionRow
  BY <1>2 DEF TypeOK, HasAccount, SessionRow
<1>4. /\ DOMAIN sessions' = DOMAIN sessions \cup {issued + 1}
      /\ sessions'[issued + 1] = row
      /\ \A id \in DOMAIN sessions : sessions'[id] = sessions[id]
  BY <1>1 DEF CreateSession
<1>5. PICK next : next = [req[t] EXCEPT !.pc = "reply", !.session = issued + 1]
  OBVIOUS
<1>6. /\ req' = [req EXCEPT ![t] = next]
      /\ UNCHANGED <<clock, users, jar, proven, ended>>
  BY <1>1, <1>5 DEF CreateSession, Go
<1>7. \A r \in Request : r \in Request'
  BY <1>1 DEF Request
<1>8. next \in Request' /\ next.pc = "reply" /\ next.session = issued + 1
      /\ next.browser = req[t].browser
  <2>1. next = [pc |-> "reply", browser |-> req[t].browser, email |-> req[t].email,
                name |-> req[t].name, user |-> req[t].user, session |-> issued + 1]
    BY <1>2, <1>5 DEF Request
  <2>2. issued + 1 \in 0..issued'
    BY <1>1
  <2> QED BY <1>2, <2>1, <2>2 DEF Request
<1>9. TypeOK'
  <2>1. (\A id \in DOMAIN sessions : sessions[id] \in SessionRow /\ HasAccount(sessions[id].user))'
    BY <1>2, <1>3, <1>4, <1>6 DEF TypeOK, HasAccount
  <2>2. req' \in [Requests -> Request']
    BY <1>6, <1>7, <1>8 DEF TypeOK
  <2>3. DOMAIN sessions' \subseteq 1..issued' /\ jar' \in [Browsers -> 0..issued']
        /\ ended' \subseteq 1..issued'
    BY <1>1, <1>4, <1>6 DEF TypeOK
  <2> QED BY <1>1, <1>6, <2>1, <2>2, <2>3 DEF TypeOK, SessionRow
<1>10. \A b \in Browsers, id \in 0..issued : Own(b, id) => Own(b, id)'
  BY <1>1, <1>4 DEF Own
<1>11. HandlerShape'
  <2>1. WellFormed(next)'
    BY <1>1, <1>2, <1>4, <1>8 DEF WellFormed, Own
  <2>2. \A r \in Request : WellFormed(r) => WellFormed(r)'
    BY <1>6, <1>10 DEF WellFormed, HasAccount, Request
  <2>3. \A q \in Requests : req'[q] = next \/ (req'[q] = req[q] /\ req[q] \in Request)
    BY <1>6 DEF TypeOK
  <2> QED BY <2>1, <2>2, <2>3 DEF HandlerShape, WellFormed
<1>12. JarsOwned'
  BY <1>6, <1>10 DEF JarsOwned, TypeOK
<1>13. SessionsProven'
  BY <1>2, <1>4, <1>6 DEF SessionsProven
<1>14. EndedGone' /\ OneAccountPerPage'
  BY <1>1, <1>4, <1>6 DEF EndedGone, OneAccountPerPage, TypeOK
<1> QED BY <1>9, <1>11, <1>12, <1>13, <1>14

(* logout takes a row away: no session changes hands.                      *)
LEMMA DeleteSessionStep ==
  ASSUME IndInv, NEW t \in Requests, DeleteSession(t)
  PROVE  IndInv'
<1> USE DEF IndInv
<1>1. PICK next : next = [req[t] EXCEPT !.pc = "clear"]
  OBVIOUS
<1>2. /\ req' = [req EXCEPT ![t] = next]
      /\ ended' = ended \cup {req[t].session}
      /\ UNCHANGED <<clock, users, issued, jar, proven>>
  BY <1>1 DEF DeleteSession, Go
<1>3. /\ DOMAIN sessions' = DOMAIN sessions \ {req[t].session}
      /\ \A id \in DOMAIN sessions' : sessions'[id] = sessions[id]
  BY DEF DeleteSession
<1>4. req[t] \in Request /\ req[t].session # 0 /\ req[t].browser \in Browsers
  BY DEF TypeOK, HandlerShape, WellFormed, DeleteSession
<1>5. next \in Request /\ next.pc = "clear" /\ next.browser = req[t].browser
  BY <1>1, <1>4 DEF Request
<1>6. TypeOK'
  <2>1. (\A id \in DOMAIN sessions : sessions[id] \in SessionRow /\ HasAccount(sessions[id].user))'
    BY <1>2, <1>3 DEF TypeOK, HasAccount
  <2>2. req' \in [Requests -> Request] /\ Request' = Request
    BY <1>2, <1>5 DEF TypeOK, Request
  <2>3. req[t].session \in 1..issued
    BY <1>4 DEF Request, TypeOK
  <2>4. ended' \subseteq 1..issued'
    BY <1>2, <2>3 DEF TypeOK
  <2> QED BY <1>2, <1>3, <2>1, <2>2, <2>4 DEF TypeOK, SessionRow
<1>7. \A b \in Browsers, id \in 0..issued : Own(b, id) => Own(b, id)'
  BY <1>3 DEF Own
<1>8. HandlerShape'
  <2>1. WellFormed(next)'
    BY <1>4, <1>5 DEF WellFormed
  <2>2. \A r \in Request : WellFormed(r) => WellFormed(r)'
    BY <1>2, <1>7 DEF WellFormed, HasAccount, Request
  <2>3. \A q \in Requests : req'[q] = next \/ (req'[q] = req[q] /\ req[q] \in Request)
    BY <1>2 DEF TypeOK
  <2> QED BY <2>1, <2>2, <2>3 DEF HandlerShape, WellFormed
<1>9. JarsOwned' /\ SessionsProven' /\ EndedGone' /\ OneAccountPerPage'
  BY <1>2, <1>3, <1>7 DEF JarsOwned, SessionsProven, EndedGone, OneAccountPerPage, TypeOK
<1> QED BY <1>6, <1>8, <1>9

(* An answer arrives: the browser gets a session of its own, or none.      *)
LEMMA CookieStep ==
  ASSUME IndInv, NEW t \in Requests, SetSessionCookie(t) \/ ClearSessionCookie(t)
  PROVE  IndInv'
<1> USE DEF IndInv
<1>1. req[t] \in Request /\ WellFormed(req[t])
  BY DEF TypeOK, HandlerShape
<1>2. PICK id \in 0..issued : jar' = [jar EXCEPT ![req[t].browser] = id]
                              /\ Own(req[t].browser, id)
  BY <1>1 DEF SetSessionCookie, ClearSessionCookie, WellFormed, Own, Request, TypeOK
<1>3. End(t) /\ UNCHANGED <<clock, users, sessions, issued, proven, ended>>
  BY DEF SetSessionCookie, ClearSessionCookie
<1>4. Idle \in Request /\ WellFormed(Idle)
  BY IdleType DEF TypeOK
<1>5. TypeOK'
  BY <1>2, <1>3, <1>4 DEF TypeOK, HasAccount, Request, End, Go
<1>6. JarsOwned'
  BY <1>2, <1>3 DEF JarsOwned, Own, TypeOK
<1>7. HandlerShape'
  BY <1>3, <1>4 DEF HandlerShape, WellFormed, Own, HasAccount, End, Go, TypeOK
<1>8. SessionsProven' /\ EndedGone' /\ OneAccountPerPage'
  BY <1>3 DEF SessionsProven, EndedGone, OneAccountPerPage
<1> QED BY <1>5, <1>6, <1>7, <1>8

(* The clock ticks, the process stops, or nothing happens.                 *)
LEMMA QuietStep ==
  ASSUME IndInv, Tick \/ Crash \/ UNCHANGED vars
  PROVE  IndInv'
<1> USE DEF IndInv
<1>1. CASE Tick
  <2>1. TypeOK'
    BY <1>1 DEF Tick, TypeOK, HasAccount, Request
  <2>2. HandlerShape'
    BY <1>1 DEF Tick, HandlerShape, WellFormed, Own, HasAccount
  <2>3. JarsOwned' /\ SessionsProven' /\ EndedGone' /\ OneAccountPerPage'
    BY <1>1 DEF Tick, JarsOwned, Own, SessionsProven, EndedGone, OneAccountPerPage
  <2> QED BY <2>1, <2>2, <2>3
<1>2. CASE Crash
  <2>1. Idle \in Request /\ WellFormed(Idle)
    BY IdleType DEF TypeOK
  <2> QED BY <1>2, <2>1, RequestsOnly DEF Crash
<1>3. CASE UNCHANGED vars
  <2>1. req' \in [Requests -> Request] /\ \A q \in Requests : WellFormed(req'[q])
    BY <1>3 DEF vars, TypeOK, HandlerShape
  <2> QED BY <1>3, <2>1, RequestsOnly DEF vars, dataVars
<1> QED BY <1>1, <1>2, <1>3

-----------------------------------------------------------------------------
(* Every step keeps the invariant.                                         *)
LEMMA Inductive == IndInv /\ [Next]_vars => IndInv'
<1> SUFFICES ASSUME IndInv, [Next]_vars PROVE IndInv'
  OBVIOUS
<1>1. ASSUME NEW t \in Requests, NEW b \in Browsers, Begin(t, b) PROVE IndInv'
  BY <1>1, BeginStep
<1>2. ASSUME NEW t \in Requests, SignUp(t) PROVE IndInv'
  BY <1>2, CreateUserStep, EndStep DEF SignUp, SignupRefused
<1>3. ASSUME NEW t \in Requests, LogIn(t) PROVE IndInv'
  BY <1>3, AuthenticateStep, EndStep DEF LogIn, LoginRefused
<1>4. ASSUME NEW t \in Requests, CreateSession(t) PROVE IndInv'
  BY <1>4, CreateSessionStep
<1>5. ASSUME NEW t \in Requests, SetSessionCookie(t) PROVE IndInv'
  BY <1>5, CookieStep
<1>6. ASSUME NEW t \in Requests, LogOut(t) PROVE IndInv'
  BY <1>6, DeleteSessionStep, DeleteFailsStep, CookieStep DEF LogOut
<1>7. ASSUME NEW t \in Requests, Admit(t) PROVE IndInv'
  BY <1>7, AdmitStep
<1>8. ASSUME NEW t \in Requests, Refuse(t) \/ EndRequest(t) PROVE IndInv'
  BY <1>8, EndStep DEF Refuse, EndRequest
<1>9. CASE Crash \/ Tick \/ UNCHANGED vars
  BY <1>9, QuietStep
<1> QED BY <1>1, <1>2, <1>3, <1>4, <1>5, <1>6, <1>7, <1>8, <1>9 DEF Next

(* The tables, the cookies and the handlers fit together in every state.   *)
THEOREM Invariance == Spec => []IndInv
<1> QED BY InitInv, Inductive, PTL DEF Spec

(* Sign-ups that race never end in one address, or one email, for two      *)
(* accounts, nor in an account without an address.                         *)
THEOREM AddressesApart == Spec => []OneAccountPerPage
<1>1. IndInv => OneAccountPerPage
  BY DEF IndInv
<1> QED BY <1>1, Invariance, PTL

(* requireAuth runs a handler only for an account whose password this      *)
(* browser has shown.                                                      *)
THEOREM OnlyProvenServed == Spec => []ServedAsProven
<1>1. IndInv => ServedAsProven
  BY DEF IndInv, HandlerShape, WellFormed, ServedAsProven
<1> QED BY <1>1, Invariance, PTL

(* A session that a logout has deleted admits nobody any more.             *)
THEOREM LogoutFinal == Spec => LogoutHolds
<1>1. IndInv => \A t \in Requests : Admit(t) => req[t].session \notin ended
  BY DEF IndInv, EndedGone, Admit, Accepted
<1> QED BY <1>1, Invariance, PTL DEF LogoutHolds
=============================================================================
