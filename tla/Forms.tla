------------------------------- MODULE Forms -------------------------------
(***************************************************************************)
(* What an owner is told.  A form handler of http/server.go changes a row, *)
(* puts one message into the flash cookie and redirects; the page that     *)
(* follows shows the message and takes the cookie away.  One owner works   *)
(* in several tabs of one browser: a request carries the cookies the       *)
(* browser has when it is sent, and changes them when its answer arrives.  *)
(*                                                                         *)
(* DeleteLink and the changes to the list's order have their statements in *)
(* LinkList and are one step here.  A link of another account is, to       *)
(* WHERE id = ? AND user_id = ?, a link that is not there.                 *)
(***************************************************************************)
EXTENDS Integers, Sequences, SequencesExt

CONSTANTS
  Tabs,         \* the requests of the browser that can be under way at once
  Links,
  Profile,      \* the owner's row of users
  Texts,        \* what a form can say: title, url and public, or name and bio
  Gone,         \* the last version of a deleted link
  NoFlash, NoList,
  MaxMessages,  \* bound: messages ever set
  MaxTime       \* bound: the clock stops here

Rows == Links \cup {Profile}

ASSUME RowsAssumption == Profile \notin Links /\ Gone \notin Texts
ASSUME NumbersAssumption == MaxMessages \in Nat /\ MaxTime \in Nat

VARIABLES
  clock,      \* seconds, the precision of updated_at
  versions,   \* row -> its texts so far, the last one being the stored one
  stamp,      \* link -> updated_at
  session,    \* is the browser's session live
  cookie,     \* does the browser hold the session's cookie
  messages,   \* how many messages have been set
  jar,        \* the flash cookie: a message or NoFlash
  req,        \* tab -> where its request is and what it holds
  shown       \* history: the messages pages have shown

vars == <<clock, versions, stamp, session, cookie, messages, jar, req, shown>>

rowVars == <<versions, stamp>>
browserVars == <<clock, session, cookie, jar, shown>>

-----------------------------------------------------------------------------
(* flash is the message an answer brings; carried and signed are the       *)
(* cookies a request has.                                                  *)
Idle == [pc |-> "idle", op |-> "none", row |-> Profile, text |-> Gone, from |-> 0,
         signed |-> FALSE, carried |-> NoFlash, list |-> NoList, flash |-> NoFlash]

Init ==
  /\ clock = 0
  /\ \E x \in Texts : versions = [l \in Rows |-> <<x>>]
  /\ stamp = [l \in Links |-> 0]
  /\ session = TRUE /\ cookie = TRUE
  /\ messages = 0
  /\ jar = NoFlash
  /\ req = [t \in Tabs |-> Idle]
  /\ shown = {}

Go(t, next) == req' = [req EXCEPT ![t] = next]

Stored(l) == Last(versions[l])

(* SetFlash and Redirect: the message travels with the answer.  version is *)
(* that of the row it says was saved.                                      *)
Answer(t, kind) ==
  /\ messages < MaxMessages
  /\ messages' = messages + 1
  /\ Go(t, [Idle EXCEPT !.pc = "answer",
              !.flash = [id |-> messages', kind |-> kind, row |-> req[t].row,
                         version |-> IF kind = "saved" THEN Len(versions'[req[t].row]) ELSE 0]])

-----------------------------------------------------------------------------
(* A form is sent, from a page that may be old.                            *)
Post(t, op, l, x) ==
  /\ req[t].pc = "idle"
  /\ Go(t, [Idle EXCEPT !.pc = "auth", !.op = op, !.row = l, !.text = x,
                        !.from = Len(versions[l]), !.signed = cookie, !.carried = jar])
  /\ UNCHANGED <<rowVars, browserVars, messages>>

(* The dashboard is asked for, by a reload or a link.                      *)
Browse(t) ==
  /\ req[t].pc = "idle"
  /\ Go(t, [Idle EXCEPT !.pc = "auth", !.op = "dashboard", !.signed = cookie, !.carried = jar])
  /\ UNCHANGED <<rowVars, browserVars, messages>>

PostLogout(t) ==
  /\ req[t].pc = "idle"
  /\ Go(t, [Idle EXCEPT !.pc = "logout", !.op = "logout", !.signed = cookie])
  /\ UNCHANGED <<rowVars, browserVars, messages>>

(* requireAuth                                                             *)
Admit(t) ==
  /\ req[t].pc = "auth"
  /\ req[t].signed /\ session
  /\ Go(t, [req[t] EXCEPT !.signed = FALSE,
                          !.pc = IF req[t].op = "dashboard" THEN "list" ELSE "store"])
  /\ UNCHANGED <<rowVars, browserVars, messages>>

Refuse(t) ==
  /\ req[t].pc = "auth"
  /\ ~ (req[t].signed /\ session)
  /\ UNCHANGED <<rowVars, browserVars>>
  /\ Answer(t, "signin")

-----------------------------------------------------------------------------
Write(l, x) ==
  /\ versions' = [versions EXCEPT ![l] = IF Last(@) = x THEN @ ELSE Append(@, x)]
  /\ stamp' = [k \in Links |-> IF k = l THEN clock ELSE stamp[k]]

(* Mutant: an upsert in place of the UPDATE.                               *)
AffectedAnyway(l, x) == Stored(l) # x \/ stamp[l] # clock

(* RowsAffected counts the rows an UPDATE changed, as toDSN leaves the     *)
(* driver's ClientFoundRows off: none, if the text and the second are what *)
(* the row has.                                                            *)
Affected(l, x) == /\ Stored(l) # Gone
                  /\ Stored(l) # x \/ stamp[l] # clock

UpdateLink(t) ==
  /\ req[t].pc = "store" /\ req[t].op = "link"
  /\ Affected(req[t].row, req[t].text)
  /\ Write(req[t].row, req[t].text)
  /\ Answer(t, "saved")
  /\ UNCHANGED browserVars

(* Mutant: the result of the UPDATE is not looked at.                      *)
NoRowIsSaved(t) ==
  /\ req[t].pc = "store" /\ req[t].op = "link"
  /\ ~ Affected(req[t].row, req[t].text)
  /\ UNCHANGED <<rowVars, browserVars>>
  /\ Answer(t, "saved")

(* requireRow: ErrLinkNotFound, "That link no longer exists."              *)
UpdateLinkMissing(t) ==
  /\ req[t].pc = "store" /\ req[t].op = "link"
  /\ ~ Affected(req[t].row, req[t].text)
  /\ UNCHANGED <<rowVars, browserVars>>
  /\ Answer(t, "missing")

(* The owner's row is there, and nobody counts it.                         *)
UpdateProfile(t) ==
  /\ req[t].pc = "store" /\ req[t].op = "profile"
  /\ Write(Profile, req[t].text)
  /\ Answer(t, "saved")
  /\ UNCHANGED browserVars

DeleteLink(t) ==
  /\ req[t].pc = "store" /\ req[t].op = "delete"
  /\ IF Stored(req[t].row) = Gone
     THEN UNCHANGED rowVars /\ Answer(t, "missing")
     ELSE Write(req[t].row, Gone) /\ Answer(t, "saved")
  /\ UNCHANGED browserVars

(* createLink, moveLink: a success.                                        *)
ChangeList(t) ==
  /\ req[t].pc = "store" /\ req[t].op = "list"
  /\ UNCHANGED <<rowVars, browserVars>>
  /\ Answer(t, "done")

(* The form is refused, or the store reports an error: of a statement that *)
(* did nothing, or of one whose answer was lost.                           *)
StoreFails(t) ==
  /\ req[t].pc = "store"
  /\ \/ UNCHANGED rowVars
     \/ /\ req[t].op # "list"
        /\ Stored(req[t].row) # Gone
        /\ Write(req[t].row, req[t].text)
  /\ Answer(t, "failed")
  /\ UNCHANGED browserVars

(* ParseForm fails: an error page in place of a redirect.                  *)
FormUnreadable(t) ==
  /\ req[t].pc = "store"
  /\ Go(t, [req[t] EXCEPT !.pc = "page"])
  /\ UNCHANGED <<rowVars, browserVars, messages>>

(* logout: DeleteSession may fail, nobody looks.                           *)
Logout(t) ==
  /\ req[t].pc = "logout"
  /\ session' \in IF req[t].signed THEN {session, FALSE} ELSE {session}
  /\ UNCHANGED <<rowVars, clock, cookie, jar, shown>>
  /\ Answer(t, "signedout")

(* The answer sets the cookie and the browser follows: to the dashboard,   *)
(* or to the login or home page, which show no list.                       *)
Redirected(t) ==
  /\ req[t].pc = "answer"
  /\ jar' = req[t].flash
  /\ cookie' = (cookie /\ jar'.kind # "signedout")
  /\ Go(t, IF jar'.kind \in {"signin", "signedout"}
           THEN [Idle EXCEPT !.pc = "page", !.carried = jar']
           ELSE [Idle EXCEPT !.pc = "auth", !.op = "dashboard",
                               !.signed = cookie, !.carried = jar'])
  /\ UNCHANGED <<rowVars, clock, session, messages, shown>>

-----------------------------------------------------------------------------
(* Mutant: the list comes from a replica that lags behind.                 *)
ReadSomeList(t) ==
  /\ req[t].pc = "list"
  /\ \E list \in [Rows -> 1..MaxMessages + 1] :
       /\ \A l \in Rows : list[l] <= Len(versions[l])
       /\ Go(t, [req[t] EXCEPT !.pc = "page", !.list = list])
  /\ UNCHANGED <<rowVars, browserVars, messages>>

(* dashboard: the rows as they are now.                                    *)
ReadList(t) ==
  /\ req[t].pc = "list"
  /\ Go(t, [req[t] EXCEPT !.pc = "page", !.list = [l \in Rows |-> Len(versions[l])]])
  /\ UNCHANGED <<rowVars, browserVars, messages>>

(* An error page.                                                          *)
ReadListFails(t) ==
  /\ req[t].pc = "list"
  /\ Go(t, [req[t] EXCEPT !.pc = "page"])
  /\ UNCHANGED <<rowVars, browserVars, messages>>

Shown(t) ==
  shown' = IF req[t].carried = NoFlash THEN shown ELSE shown \cup {req[t].carried.id}

(* Mutant: the cookie is read and not deleted.                             *)
PageArrivesOnly(t) ==
  /\ req[t].pc = "page"
  /\ Shown(t)
  /\ Go(t, Idle)
  /\ UNCHANGED <<rowVars, clock, session, cookie, jar, messages>>

(* renderStatus with TakeFlash: the page shows the message the request     *)
(* brought, and its answer deletes the cookie, whatever it is by then.     *)
PageArrives(t) ==
  /\ req[t].pc = "page"
  /\ Shown(t)
  /\ jar' = IF req[t].carried = NoFlash THEN jar ELSE NoFlash
  /\ Go(t, Idle)
  /\ UNCHANGED <<rowVars, clock, session, cookie, messages>>

(* The tab is closed, or the answer never comes.                           *)
Lost(t) ==
  /\ req[t].pc # "idle"
  /\ Go(t, Idle)
  /\ UNCHANGED <<rowVars, browserVars, messages>>

(* The session expires, or a logout ends it elsewhere.                     *)
SessionEnds ==
  /\ session
  /\ session' = FALSE
  /\ UNCHANGED <<rowVars, clock, cookie, jar, req, messages, shown>>

(* A second passes, perhaps the last of the sixty the cookie has.          *)
Tick ==
  /\ clock < MaxTime
  /\ clock' = clock + 1
  /\ jar' \in {jar, NoFlash}
  /\ UNCHANGED <<rowVars, session, cookie, req, messages, shown>>

-----------------------------------------------------------------------------
Send(t) == \/ \E x \in Texts : Post(t, "profile", Profile, x)
           \/ \E l \in Links : \/ \E x \in Texts : Post(t, "link", l, x)
                              \/ Post(t, "delete", l, Gone)
           \/ Post(t, "list", Profile, Gone)
           \/ Browse(t) \/ PostLogout(t)

Store(t) == \/ UpdateLink(t) \/ UpdateLinkMissing(t) \/ UpdateProfile(t)
            \/ DeleteLink(t) \/ ChangeList(t)
            \/ StoreFails(t) \/ FormUnreadable(t)

Next == \/ \E t \in Tabs : \/ Send(t) \/ Admit(t) \/ Refuse(t) \/ Store(t)
                           \/ Logout(t) \/ Redirected(t)
                           \/ ReadList(t) \/ ReadListFails(t) \/ PageArrives(t) \/ Lost(t)
        \/ SessionEnds \/ Tick

Spec == Init /\ [][Next]_vars

-----------------------------------------------------------------------------
Kinds == {"saved", "done", "missing", "failed", "signin", "signedout"}

Versions == 1..MaxMessages + 1

Messages == [id : 1..messages, kind : Kinds, row : Rows, version : {0} \cup Versions]

Requests ==
  [pc : {"idle", "auth", "store", "logout", "answer", "list", "page"},
   op : {"none", "profile", "link", "delete", "list", "dashboard", "logout"},
   row : Rows, text : Texts \cup {Gone}, from : {0} \cup Versions,
   signed : BOOLEAN, carried : Messages \cup {NoFlash}, list : [Rows -> Versions] \cup {NoList},
   flash : Messages \cup {NoFlash}]

(* Every variable has its type, and a deleted row gets no further version. *)
TypeOK ==
  /\ clock \in 0..MaxTime
  /\ versions \in [Rows -> Seq(Texts \cup {Gone})]
  /\ \A l \in Rows : /\ Len(versions[l]) \in Versions
                     /\ \A i \in 1..Len(versions[l]) - 1 : versions[l][i] # Gone
  /\ stamp \in [Links -> 0..clock]
  /\ session \in BOOLEAN /\ cookie \in BOOLEAN
  /\ messages \in 0..MaxMessages
  /\ jar \in Messages \cup {NoFlash}
  /\ req \in [Tabs -> Requests]
  /\ shown \subseteq 1..messages

(* "Link updated.", "Profile saved." and "Link deleted." are true: what    *)
(* the form said was the stored text at some time during its request,      *)
(* however many tabs save and delete the row at once.                      *)
SavedOnly ==
  \A t \in Tabs :
    LET r == req[t] IN
    r.pc = "store" /\ req'[t].pc = "answer" /\ req'[t].flash.kind = "saved"
      => \E i \in r.from..Len(versions'[r.row]) : versions'[r.row][i] = r.text

NoticeTrue == [][SavedOnly]_vars

(* A page never says that a change was saved beside a list from before it. *)
PageFits(r) ==
  r.pc = "page" /\ r.list # NoList /\ r.carried # NoFlash /\ r.carried.kind = "saved"
    => r.list[r.carried.row] >= r.carried.version

PageAtLeastAsNew == \A t \in Tabs : PageFits(req[t])

(* "so a refresh doesn't re-show a stale message" (auth/auth.go:83): once  *)
(* a page has shown a message, the browser no longer holds it.  Only a     *)
(* request that was already under way can show it a second time.           *)
NeverShownAgain == jar # NoFlash => jar.id \notin shown

(* What makes these inductive.  A form is about its row, and as old as the *)
(* page it was sent from.                                                  *)
FormFits(r) ==
  /\ IF r.pc = "answer" THEN r.flash \in Messages ELSE r.flash = NoFlash
  /\ r.pc # "page" => r.list = NoList
  /\ r.pc \in {"auth", "store"} => r.op \in {"profile", "link", "delete", "list", "dashboard"}
  /\ r.pc = "store" => r.op # "dashboard"
  /\ r.op \in {"link", "delete"} => r.row \in Links
  /\ r.op = "profile" => r.row = Profile
  /\ r.op \in {"profile", "link"} => r.text \in Texts
  /\ r.op = "delete" => r.text = Gone
  /\ r.op \in {"profile", "link", "delete"} => r.from \in 1..Len(versions[r.row])

(* What a message says was saved is there.                                 *)
MessageFits(m) == m # NoFlash /\ m.kind = "saved" => m.version <= Len(versions[m.row])

(* No page has shown the message, no browser or request has it.            *)
Unseen(id) ==
  /\ id \notin shown
  /\ jar # NoFlash => jar.id # id
  /\ \A t \in Tabs : req[t].carried # NoFlash => req[t].carried.id # id

(* An answer under way brings a message that nobody has.                   *)
AnswersFresh ==
  \A t \in Tabs : req[t].pc = "answer" =>
    /\ Unseen(req[t].flash.id)
    /\ \A u \in Tabs \ {t} : req[u].pc = "answer" => req[u].flash.id # req[t].flash.id

(* A row is only written with a message about it; the profile stays.       *)
RowsFit == /\ \A l \in Rows : Len(versions[l]) <= messages + 1
           /\ Stored(Profile) \in Texts

(* The inductive invariant.                                                *)
IndInv ==
  /\ TypeOK /\ RowsFit /\ AnswersFresh
  /\ MessageFits(jar)
  /\ \A t \in Tabs : /\ FormFits(req[t])
                     /\ MessageFits(req[t].carried) /\ MessageFits(req[t].flash)
  /\ PageAtLeastAsNew /\ NeverShownAgain

(* "requireRow turns "the UPDATE matched nothing" into a user-facing       *)
(* error" (store/store.go:365): an owner who is told that a link no longer *)
(* exists has lost it.  Not so: an UPDATE can match and change nothing.    *)
MissingMeansGone ==
  \A t \in Tabs :
    req[t].pc = "answer" /\ req[t].flash.kind = "missing" => Stored(req[t].flash.row) = Gone
=============================================================================
