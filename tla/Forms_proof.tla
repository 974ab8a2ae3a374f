---------------------------- MODULE Forms_proof ----------------------------
(***************************************************************************)
(* IndInv is an inductive invariant of Forms, for any numbers of tabs,     *)
(* links, texts and messages; so what an owner is told was saved was       *)
(* saved, the list beside it shows it, and a message that was shown is not *)
(* kept.                                                                   *)
(***************************************************************************)
EXTENDS Forms, TLAPS

USE NumbersAssumption, RowsAssumption

-----------------------------------------------------------------------------
(* The idle request is a request.                                          *)
LEMMA IdleType ==
  Idle \in Requests /\ Idle.pc = "idle" /\ Idle.op = "none" /\ FormFits(Idle)
BY DEF Idle, Requests, Rows, FormFits

(* The initial states satisfy the invariant.                               *)
LEMMA InitInv == Init => IndInv
<1> SUFFICES ASSUME Init PROVE IndInv
  OBVIOUS
<1>1. PICK x \in Texts : versions = [l \in Rows |-> <<x>>]
  BY DEF Init
<1>2. \A l \in Rows : /\ versions[l] \in Seq(Texts \cup {Gone}) /\ Len(versions[l]) = 1
                      /\ versions[l][1] = x
  BY <1>1
<1>3. TypeOK
  <2>1. \A t \in Tabs : req[t] \in Requests
    BY IdleType DEF Init
  <2>2. 1 \in Versions
    BY DEF Versions
  <2>3. \A l \in Rows : /\ Len(versions[l]) \in Versions
                        /\ \A i \in 1..Len(versions[l]) - 1 : versions[l][i] # Gone
    <3> TAKE l \in Rows
    <3>1. Len(versions[l]) = 1 /\ versions[l] \in Seq(Texts \cup {Gone})
      BY <1>2
    <3>2. \A i \in 1..Len(versions[l]) - 1 : FALSE
      BY <3>1
    <3> QED BY <2>2, <3>1, <3>2
  <2>4. stamp \in [Links -> 0..clock] /\ clock \in 0..MaxTime
    BY DEF Init
  <2> QED BY <1>1, <2>1, <2>3, <2>4 DEF Init, TypeOK
<1>4. RowsFit
  BY <1>2 DEF RowsFit, Init, Stored, Last, Rows
<1>5. \A t \in Tabs : req[t] = Idle
  BY DEF Init
<1>6. AnswersFresh /\ PageAtLeastAsNew /\ NeverShownAgain
  BY <1>5, IdleType DEF AnswersFresh, PageAtLeastAsNew, PageFits, NeverShownAgain, Init
<1>7. MessageFits(jar) /\ MessageFits(Idle.carried) /\ MessageFits(Idle.flash)
  BY DEF MessageFits, Init, Idle
<1> QED BY <1>3, <1>4, <1>5, <1>6, <1>7, IdleType DEF IndInv

-----------------------------------------------------------------------------
(* A request moves on without an answer, and carries no message that was   *)
(* not in the browser before.                                              *)
LEMMA RequestStep ==
  ASSUME IndInv, NEW t \in Tabs, NEW next \in Requests, Go(t, next),
         UNCHANGED <<rowVars, browserVars, messages>>,
         FormFits(next), PageFits(next), next.pc # "answer", next.flash = NoFlash,
         next.carried \in {NoFlash, jar, req[t].carried}
  PROVE  IndInv'
<1> USE DEF IndInv, rowVars, browserVars
<1>1. \A u \in Tabs : req'[u] = IF u = t THEN next ELSE req[u]
  BY DEF Go, TypeOK
<1>2. TypeOK'
  <2>1. Requests' = Requests /\ Messages' = Messages
    BY DEF Requests, Messages
  <2>2. req' \in [Tabs -> Requests']
    BY <2>1 DEF Go, TypeOK
  <2> QED BY <2>1, <2>2 DEF TypeOK
<1>3. RowsFit' /\ NeverShownAgain'
  BY DEF RowsFit, Stored, NeverShownAgain
<1>4. AnswersFresh'
  <2>1. \A id : Unseen(id) => Unseen(id)'
    BY <1>1 DEF Unseen
  <2> QED BY <1>1, <2>1 DEF AnswersFresh
<1>5. MessageFits(jar)'
  BY DEF MessageFits
<1>6. ASSUME NEW u \in Tabs
      PROVE  (FormFits(req[u]) /\ MessageFits(req[u].carried) /\ MessageFits(req[u].flash)
                /\ PageFits(req[u]))'
  <2>1. CASE u = t
    BY <1>1, <2>1 DEF FormFits, MessageFits, PageFits, Messages
  <2>2. CASE u # t
    BY <1>1, <2>2 DEF FormFits, MessageFits, PageFits, Messages, PageAtLeastAsNew
  <2> QED BY <2>1, <2>2
<1>7. PageAtLeastAsNew'
  BY <1>6 DEF PageAtLeastAsNew
<1> QED BY <1>2, <1>3, <1>4, <1>5, <1>6, <1>7

(* The steps that RequestStep covers.                                      *)
LEMMA SendStep ==
  ASSUME IndInv, NEW t \in Tabs, Send(t)
  PROVE  IndInv'
<1> USE DEF IndInv
<1>1. /\ jar \in Messages \cup {NoFlash} /\ cookie \in BOOLEAN
      /\ \A l \in Rows : Len(versions[l]) \in Versions /\ Len(versions[l]) >= 1
  BY DEF TypeOK, Versions
<1>2. ASSUME NEW op \in {"profile", "link", "delete", "list"}, NEW l \in Rows,
             NEW x \in Texts \cup {Gone}, Post(t, op, l, x),
             op \in {"link", "delete"} => l \in Links, op = "profile" => l = Profile,
             op \in {"profile", "link"} => x \in Texts, op = "delete" => x = Gone
      PROVE  IndInv'
  <2> DEFINE next == [Idle EXCEPT !.pc = "auth", !.op = op, !.row = l, !.text = x,
                        !.from = Len(versions[l]), !.signed = cookie, !.carried = jar]
  <2>1. next \in Requests
    BY <1>1, IdleType DEF Requests
  <2>2. /\ next.pc = "auth" /\ next.op = op /\ next.row = l /\ next.text = x
        /\ next.from = Len(versions[l]) /\ next.carried = jar /\ next.flash = NoFlash
        /\ next.list = NoList
    BY DEF Idle
  <2>3. FormFits(next) /\ PageFits(next)
    BY <1>1, <1>2, <2>2 DEF FormFits, PageFits, Versions
  <2> QED BY <1>2, <2>1, <2>2, <2>3, RequestStep DEF Post
<1>3. CASE Browse(t)
  <2> DEFINE next == [Idle EXCEPT !.pc = "auth", !.op = "dashboard", !.signed = cookie,
                                  !.carried = jar]
  <2>1. next \in Requests
    BY <1>1, IdleType DEF Requests
  <2>2. /\ next.pc = "auth" /\ next.op = "dashboard"
        /\ next.carried = jar /\ next.flash = NoFlash /\ next.list = NoList
    BY DEF Idle
  <2>3. FormFits(next) /\ PageFits(next)
    BY <2>2 DEF FormFits, PageFits
  <2> QED BY <1>3, <2>1, <2>2, <2>3, RequestStep DEF Browse
<1>4. CASE PostLogout(t)
  <2> DEFINE next == [Idle EXCEPT !.pc = "logout", !.op = "logout", !.signed = cookie]
  <2>1. next \in Requests
    BY <1>1, IdleType DEF Requests
  <2>2. /\ next.pc = "logout" /\ next.op = "logout"
        /\ next.carried = NoFlash /\ next.flash = NoFlash /\ next.list = NoList
    BY DEF Idle
  <2>3. FormFits(next) /\ PageFits(next)
    BY <2>2 DEF FormFits, PageFits
  <2> QED BY <1>4, <2>1, <2>2, <2>3, RequestStep DEF PostLogout
<1> QED BY <1>2, <1>3, <1>4 DEF Send, Rows

(* requireAuth lets the request through, the list is read or not, or the   *)
(* tab is closed.                                                          *)
LEMMA MoveStep ==
  ASSUME IndInv, NEW t \in Tabs,
         Admit(t) \/ FormUnreadable(t) \/ ReadList(t) \/ ReadListFails(t) \/ Lost(t)
  PROVE  IndInv'
<1> USE DEF IndInv
<1>1. req[t] \in Requests /\ FormFits(req[t])
  BY DEF TypeOK
<1>2. CASE Admit(t)
  <2> DEFINE pc == IF req[t].op = "dashboard" THEN "list" ELSE "store"
             next == [req[t] EXCEPT !.signed = FALSE, !.pc = pc]
  <2>0. pc \in {"list", "store"} /\ (pc = "store" => req[t].op # "dashboard")
    OBVIOUS
  <2> HIDE DEF pc
  <2>1. next \in Requests /\ next.pc = pc
    BY <1>1, <2>0 DEF Requests
  <2>2. /\ next.op = req[t].op /\ next.row = req[t].row /\ next.text = req[t].text
        /\ next.from = req[t].from /\ next.carried = req[t].carried /\ next.flash = NoFlash
        /\ next.list = NoList
    BY <1>1, <1>2 DEF Requests, Admit, FormFits
  <2>3. next.op \in {"profile", "link", "delete", "list", "dashboard"}
    BY <1>1, <1>2, <2>2 DEF Admit, FormFits
  <2>4. FormFits(next) /\ PageFits(next)
    BY <1>1, <2>0, <2>1, <2>2, <2>3 DEF FormFits, PageFits
  <2>5. Go(t, next) /\ UNCHANGED <<rowVars, browserVars, messages>>
    BY <1>2 DEF Admit, pc
  <2>6. next.pc # "answer"
    BY <2>0, <2>1
  <2> HIDE DEF next
  <2> QED BY <2>1, <2>2, <2>4, <2>5, <2>6, RequestStep
<1>3. CASE FormUnreadable(t) \/ ReadListFails(t)
  <2> DEFINE next == [req[t] EXCEPT !.pc = "page"]
  <2>1. next \in Requests /\ next.pc = "page"
    BY <1>1 DEF Requests
  <2>2. /\ next.op = req[t].op /\ next.row = req[t].row /\ next.text = req[t].text
        /\ next.from = req[t].from /\ next.carried = req[t].carried /\ next.flash = NoFlash
        /\ next.list = NoList
    BY <1>1, <1>3 DEF Requests, FormUnreadable, ReadListFails, FormFits
  <2>3. FormFits(next) /\ PageFits(next)
    BY <1>1, <2>1, <2>2 DEF FormFits, PageFits
  <2> QED BY <1>3, <2>1, <2>2, <2>3, RequestStep DEF FormUnreadable, ReadListFails
<1>4. CASE ReadList(t)
  <2> DEFINE list == [l \in Rows |-> Len(versions[l])]
             next == [req[t] EXCEPT !.pc = "page", !.list = list]
  <2>1. list \in [Rows -> Versions]
    BY DEF TypeOK
  <2>2. next \in Requests /\ next.pc = "page" /\ next.list = list
    BY <1>1, <2>1 DEF Requests
  <2>3. /\ next.op = req[t].op /\ next.row = req[t].row /\ next.text = req[t].text
        /\ next.from = req[t].from /\ next.carried = req[t].carried /\ next.flash = NoFlash
    BY <1>1, <1>4 DEF Requests, ReadList, FormFits
  <2>4. FormFits(next)
    BY <1>1, <2>2, <2>3 DEF FormFits
  <2>5. PageFits(next)
    BY <1>1, <2>1, <2>2, <2>3 DEF PageFits, MessageFits, Requests, Messages, Versions
  <2> QED BY <1>4, <2>2, <2>3, <2>4, <2>5, RequestStep DEF ReadList
<1>5. CASE Lost(t)
  <2>1. PageFits(Idle) /\ Idle.carried = NoFlash /\ Idle.flash = NoFlash
    BY DEF Idle, PageFits
  <2> QED BY <1>5, <2>1, IdleType, RequestStep DEF Lost
<1> QED BY <1>2, <1>3, <1>4, <1>5

-----------------------------------------------------------------------------
(* What the statement of a form does to the rows: one of them may get a    *)
(* further version, and has the text of the form.                          *)
RowWritten(l, x) ==
  /\ versions' \in [Rows -> Seq(Texts \cup {Gone})]
  /\ \A k \in Rows : /\ Len(versions'[k]) \in Len(versions[k])..Len(versions[k]) + 1
                     /\ \A i \in 1..Len(versions'[k]) - 1 : versions'[k][i] # Gone
  /\ versions'[l][Len(versions'[l])] = x
  /\ \A k \in Rows \ {l} : versions'[k] = versions[k]
  /\ stamp' \in [Links -> 0..clock]

LEMMA WriteStep ==
  ASSUME IndInv, NEW l \in Rows, NEW x \in Texts \cup {Gone}, Stored(l) # Gone, Write(l, x)
  PROVE  RowWritten(l, x)
<1> USE DEF IndInv, TypeOK
<1>1. PICK s \in Seq(Texts \cup {Gone}) : s = versions[l]
  OBVIOUS
<1>2. Len(s) \in Nat /\ Len(s) >= 1 /\ s[Len(s)] # Gone /\ \A i \in 1..Len(s) - 1 : s[i] # Gone
  <2>1. Len(s) \in Versions /\ \A i \in 1..Len(s) - 1 : s[i] # Gone
    BY <1>1
  <2>2. s[Len(s)] # Gone
    BY <1>1 DEF Stored, Last
  <2> QED BY <2>1, <2>2 DEF Versions
<1>3. /\ versions' = [versions EXCEPT ![l] = IF s[Len(s)] = x THEN s ELSE Append(s, x)]
      /\ stamp' = [k \in Links |-> IF k = l THEN clock ELSE stamp[k]]
  BY <1>1 DEF Write, Last
<1>4. /\ Append(s, x) \in Seq(Texts \cup {Gone}) /\ Len(Append(s, x)) = Len(s) + 1
      /\ Append(s, x)[Len(s) + 1] = x
      /\ \A i \in 1..Len(s) : Append(s, x)[i] = s[i]
  BY <1>2
<1>5. versions' \in [Rows -> Seq(Texts \cup {Gone})]
      /\ \A k \in Rows \ {l} : versions'[k] = versions[k]
  BY <1>3, <1>4
<1>6. CASE s[Len(s)] = x
  BY <1>1, <1>2, <1>3, <1>5, <1>6 DEF RowWritten, Versions
<1>7. CASE s[Len(s)] # x
  <2>1. versions'[l] = Append(s, x)
    BY <1>3, <1>7
  <2>2. \A i \in 1..Len(s) : s[i] # Gone
    BY <1>2
  <2>3. \A i \in 1..Len(versions'[l]) - 1 : versions'[l][i] # Gone
    BY <1>2, <1>4, <2>1, <2>2
  <2>4. \A k \in Rows \ {l} : /\ Len(versions'[k]) = Len(versions[k])
                              /\ \A i \in 1..Len(versions'[k]) - 1 : versions'[k][i] # Gone
    BY <1>5
  <2>5. stamp' \in [Links -> 0..clock]
    BY <1>3
  <2>6. ASSUME NEW k \in Rows
        PROVE  /\ Len(versions'[k]) \in Len(versions[k])..Len(versions[k]) + 1
               /\ \A i \in 1..Len(versions'[k]) - 1 : versions'[k][i] # Gone
    <3>1. Len(versions[k]) \in Nat
      BY DEF Versions
    <3>2. CASE k = l
      <4>1. Len(versions'[l]) = Len(versions[l]) + 1
        BY <1>1, <1>4, <2>1
      <4> QED BY <2>3, <3>1, <3>2, <4>1
    <3>3. CASE k # l
      BY <2>4, <3>1, <3>3
    <3> QED BY <3>2, <3>3
  <2>7. versions'[l][Len(versions'[l])] = x
    BY <1>4, <2>1
  <2> QED BY <1>5, <2>5, <2>6, <2>7 DEF RowWritten
<1> QED BY <1>6, <1>7

(* A handler answers with a message, having written its row or not.        *)
LEMMA AnswerStep ==
  ASSUME IndInv, NEW t \in Tabs, NEW kind \in Kinds, Answer(t, kind),
         UNCHANGED <<clock, cookie, jar, shown>>, session' \in BOOLEAN,
         \/ UNCHANGED rowVars
         \/ \E x \in Texts \cup {Gone} :
              RowWritten(req[t].row, x) /\ (req[t].row = Profile => x \in Texts)
  PROVE  IndInv'
<1> USE DEF IndInv
<1>1. /\ messages \in Nat /\ messages' = messages + 1 /\ messages' \in 0..MaxMessages
      /\ \A l \in Rows : Len(versions[l]) \in Nat /\ Len(versions[l]) >= 1
                         /\ Len(versions[l]) <= messages + 1
  BY DEF TypeOK, RowsFit, Answer, Versions
<1>2. req[t] \in Requests /\ req[t].row \in Rows
  BY DEF TypeOK, Requests
<1>3. /\ versions' \in [Rows -> Seq(Texts \cup {Gone})]
      /\ \A l \in Rows : /\ Len(versions'[l]) \in Len(versions[l])..Len(versions[l]) + 1
                         /\ Len(versions'[l]) \in Versions
                         /\ \A i \in 1..Len(versions'[l]) - 1 : versions'[l][i] # Gone
      /\ stamp' \in [Links -> 0..clock]
      /\ versions'[Profile][Len(versions'[Profile])] \in Texts
  <2>1. CASE UNCHANGED rowVars
    BY <1>1, <2>1 DEF rowVars, TypeOK, RowsFit, Stored, Last
  <2>2. CASE \E x \in Texts \cup {Gone} :
               RowWritten(req[t].row, x) /\ (req[t].row = Profile => x \in Texts)
    <3>1. \A l \in Rows : Len(versions'[l]) \in Len(versions[l])..Len(versions[l]) + 1
      BY <2>2 DEF RowWritten
    <3>2. \A l \in Rows : Len(versions'[l]) \in Versions
      BY <1>1, <3>1 DEF Versions
    <3>3. versions'[Profile][Len(versions'[Profile])] \in Texts
      BY <1>2, <2>2 DEF RowWritten, RowsFit, Stored, Last, Rows
    <3> QED BY <2>2, <3>1, <3>2, <3>3 DEF RowWritten
  <2> QED BY <2>1, <2>2
<1>4. PICK m : m = [id |-> messages + 1, kind |-> kind, row |-> req[t].row,
                    version |-> IF kind = "saved" THEN Len(versions'[req[t].row]) ELSE 0]
  OBVIOUS
<1>5. /\ m \in Messages' /\ m.id = messages + 1 /\ m.row = req[t].row
      /\ m.kind = "saved" => m.version = Len(versions'[m.row])
  <2>1. m.version \in {0} \cup Versions
    BY <1>2, <1>3, <1>4
  <2>2. messages + 1 \in 1..messages'
    BY <1>1
  <2> QED BY <1>2, <1>4, <2>1, <2>2 DEF Messages, Versions
<1>6. PICK next : next = [Idle EXCEPT !.pc = "answer", !.flash = m]
  OBVIOUS
<1>7. req' = [req EXCEPT ![t] = next]
  BY <1>1, <1>4, <1>6 DEF Answer, Go
<1>8. /\ next.pc = "answer" /\ next.op = "none" /\ next.carried = NoFlash /\ next.flash = m
      /\ next.list = NoList
  BY <1>6 DEF Idle
<1>9. /\ \A x \in Messages : x \in Messages' /\ x.id \in 1..messages /\ x.row \in Rows
      /\ \A r \in Requests : r \in Requests'
  BY <1>1 DEF Messages, Requests, Versions
<1>10. next \in Requests'
  BY <1>5, <1>6, IdleType DEF Requests, Idle
<1>11. TypeOK'
  BY <1>1, <1>3, <1>7, <1>9, <1>10 DEF TypeOK
<1>12. RowsFit'
  <2>1. \A l \in Rows : Len(versions'[l]) <= messages' + 1
    <3> SUFFICES ASSUME NEW l \in Rows PROVE Len(versions'[l]) <= messages' + 1
      OBVIOUS
    <3>1. Len(versions[l]) \in Nat /\ Len(versions[l]) <= messages + 1
      BY <1>1
    <3>2. Len(versions'[l]) \in Len(versions[l])..Len(versions[l]) + 1
      BY <1>3
    <3> QED BY <1>1, <3>1, <3>2
  <2>2. Stored(Profile)' \in Texts
    BY <1>3 DEF Stored, Last
  <2> QED BY <2>1, <2>2 DEF RowsFit
<1>13. \A u \in Tabs : req'[u] = IF u = t THEN next ELSE req[u]
  BY <1>7 DEF TypeOK
<1>14. AnswersFresh'
  <2>1. \A id \in 1..messages : Unseen(id) => Unseen(id)'
    BY <1>8, <1>13 DEF Unseen
  <2>2. PICK new \in Nat : new = messages + 1
    BY <1>1
  <2>3. Unseen(new)'
    <3>1. new \notin shown'
      BY <1>1, <2>2 DEF TypeOK
    <3>2. jar' # NoFlash => jar'.id # new
      BY <1>1, <1>9, <2>2 DEF TypeOK
    <3>3. ASSUME NEW u \in Tabs, req'[u].carried # NoFlash
          PROVE  req'[u].carried.id # new
      <4>1. u # t /\ req'[u] = req[u]
        BY <1>8, <1>13, <3>3
      <4>2. req[u].carried \in Messages
        BY <3>3, <4>1 DEF TypeOK, Requests
      <4>3. req[u].carried.id \in 1..messages
        BY <1>9, <4>2
      <4> QED BY <1>1, <2>2, <4>1, <4>3
    <3> QED BY <3>1, <3>2, <3>3 DEF Unseen
  <2>4. \A u \in Tabs \ {t} : /\ req'[u] = req[u]
                              /\ req[u].pc = "answer" => req[u].flash.id \in 1..messages
    BY <1>9, <1>13 DEF FormFits
  <2>5. req'[t].flash.id = new /\ new \notin 1..messages
    BY <1>1, <1>5, <1>8, <1>13, <2>2
  <2>6. ASSUME NEW u \in Tabs, req'[u].pc = "answer"
        PROVE  Unseen(req[u].flash.id)'
    <3>1. CASE u = t
      BY <2>3, <2>5, <3>1 DEF Unseen
    <3>2. CASE u # t
      BY <2>1, <2>4, <2>6, <3>2 DEF AnswersFresh, Unseen
    <3> QED BY <3>1, <3>2
  <2>7. \A u, w \in Tabs : u # w /\ req'[u].pc = "answer" /\ req'[w].pc = "answer"
                             => req'[u].flash.id # req'[w].flash.id
    BY <2>4, <2>5 DEF AnswersFresh
  <2> QED BY <2>6, <2>7 DEF AnswersFresh
<1>15. \A x \in Messages : MessageFits(x) => MessageFits(x)'
  BY <1>1, <1>3, <1>9 DEF MessageFits, Messages, Versions
<1>16. MessageFits(jar)' /\ NeverShownAgain'
  BY <1>15 DEF TypeOK, MessageFits, NeverShownAgain
<1>17. ASSUME NEW u \in Tabs
       PROVE  (FormFits(req[u]) /\ MessageFits(req[u].carried) /\ MessageFits(req[u].flash)
                /\ PageFits(req[u]))'
  <2>1. CASE u = t
    <3>1. FormFits(next)' /\ MessageFits(m)'
      BY <1>5, <1>8, <1>1, <1>3 DEF FormFits, MessageFits
    <3> QED BY <1>8, <1>13, <2>1, <3>1 DEF FormFits, MessageFits, PageFits
  <2>2. CASE u # t
    <3>1. req'[u] = req[u] /\ req[u] \in Requests /\ req[u].row \in Rows
      BY <1>13, <2>2 DEF TypeOK, Requests
    <3>2. FormFits(req[u])'
      BY <1>1, <1>3, <1>9, <3>1 DEF FormFits
    <3>3. MessageFits(req[u].carried)' /\ MessageFits(req[u].flash)'
      BY <1>15, <3>1 DEF Requests, MessageFits
    <3> QED BY <3>1, <3>2, <3>3 DEF PageFits, PageAtLeastAsNew
  <2> QED BY <2>1, <2>2
<1>18. PageAtLeastAsNew'
  BY <1>17 DEF PageAtLeastAsNew
<1> QED BY <1>11, <1>12, <1>14, <1>16, <1>17, <1>18

(* The handlers that answer: requireAuth's refusal, the forms, logout.     *)
LEMMA HandlerStep ==
  ASSUME IndInv, NEW t \in Tabs, Refuse(t) \/ Store(t) \/ Logout(t)
  PROVE  IndInv'
<1> USE DEF IndInv
<1>1. /\ req[t] \in Requests /\ FormFits(req[t]) /\ req[t].row \in Rows
      /\ session \in BOOLEAN
      /\ Profile \in Rows /\ Links \subseteq Rows
  BY DEF TypeOK, Requests, Rows
<1>2. CASE Refuse(t) \/ Logout(t) \/ UpdateLinkMissing(t) \/ ChangeList(t)
  <2>1. \E kind \in Kinds : Answer(t, kind)
    BY <1>2 DEF Refuse, Logout, UpdateLinkMissing, ChangeList, Kinds
  <2>2. UNCHANGED <<rowVars, clock, cookie, jar, shown>> /\ session' \in BOOLEAN
    BY <1>1, <1>2 DEF Refuse, Logout, UpdateLinkMissing, ChangeList, browserVars
  <2> QED BY <2>1, <2>2, AnswerStep
<1>3. ASSUME NEW x \in Texts \cup {Gone}, NEW kind \in Kinds, Answer(t, kind),
             UNCHANGED browserVars, Write(req[t].row, x), Stored(req[t].row) # Gone,
             req[t].row = Profile => x \in Texts
      PROVE  IndInv'
  <2>1. RowWritten(req[t].row, x)
    BY <1>1, <1>3, WriteStep
  <2> QED BY <1>1, <1>3, <2>1, AnswerStep DEF browserVars
<1>4. CASE UpdateLink(t)
  BY <1>1, <1>3, <1>4 DEF UpdateLink, Affected, FormFits, Kinds
<1>5. CASE UpdateProfile(t)
  <2>1. Stored(Profile) # Gone
    BY DEF RowsFit
  <2> QED BY <1>1, <1>3, <1>5, <2>1 DEF UpdateProfile, FormFits, Kinds
<1>6. CASE DeleteLink(t)
  <2>1. CASE Stored(req[t].row) = Gone
    BY <1>1, <1>6, <2>1, AnswerStep DEF DeleteLink, browserVars, Kinds
  <2>2. CASE Stored(req[t].row) # Gone
    BY <1>1, <1>3, <1>6, <2>2 DEF DeleteLink, FormFits, Kinds
  <2> QED BY <2>1, <2>2
<1>7. CASE StoreFails(t)
  <2>1. CASE UNCHANGED rowVars
    BY <1>1, <1>7, <2>1, AnswerStep DEF StoreFails, browserVars, Kinds
  <2>2. CASE req[t].op # "list" /\ Stored(req[t].row) # Gone /\ Write(req[t].row, req[t].text)
    <3>1. req[t].text \in Texts \cup {Gone} /\ (req[t].row = Profile => req[t].text \in Texts)
      BY <1>1, <1>7, <2>2 DEF StoreFails, FormFits
    <3> QED BY <1>1, <1>3, <1>7, <2>2, <3>1 DEF StoreFails, Kinds
  <2> QED BY <1>7, <2>1, <2>2 DEF StoreFails
<1>8. FormUnreadable(t) => IndInv'
  BY MoveStep
<1> QED BY <1>2, <1>4, <1>5, <1>6, <1>7, <1>8 DEF Store

-----------------------------------------------------------------------------
(* The answer arrives: its message, which nobody had, is the browser's.    *)
LEMMA RedirectedStep ==
  ASSUME IndInv, NEW t \in Tabs, Redirected(t)
  PROVE  IndInv'
<1> USE DEF IndInv
<1>1. PICK m \in Messages : m = req[t].flash
  BY DEF Redirected, FormFits
<1>2. /\ jar' = m /\ cookie' \in BOOLEAN
      /\ UNCHANGED <<rowVars, clock, session, messages, shown>>
  BY <1>1 DEF Redirected, TypeOK
<1>3. PICK next \in Requests :
         /\ req' = [req EXCEPT ![t] = next]
         /\ next.pc \in {"page", "auth"} /\ next.op \in {"none", "dashboard"}
         /\ next.pc = "auth" => next.op = "dashboard"
         /\ next.carried = m /\ next.flash = NoFlash /\ next.list = NoList
  <2>1. CASE m.kind \in {"signin", "signedout"}
    <3> DEFINE next == [Idle EXCEPT !.pc = "page", !.carried = m]
    <3>1. next \in Requests
      BY <1>1, IdleType DEF Requests
    <3>2. req' = [req EXCEPT ![t] = next]
      BY <1>2, <2>1 DEF Redirected, Go
    <3> QED BY <3>1, <3>2 DEF Idle
  <2>2. CASE m.kind \notin {"signin", "signedout"}
    <3> DEFINE next == [Idle EXCEPT !.pc = "auth", !.op = "dashboard",
                                    !.signed = cookie, !.carried = m]
    <3>1. next \in Requests
      BY <1>1, IdleType DEF Requests, TypeOK
    <3>2. req' = [req EXCEPT ![t] = next]
      BY <1>2, <2>2 DEF Redirected, Go
    <3> QED BY <3>1, <3>2 DEF Idle
  <2> QED BY <2>1, <2>2
<1>4. \A u \in Tabs : req'[u] = IF u = t THEN next ELSE req[u]
  BY <1>3 DEF TypeOK
<1>5. TypeOK'
  <2>1. Requests' = Requests /\ Messages' = Messages
    BY <1>2 DEF Requests, Messages
  <2>2. req' \in [Tabs -> Requests]
    BY <1>3 DEF TypeOK
  <2> QED BY <1>2, <2>1, <2>2 DEF TypeOK, rowVars
<1>6. RowsFit'
  BY <1>2 DEF RowsFit, Stored, rowVars
<1>7. AnswersFresh'
  <2>1. \A u \in Tabs : req'[u].pc = "answer" => u # t /\ req'[u] = req[u]
    BY <1>3, <1>4
  <2>2. \A id : Unseen(id) /\ id # m.id => Unseen(id)'
    BY <1>2, <1>3, <1>4 DEF Unseen
  <2>3. \A u \in Tabs \ {t} : req[u].pc = "answer" => req[u].flash.id # m.id
    BY <1>1 DEF AnswersFresh, Redirected
  <2> QED BY <2>1, <2>2, <2>3 DEF AnswersFresh
<1>8. NeverShownAgain'
  BY <1>1, <1>2 DEF NeverShownAgain, AnswersFresh, Unseen, Redirected
<1>9. MessageFits(m)' /\ MessageFits(jar)'
  BY <1>1, <1>2 DEF MessageFits, rowVars
<1>10. ASSUME NEW u \in Tabs
       PROVE  (FormFits(req[u]) /\ MessageFits(req[u].carried) /\ MessageFits(req[u].flash)
                /\ PageFits(req[u]))'
  <2>1. CASE u = t
    BY <1>3, <1>4, <1>9, <2>1 DEF FormFits, MessageFits, PageFits
  <2>2. CASE u # t
    BY <1>2, <1>4, <2>2 DEF FormFits, MessageFits, PageFits, PageAtLeastAsNew, Messages, rowVars
  <2> QED BY <2>1, <2>2
<1>11. PageAtLeastAsNew'
  BY <1>10 DEF PageAtLeastAsNew
<1> QED BY <1>5, <1>6, <1>7, <1>8, <1>9, <1>10, <1>11

(* The page arrives: what it shows is shown, and the browser drops what it *)
(* holds.                                                                  *)
LEMMA PageStep ==
  ASSUME IndInv, NEW t \in Tabs, PageArrives(t)
  PROVE  IndInv'
<1> USE DEF IndInv
<1>1. /\ req' = [req EXCEPT ![t] = Idle]
      /\ UNCHANGED <<rowVars, clock, session, cookie, messages>>
  BY DEF PageArrives, Go
<1>2. \A u \in Tabs : req'[u] = IF u = t THEN Idle ELSE req[u]
  BY <1>1 DEF TypeOK
<1>3. /\ jar' \in {jar, NoFlash}
      /\ jar' # NoFlash => shown' = shown
      /\ shown \subseteq shown'
      /\ \A id \in shown' \ shown : req[t].carried # NoFlash /\ id = req[t].carried.id
  BY DEF PageArrives, Shown
<1>4. TypeOK'
  <2>1. Requests' = Requests /\ Messages' = Messages
    BY <1>1 DEF Requests, Messages
  <2>2. shown' \subseteq 1..messages
    BY <1>3 DEF TypeOK, Requests, Messages
  <2>3. req' \in [Tabs -> Requests]
    BY <1>1, IdleType DEF TypeOK
  <2> QED BY <1>1, <1>3, <2>1, <2>2, <2>3 DEF TypeOK, rowVars
<1>5. RowsFit'
  BY <1>1 DEF RowsFit, Stored, rowVars
<1>6. AnswersFresh'
  <2>1. \A u \in Tabs : req'[u].pc = "answer" => u # t /\ req'[u] = req[u]
    BY <1>2, IdleType
  <2>2. \A id : Unseen(id) => Unseen(id)'
    BY <1>2, <1>3 DEF Unseen, Idle
  <2> QED BY <2>1, <2>2 DEF AnswersFresh
<1>7. NeverShownAgain'
  BY <1>3 DEF NeverShownAgain
<1>8. MessageFits(jar)'
  BY <1>1, <1>3 DEF MessageFits, rowVars
<1>9. ASSUME NEW u \in Tabs
      PROVE  (FormFits(req[u]) /\ MessageFits(req[u].carried) /\ MessageFits(req[u].flash)
                /\ PageFits(req[u]))'
  <2>1. CASE u = t
    BY <1>2, <2>1 DEF FormFits, MessageFits, PageFits, Idle
  <2>2. CASE u # t
    BY <1>1, <1>2, <2>2 DEF FormFits, MessageFits, PageFits, PageAtLeastAsNew, Messages, rowVars
  <2> QED BY <2>1, <2>2
<1>10. PageAtLeastAsNew'
  BY <1>9 DEF PageAtLeastAsNew
<1> QED BY <1>4, <1>5, <1>6, <1>7, <1>8, <1>9, <1>10

-----------------------------------------------------------------------------
(* The session ends, time passes, or nothing happens.                      *)
LEMMA QuietStep ==
  ASSUME IndInv, SessionEnds \/ Tick \/ UNCHANGED vars
  PROVE  IndInv'
<1> USE DEF IndInv
<1>1. /\ UNCHANGED <<rowVars, cookie, req, messages, shown>>
      /\ session' \in BOOLEAN
      /\ clock' \in 0..MaxTime /\ clock' >= clock
      /\ jar' \in {jar, NoFlash}
  <2>1. clock \in 0..MaxTime /\ session \in BOOLEAN
    BY DEF TypeOK
  <2>2. CASE SessionEnds
    <3>1. clock' \in 0..MaxTime /\ clock' >= clock
      BY <2>1, <2>2 DEF SessionEnds
    <3>2. session' \in BOOLEAN
      BY <2>2, Zenon DEF SessionEnds
    <3> QED BY <2>1, <2>2, <3>1, <3>2, Zenon DEF SessionEnds, rowVars
  <2>3. CASE Tick
    <3>1. clock' \in 0..MaxTime /\ clock' >= clock
      BY <2>1, <2>3 DEF Tick
    <3> QED BY <2>1, <2>3, <3>1 DEF Tick, rowVars
  <2>4. CASE UNCHANGED vars
    BY <2>1, <2>4 DEF vars, rowVars
  <2> QED BY <2>2, <2>3, <2>4
<1>2. TypeOK'
  <2>1. Requests' = Requests /\ Messages' = Messages
    BY <1>1 DEF Requests, Messages
  <2>2. stamp' \in [Links -> 0..clock']
    BY <1>1 DEF TypeOK, rowVars
  <2> QED BY <1>1, <2>1, <2>2 DEF TypeOK, rowVars
<1>3. RowsFit' /\ NeverShownAgain'
  BY <1>1 DEF RowsFit, Stored, NeverShownAgain, rowVars
<1>4. AnswersFresh'
  BY <1>1 DEF AnswersFresh, Unseen
<1>5. MessageFits(jar)'
  BY <1>1 DEF MessageFits, rowVars
<1>6. \A u \in Tabs : /\ FormFits(req[u])'
                      /\ MessageFits(req[u].carried)' /\ MessageFits(req[u].flash)'
  BY <1>1 DEF FormFits, MessageFits, Messages, rowVars
<1>7. PageAtLeastAsNew'
  BY <1>1 DEF PageAtLeastAsNew, PageFits
<1> QED BY <1>2, <1>3, <1>4, <1>5, <1>6, <1>7

LEMMA Inductive == IndInv /\ [Next]_vars => IndInv'
<1> SUFFICES ASSUME IndInv, [Next]_vars PROVE IndInv'
  OBVIOUS
<1>1. ASSUME NEW t \in Tabs, Send(t)
      PROVE  IndInv'
  BY <1>1, SendStep
<1>2. ASSUME NEW t \in Tabs, Admit(t) \/ ReadList(t) \/ ReadListFails(t) \/ Lost(t)
      PROVE  IndInv'
  BY <1>2, MoveStep
<1>3. ASSUME NEW t \in Tabs, Refuse(t) \/ Store(t) \/ Logout(t)
      PROVE  IndInv'
  BY <1>3, HandlerStep
<1>4. ASSUME NEW t \in Tabs, Redirected(t)
      PROVE  IndInv'
  BY <1>4, RedirectedStep
<1>5. ASSUME NEW t \in Tabs, PageArrives(t)
      PROVE  IndInv'
  BY <1>5, PageStep
<1>6. CASE SessionEnds \/ Tick \/ UNCHANGED vars
  BY <1>6, QuietStep
<1> QED BY <1>1, <1>2, <1>3, <1>4, <1>5, <1>6 DEF Next

(* The inductive invariant holds, whatever the tabs do.                    *)
THEOREM Invariance == Spec => []IndInv
<1>1. Init => IndInv
  BY InitInv
<1>2. IndInv /\ [Next]_vars => IndInv'
  BY Inductive
<1> QED BY <1>1, <1>2, PTL DEF Spec

(* A page that says a change was saved has a list that shows it.           *)
THEOREM ListFollowsNotice == Spec => []PageAtLeastAsNew
<1>1. IndInv => PageAtLeastAsNew
  BY DEF IndInv
<1> QED BY <1>1, Invariance, PTL

(* A message that a page has shown is not in the browser any more.         *)
THEOREM ShownIsDropped == Spec => []NeverShownAgain
<1>1. IndInv => NeverShownAgain
  BY DEF IndInv
<1> QED BY <1>1, Invariance, PTL

-----------------------------------------------------------------------------
(* No step but a handler's answers a form that is in the store.            *)
LEMMA OnlyHandlersSave ==
  ASSUME IndInv, [Next]_vars, NEW t \in Tabs, req[t].pc = "store",
         req'[t].pc = "answer", req'[t].flash.kind = "saved"
  PROVE  UpdateLink(t) \/ UpdateProfile(t) \/ DeleteLink(t)
<1>1. req \in [Tabs -> Requests]
  BY DEF IndInv, TypeOK
<1>2. ASSUME NEW u \in Tabs, NEW next, Go(u, next), u # t
      PROVE  FALSE
  BY <1>1, <1>2 DEF Go
<1>3. ASSUME NEW kind, Answer(t, kind)
      PROVE  kind = "saved"
  BY <1>1, <1>3 DEF Answer, Go, Idle
<1>4. ASSUME NEW u \in Tabs, Send(u)
      PROVE  FALSE
  BY <1>1, <1>2, <1>4 DEF Send, Post, Browse, PostLogout
<1>5. ASSUME NEW u \in Tabs, Refuse(u) \/ Logout(u) \/ Redirected(u) \/ ReadList(u)
                             \/ ReadListFails(u) \/ PageArrives(u) \/ Admit(u)
      PROVE  FALSE
  BY <1>1, <1>2, <1>5 DEF Refuse, Logout, Redirected, ReadList, ReadListFails, PageArrives, Admit,
                          Answer
<1>6. ASSUME NEW u \in Tabs, Lost(u) \/ FormUnreadable(u)
      PROVE  FALSE
  <2>1. CASE u # t
    BY <1>2, <1>6, <2>1 DEF Lost, FormUnreadable
  <2>2. CASE u = t
    <3>1. PICK next : Go(t, next) /\ next \in {Idle, [req[t] EXCEPT !.pc = "page"]}
      BY <1>6, <2>2 DEF Lost, FormUnreadable
    <3>2. req[t] \in Requests /\ req'[t] = next
      BY <1>1, <3>1 DEF Go
    <3>3. next.pc # "answer"
      BY <3>1, <3>2 DEF Idle, Requests
    <3> QED BY <3>2, <3>3
  <2> QED BY <2>1, <2>2
<1>7. ASSUME NEW u \in Tabs, Store(u)
      PROVE  UpdateLink(t) \/ UpdateProfile(t) \/ DeleteLink(t)
  <2>1. CASE u # t
    BY <1>2, <1>6, <1>7, <2>1 DEF Store, UpdateLink, UpdateLinkMissing, UpdateProfile, DeleteLink,
                                  ChangeList, StoreFails, Answer
  <2>2. CASE u = t
    BY <1>3, <1>6, <1>7, <2>2 DEF Store, UpdateLinkMissing, ChangeList, StoreFails
  <2> QED BY <2>1, <2>2
<1>8. ~ (SessionEnds \/ Tick \/ UNCHANGED vars)
  BY DEF SessionEnds, Tick, vars
<1> QED BY <1>4, <1>5, <1>6, <1>7, <1>8 DEF Next

(* What a form is told was saved was the stored text during its request.   *)
LEMMA SavedStep == IndInv /\ [Next]_vars => SavedOnly
<1> SUFFICES ASSUME IndInv, [Next]_vars, NEW t \in Tabs, req[t].pc = "store",
                    req'[t].pc = "answer", req'[t].flash.kind = "saved"
             PROVE  \E i \in req[t].from..Len(versions'[req[t].row]) :
                       versions'[req[t].row][i] = req[t].text
  BY DEF SavedOnly
<1>1. /\ req[t] \in Requests /\ FormFits(req[t]) /\ Profile \in Rows
      /\ versions \in [Rows -> Seq(Texts \cup {Gone})]
  BY DEF IndInv, TypeOK, Rows
<1>2. PICK l \in Rows, x \in Texts \cup {Gone} : l = req[t].row /\ x = req[t].text
  BY <1>1 DEF Requests
<1>3. ASSUME Write(l, x), Stored(l) # Gone, req[t].op \in {"profile", "link", "delete"}
      PROVE  \E i \in req[t].from..Len(versions'[l]) : versions'[l][i] = x
  <2>1. RowWritten(l, x)
    BY <1>3, WriteStep
  <2>2. /\ req[t].from \in 1..Len(versions[l]) /\ Len(versions[l]) \in Nat
        /\ Len(versions'[l]) \in Len(versions[l])..Len(versions[l]) + 1
    BY <1>1, <1>2, <1>3, <2>1 DEF FormFits, RowWritten
  <2>3. Len(versions'[l]) \in req[t].from..Len(versions'[l])
    BY <2>2
  <2> QED BY <2>1, <2>3 DEF RowWritten
<1>4. CASE UpdateLink(t)
  BY <1>2, <1>3, <1>4 DEF UpdateLink, Affected
<1>5. CASE UpdateProfile(t)
  <2>1. Stored(Profile) # Gone /\ l = Profile
    BY <1>1, <1>2, <1>5 DEF IndInv, RowsFit, UpdateProfile, FormFits
  <2> QED BY <1>2, <1>3, <1>5, <2>1 DEF UpdateProfile
<1>6. CASE DeleteLink(t)
  <2>1. CASE Stored(l) = Gone
    <3>1. Answer(t, "missing")
      BY <1>2, <1>6, <2>1 DEF DeleteLink
    <3> QED BY <3>1 DEF Answer, Go, Idle, IndInv, TypeOK
  <2>2. CASE Stored(l) # Gone
    BY <1>1, <1>2, <1>3, <1>6, <2>2 DEF DeleteLink, FormFits
  <2> QED BY <2>1, <2>2
<1> QED BY <1>2, <1>4, <1>5, <1>6, OnlyHandlersSave

(* "Link updated.", "Profile saved." and "Link deleted." are true.         *)
THEOREM NoticesTrue == Spec => NoticeTrue
<1> QED BY SavedStep, Invariance, PTL DEF Spec, NoticeTrue
=============================================================================
