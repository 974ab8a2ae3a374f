----------------------------- MODULE LinkOrder -----------------------------
(***************************************************************************)
(* What the dashboard shows an owner: a list of links.  A new link goes to *)
(* the end, a move exchanges a link with its neighbour, a delete closes    *)
(* the gap, and no account touches another's list.  LinkList implements it *)
(* as long as one request runs at a time.                                  *)
(***************************************************************************)
EXTENDS Integers, Sequences

CONSTANTS Owners, Ids

VARIABLE order    \* owner -> the owner's links, first to last

Listed == UNION {{order[o][i] : i \in DOMAIN order[o]} : o \in Owners}

Exchange(s, i) == [s EXCEPT ![i] = s[i + 1], ![i + 1] = s[i]]

Without(s, i) == [k \in 1..(Len(s) - 1) |-> IF k < i THEN s[k] ELSE s[k + 1]]

AddLast == \E o \in Owners, id \in Ids \ Listed :
             order' = [order EXCEPT ![o] = Append(@, id)]

Move == \E o \in Owners : \E i \in 1..(Len(order[o]) - 1) :
          order' = [order EXCEPT ![o] = Exchange(@, i)]

Remove == \E o \in Owners : \E i \in 1..Len(order[o]) :
            order' = [order EXCEPT ![o] = Without(@, i)]

Next == AddLast \/ Move \/ Remove

(* Any list of distinct links can be there to start with.                  *)
Init == \A o \in Owners : \A i, k \in 1..Len(order[o]) : order[o][i] = order[o][k] => i = k

Spec == Init /\ [][Next]_order
=============================================================================
