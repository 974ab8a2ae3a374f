-------------------------------- MODULE Slug --------------------------------
(***************************************************************************)
(* auth.Slug: the address a username turns into.  A name is a sequence of  *)
(* characters; usernamePattern lets letters, digits, "." "_" and "-"       *)
(* through, so there is no space to trim and no other alphabet.            *)
(***************************************************************************)
EXTENDS Integers, Sequences, SequencesExt, FiniteSetsExt

(* A few of the letters, and a digit.                                      *)
LowerOf == [r \in {"A", "a", "B", "b", "U", "u", "p", "1"} |->
              CASE r = "A" -> "a" [] r = "B" -> "b" [] r = "U" -> "u" [] OTHER -> r]

Alnum == DOMAIN LowerOf

(* Mutant: nothing remembers that a dash was just written.                 *)
StepWithoutLastDash(b, r) ==
  IF r \in Alnum THEN Append(b, LowerOf[r])
  ELSE IF b # << >> THEN Append(b, "-") ELSE b

(* lastDash is set as long as the builder's last byte is a dash.           *)
Step(b, r) ==
  IF r \in Alnum THEN Append(b, LowerOf[r])
  ELSE IF b # << >> /\ Last(b) # "-" THEN Append(b, "-") ELSE b

Trim(b) ==
  LET kept == {i \in DOMAIN b : b[i] # "-"}
  IN IF kept = {} THEN << >> ELSE SubSeq(b, Min(kept), Max(kept))

Slug(input) == Trim(FoldLeft(Step, << >>, input))

-----------------------------------------------------------------------------
(* What the address should be: the letters and digits in their order, in   *)
(* lower case, one dash wherever the name has something else between two.  *)
Runs(input) ==
  LET at == SetToSortSeq({i \in DOMAIN input : input[i] \in Alnum}, <)
      Char(k) == <<LowerOf[input[at[k]]]>>
  IN FlattenSeq([k \in DOMAIN at |->
       IF k > 1 /\ at[k] # at[k - 1] + 1 THEN <<"-">> \o Char(k) ELSE Char(k)])
=============================================================================
