----------------------------- MODULE MCAccounts -----------------------------
(***************************************************************************)
(* An instance of Accounts for TLC: two names with one slug between them,  *)
(* one whose slug is empty; and Slug over short names.                     *)
(***************************************************************************)
EXTENDS Accounts, Slug, TLC

CONSTANTS b1, b2, t1, t2, ann, bea, dotted, dashed, punctuation

MCBrowsers == {b1, b2}
MCRequests == {t1, t2}
MCEmails == {ann, bea}
Similar == {dotted, dashed}
MCNames == Similar \cup {punctuation}
Spelling == [n \in MCNames |-> CASE n = dotted -> <<"A", ".", "_", "b">>
                                 [] n = dashed -> <<"a", "-", "b", "_">>
                                 [] n = punctuation -> <<".", "-", ".">>]
MCSlugOf == [n \in MCNames |-> Slug(Spelling[n])]
MCNoSlug == << >>
Alike == Permutations(MCBrowsers) \cup Permutations(MCRequests)
           \cup Permutations(MCEmails) \cup Permutations(Similar)

(* All names of up to five of these, although usernamePattern asks for     *)
(* three characters at least.                                              *)
ShortNames == SeqOf({"A", "b", "1", ".", "-"}, 5)

(* The address of a short name is its runs of letters and digits, and has  *)
(* itself as its address: so a name of punctuation alone has none, and no  *)
(* address holds the "." that publicProfile refuses (http/server.go:294).  *)
ASSUME SlugKeepsRuns ==
  \A name \in ShortNames : Slug(name) = Runs(name) /\ Slug(Slug(name)) = Slug(name)
=============================================================================
