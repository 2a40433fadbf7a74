-------------------------------- MODULE Accounts --------------------------------
(***************************************************************************)
(* Sign-up and log-in, statement by statement.  A sign-up creates a user,  *)
(* a workspace and the user's OWNER membership in one nested write; nobody *)
(* joins a workspace later.  The account and the workspace that a form s   *)
(* creates are called s, too.                                              *)
(***************************************************************************)
CONSTANTS
  Forms,       \* submitted on the login page
  EmailOf, PasswordOf,
  None

ASSUME AccountsAssumption == None \notin Forms

VARIABLES
  form,        \* where the request of each form stands
  accounts,    \* the rows of "users", of their workspaces and memberships
  token        \* whom the access token of each form is for

accountVars == <<form, accounts, token>>

\* Of the forms that have no account yet some were refused before.
AccountsInit ==
  /\ accounts \in {A \in SUBSET Forms : \A s, t \in A : EmailOf[s] = EmailOf[t] => s = t}
  /\ form \in [Forms -> {"open", "refused", "done"}]
  /\ \A s \in Forms : form[s] = "done" <=> s \in accounts
  /\ token = [s \in Forms |-> IF s \in accounts THEN s ELSE None]

WithEmail(s) == {a \in accounts : EmailOf[a] = EmailOf[s]}
Member(user, workspace) == user \in accounts /\ workspace = user
Advance(s, state) == form' = [form EXCEPT ![s] = state]

\* 409 if the email is taken; else the password is hashed.
SignUpFinds(s) ==
  /\ form[s] = "open"
  /\ Advance(s, IF WithEmail(s) # {} THEN "refused" ELSE "hashing")
  /\ UNCHANGED <<accounts, token>>

\* Mutant: without the unique index on User.email.
SignUpCreatesAnyway(s) ==
  /\ form[s] = "hashing"
  /\ accounts' = accounts \cup {s}
  /\ token' = [token EXCEPT ![s] = s]
  /\ Advance(s, "done")

\* The unique index stops the slower of two: 500.
SignUpCreates(s) ==
  /\ form[s] = "hashing"
  /\ IF WithEmail(s) # {}
       THEN Advance(s, "refused") /\ UNCHANGED <<accounts, token>>
       ELSE /\ accounts' = accounts \cup {s}
            /\ token' = [token EXCEPT ![s] = s]
            /\ Advance(s, "done")

\* Who was refused logs in instead; a wrong password answers 401.
Login(s) ==
  /\ form[s] = "refused"
  /\ \E a \in WithEmail(s) :
       /\ PasswordOf[a] = PasswordOf[s]
       /\ token' = [token EXCEPT ![s] = a]
  /\ Advance(s, "done")
  /\ UNCHANGED accounts

AccountsNext == \E s \in Forms : SignUpFinds(s) \/ SignUpCreates(s) \/ Login(s)

-----------------------------------------------------------------------------
(* Properties *)

\* Two sign-ups at once with one email make one account, and whoever holds a
\* token has given the email and the password of that account.
OneAccountPerEmail ==
  /\ \A a, b \in accounts : EmailOf[a] = EmailOf[b] => a = b
  /\ \A s \in Forms : token[s] # None =>
       /\ token[s] \in WithEmail(s)
       /\ PasswordOf[token[s]] = PasswordOf[s]

=============================================================================
