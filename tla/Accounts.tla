------------------------------- MODULE Accounts -------------------------------
(***************************************************************************)
(* Accounts: registration, login, profile and password reset (AuthService, *)
(* app/services/auth.py), and the accounts seeded at start-up.             *)
(*                                                                         *)
(* Every handler is a plain function on a thread of the pool, and its      *)
(* database and Redis calls interleave with those of the others.  Each     *)
(* such call, or the transaction it commits, is a step.                    *)
(***************************************************************************)
EXTENDS Naturals, FiniteSets

CONSTANTS
  Threads,
  Emails,     \* as users write them
  Lower,      \* [Emails -> Emails]: _normalize_email
  Passwords,
  Names,      \* the profile of a user, in one value
  Codes,      \* the reset codes that are ever generated, each once
  MaxLogins   \* bound: accounts with a live login

VARIABLES
  user,       \* [Emails -> row of users, or None]
  session,    \* the accounts with a live login in Redis
  code,       \* [Emails -> the code whose hash Redis has, or NoCode]
  req,        \* [Threads -> what the request has, between two calls]
  \* history
  issued,     \* [Codes -> the e-mail it was stored for, or "none"]
  uses,       \* [Codes -> how many resets were committed with it]
  asked       \* [Emails -> the password last registered or reset, or "none"]

vars == <<user, session, code, req, issued, uses, asked>>
past == <<issued, uses>>

Row    == [password: Passwords, name: Names]
None   == [password |-> "none", name |-> "none"]   \* there is no such row
RowRead == [password: Passwords \cup {"none"}, name: Names \cup {"none"}]
NoCode  == "none"
Exists(e) == user[e] # None

ASSUME AccountsAssumption ==
  /\ Lower \in [Emails -> Emails] /\ \A e \in Emails : Lower[Lower[e]] = Lower[e]
  /\ MaxLogins \in Nat /\ IsFiniteSet(Threads)
  /\ "none" \notin Emails \cup Passwords \cup Names \cup Codes

-----------------------------------------------------------------------------
(* The tests and writes of the code, each with a plausible bug beside it that *)
(* no action uses.                                                            *)

\* users.email is UNIQUE.
BuggyUnique(e) == TRUE               \* the check before the insert has to do
Unique(e)      == ~Exists(e)

\* get_by_email finds the user.
BuggyKnown(e) == TRUE                \* the answer is the same, so why look
Known(e)      == Exists(e)

\* Redis has a hash of the code, under a key of the e-mail.
BuggyVerified(e, c) == c \in {code[f] : f \in Emails}   \* one key for all
Verified(e, c)      == c = code[e]

BuggyDeleted(e) == code              \* the code is left to expire
Deleted(e)      == [code EXCEPT ![e] = NoCode]

\* Only the columns that differ from the row as loaded are written.
BuggyProfile(e, loaded, n) == [loaded EXCEPT !.name = n]     \* the whole row
Profile(e, loaded, n) ==
  IF n = loaded.name THEN user[e] ELSE [user[e] EXCEPT !.name = n]

-----------------------------------------------------------------------------
Pc == {"idle", "insert", "seed", "refresh", "session", "store", "mail",
       "verify", "delete", "commit", "profile"}
Request == [pc: Pc, email: Emails \cup {"none"}, code: Codes \cup {NoCode}, row: RowRead]

For(pc, e, row) == [pc |-> pc, email |-> e, code |-> NoCode, row |-> row]
Resting         == For("idle", "none", None)

Start(t, pc, e) == req[t].pc = "idle" /\ req' = [req EXCEPT ![t] = For(pc, e, None)]
At(t, pc)       == req[t].pc = pc
Goto(t, pc)     == req' = [req EXCEPT ![t].pc = pc]
End(t)          == req' = [req EXCEPT ![t] = Resting]
Email(t)        == req[t].email
Resets(t)       == At(t, "delete") \/ At(t, "commit")   \* it has verified its code

Init ==
  /\ user = [e \in Emails |-> None] /\ session = {}
  /\ code = [e \in Emails |-> NoCode]
  /\ req = [t \in Threads |-> Resting]
  /\ issued = [c \in Codes |-> "none"]
  /\ uses = [c \in Codes |-> 0]
  /\ asked = [e \in Emails |-> "none"]

\* register takes the e-mail as it is written; seed_admin and seed_user do the
\* same for the accounts in the settings, when a process starts.
Register(t, e) ==
  /\ \/ Start(t, "insert", e)
     \/ Start(t, "seed", e)
  /\ ~Exists(e)
  /\ UNCHANGED <<user, session, code, past, asked>>

\* INSERT and commit, or a unique violation.
Insert(t, p, n) ==
  LET e == Email(t)
  IN /\ At(t, "insert") \/ At(t, "seed")
     /\ IF Unique(e)
        THEN /\ user' = [user EXCEPT ![e] = [password |-> p, name |-> n]]
             /\ asked' = [asked EXCEPT ![e] = IF @ = "none" THEN p ELSE @]
             /\ IF At(t, "insert")
                THEN req' = [req EXCEPT ![t] = For("refresh", e, user'[e])]
                ELSE End(t)
        ELSE End(t) /\ UNCHANGED <<user, asked>>
     /\ UNCHANGED <<session, code, past>>

\* register goes on to log in, against the row as refreshed.
Refresh(t) ==
  /\ At(t, "refresh")
  /\ IF user[Email(t)].password = req[t].row.password
     THEN req' = [req EXCEPT ![t] = For("session", Email(t), None)]
     ELSE End(t)
  /\ UNCHANGED <<user, session, code, past, asked>>

\* login, with the right password: any other ends it.
Login(t, e) ==
  /\ Start(t, "session", e)
  /\ Exists(e)
  /\ UNCHANGED <<user, session, code, past, asked>>

OpenSession(t) ==
  /\ At(t, "session")
  /\ session' = session \cup {Email(t)}
  /\ Cardinality(session') <= MaxLogins
  /\ End(t)
  /\ UNCHANGED <<user, code, past, asked>>

\* get_current_user, whose row update_profile gets from the session.
LoadProfile(t, e) ==
  /\ req[t].pc = "idle" /\ e \in session /\ Exists(e)
  /\ req' = [req EXCEPT ![t] = For("profile", e, user[e])]
  /\ UNCHANGED <<user, session, code, past, asked>>

UpdateProfile(t, n) ==
  /\ At(t, "profile")
  /\ user' = [user EXCEPT ![Email(t)] = Profile(Email(t), req[t].row, n)]
  /\ End(t)
  /\ UNCHANGED <<session, code, past, asked>>

-----------------------------------------------------------------------------
(* Password reset.  It looks for the e-mail in lower case. *)

\* request_password_reset answers the same if there is no such account.
Forgot(t, e) ==
  /\ Start(t, "store", Lower[e])
  /\ Known(Lower[e])
  /\ UNCHANGED <<user, session, code, past, asked>>

StoreCode(t, c) ==
  /\ At(t, "store") /\ issued[c] = "none"
  /\ code' = [code EXCEPT ![Email(t)] = c]
  /\ issued' = [issued EXCEPT ![c] = Email(t)]
  /\ req' = [req EXCEPT ![t].pc = "mail"]
  /\ UNCHANGED <<user, session, uses, asked>>

\* The mail is sent, fails, or is not configured: nothing here knows.
SendMail(t) ==
  /\ At(t, "mail")
  /\ End(t)
  /\ UNCHANGED <<user, session, code, past, asked>>

LoadUser(t, e) ==
  /\ Start(t, "verify", Lower[e])
  /\ Known(Lower[e])
  /\ UNCHANGED <<user, session, code, past, asked>>

\* Redis GET, and the code the user typed; any other ends the request.
VerifyCode(t, c) ==
  /\ At(t, "verify")
  /\ IF Verified(Email(t), c)
     THEN req' = [req EXCEPT ![t] = [For("delete", Email(t), None) EXCEPT !.code = c]]
     ELSE End(t)
  /\ UNCHANGED <<user, session, code, past, asked>>

DeleteCode(t) ==
  /\ At(t, "delete")
  /\ code' = Deleted(Email(t))
  /\ Goto(t, "commit")
  /\ UNCHANGED <<user, session, past, asked>>

CommitReset(t, p) ==
  LET e == Email(t)
      c == req[t].code
  IN /\ At(t, "commit")
     /\ user' = [user EXCEPT ![e].password = p]
     /\ asked' = [asked EXCEPT ![e] = p]
     /\ uses' = [uses EXCEPT ![c] = @ + 1]
     /\ End(t)
     /\ UNCHANGED <<session, code, issued>>

-----------------------------------------------------------------------------

\* The process dies, or a database or Redis call raises: what was done stays.
Abort(t) ==
  /\ ~At(t, "idle")
  /\ End(t)
  /\ UNCHANGED <<user, session, code, past, asked>>

\* Redis expiry.
Expire(e) ==
  /\ \/ session' = session \ {e} /\ UNCHANGED code
     \/ code' = Deleted(e) /\ UNCHANGED session
  /\ UNCHANGED <<user, req, past, asked>>

Handle(t) ==
  \/ \E e \in Emails : \/ Register(t, e) \/ Login(t, e) \/ LoadProfile(t, e)
                       \/ Forgot(t, e) \/ LoadUser(t, e)
  \/ \E p \in Passwords : (\E n \in Names : Insert(t, p, n)) \/ CommitReset(t, p)
  \/ Refresh(t) \/ OpenSession(t) \/ SendMail(t) \/ DeleteCode(t) \/ Abort(t)
  \/ \E n \in Names : UpdateProfile(t, n)
  \/ \E c \in Codes : StoreCode(t, c) \/ VerifyCode(t, c)

Next == (\E t \in Threads : Handle(t)) \/ (\E e \in Emails : Expire(e))

Spec == Init /\ [][Next]_vars

-----------------------------------------------------------------------------
(* Properties *)

\* Every variable has its type, and a request that is past a check of the
\* account has one: accounts do not go away.
TypeOK ==
  /\ user \in [Emails -> Row \cup {None}]
  /\ session \subseteq {e \in Emails : Exists(e)}
  /\ code \in [Emails -> Codes \cup {NoCode}]
  /\ issued \in [Codes -> Emails \cup {"none"}]
  /\ uses \in [Codes -> Nat]
  /\ asked \in [Emails -> Passwords \cup {"none"}]
  /\ req \in [Threads -> Request]
  /\ \A t \in Threads :
       /\ At(t, "idle") \/ Email(t) \in Emails
       /\ ~(At(t, "idle") \/ At(t, "insert") \/ At(t, "seed")) => Exists(Email(t))
       /\ Resets(t) => req[t].code # NoCode

\* A code that has reset a password is gone for good, and only requests that had
\* verified it before can still use it: one for each thread at most.  (The
\* documentation says once.)
CodesAreUsedUp ==
  \A c \in Codes : uses[c] > 0 =>
    /\ \A e \in Emails : code[e] # c
    /\ uses[c] + Cardinality({t \in Threads : req[t].code = c /\ Resets(t)}) <= Cardinality(Threads)

\* A code resets the account of the e-mail it was sent to, although requests
\* write that e-mail as they like, other codes are stored meanwhile, and a
\* reset deletes whatever code is there.
CodeForItsAccount ==
  \A t \in Threads : Resets(t) => issued[req[t].code] = Email(t)

\* The password is the one of the last reset, or of the one registration that
\* made the account, whatever profile updates had loaded the row before, and
\* however many registered at once.
PasswordStands == \A e \in Emails : asked[e] = user[e].password
=============================================================================
