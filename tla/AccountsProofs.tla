--------------------------- MODULE AccountsProofs ---------------------------
(***************************************************************************)
(* Proofs about Accounts, for any number of threads, e-mails, passwords    *)
(* and codes, and any _normalize_email that changes nothing twice.         *)
(*                                                                         *)
(* The argument for the codes: a code is in Redis only under the e-mail it *)
(* was stored for, and is stored once.  Before a reset commits it has      *)
(* deleted what is there, so from then on no request can verify the code;  *)
(* those that had verified it are threads, and each gives up its claim     *)
(* when it commits.                                                        *)
(***************************************************************************)
EXTENDS Accounts, FiniteSetTheorems, TLAPS

USE DEF Exists, None, NoCode, At, Email

-----------------------------------------------------------------------------
(* The inductive invariant *)

\* A code in Redis is under the e-mail it was issued for.
UnderItsEmail ==
  \A e \in Emails, c \in Codes : code[e] = c => issued[c] = e

\* A code that was used, or is about to be, was issued and is no more in Redis.
Spent(c)  == uses[c] > 0 \/ \E t \in Threads : At(t, "commit") /\ req[t].code = c
SpentGone == \A c \in Codes : Spent(c) => issued[c] \in Emails /\ \A e \in Emails : code[e] # c

\* The requests that may still use the code c.
Holders(c) == {t \in Threads : req[t].code = c /\ Resets(t)}
UsesFit    == \A c \in Codes : uses[c] + Cardinality(Holders(c)) <= Cardinality(Threads)

CodeInv == TypeOK /\ UnderItsEmail /\ CodeForItsAccount /\ SpentGone

-----------------------------------------------------------------------------
(* Type correctness *)

\* The request r may rely on its account in the table u.
Sound(r, u) ==
  /\ r.pc = "idle" \/ r.email \in Emails
  /\ r.pc \in {"idle", "insert", "seed"} \/ u[r.email] # None
  /\ r.pc \in {"delete", "commit"} => r.code # NoCode

Typed ==
  /\ user \in [Emails -> Row \cup {None}]
  /\ session \subseteq {e \in Emails : Exists(e)}
  /\ code \in [Emails -> Codes \cup {NoCode}]
  /\ issued \in [Codes -> Emails \cup {"none"}]
  /\ uses \in [Codes -> Nat]
  /\ asked \in [Emails -> Passwords \cup {"none"}]

LEMMA TypeParts ==
  TypeOK <=> Typed /\ req \in [Threads -> Request] /\ \A t \in Threads : Sound(req[t], user)
BY DEF TypeOK, Typed, Sound, Resets

LEMMA TypePartsNext ==
  TypeOK' <=> Typed' /\ req' \in [Threads -> Request] /\ \A t \in Threads : Sound(req'[t], user')
BY DEF TypeOK, Typed, Sound, Resets

\* A step of one request, when no account goes away.
LEMMA RequestStep ==
  ASSUME TypeOK, NEW t \in Threads, NEW r \in Request, req' = [req EXCEPT ![t] = r], Typed',
         \A e \in Emails : Exists(e) => user'[e] # None, Sound(r, user')
  PROVE  TypeOK'
<1>1. /\ req \in [Threads -> Request] /\ req' \in [Threads -> Request]
      /\ req'[t] = r /\ \A x \in Threads \ {t} : req'[x] = req[x]
  BY TypeParts
<1>2. ASSUME NEW x \in Threads PROVE Sound(req'[x], user')
  <2>1. Sound(req[x], user)
    BY TypeParts
  <2> QED BY <1>1, <2>1 DEF Sound
<1> QED BY <1>1, <1>2, TypePartsNext

LEMMA TypeStep == ASSUME TypeOK, [Next]_vars PROVE TypeOK'
<1> USE AccountsAssumption DEF TypeOK, past, Row, RowRead, Request, Pc, Resting, For, Resets
<1>1. ASSUME NEW t \in Threads, Handle(t) PROVE TypeOK'
  <2>0. /\ Typed /\ req[t] \in Request /\ Sound(req[t], user)
        /\ Resting \in Request /\ \A u : Sound(Resting, u)
    BY TypeParts DEF Sound
  <2> USE TypeOK, <2>0, RequestStep DEF Sound, Typed
  <2>1. ASSUME NEW e \in Emails, Register(t, e) PROVE TypeOK'
    <3>1. PICK pc \in {"insert", "seed"} : Start(t, pc, e)
      BY <2>1 DEF Register
    <3> DEFINE r == For(pc, e, None)
    <3>2. r \in Request /\ Sound(r, user') /\ req' = [req EXCEPT ![t] = r]
      BY <3>1 DEF Start
    <3> QED BY <2>1, <3>2 DEF Register
  <2>2. ASSUME NEW e \in Emails, Login(t, e) PROVE TypeOK'
    <3> DEFINE r == For("session", e, None)
    <3>1. r \in Request /\ Sound(r, user') /\ req' = [req EXCEPT ![t] = r]
      BY <2>2 DEF Login, Start
    <3> QED BY <2>2, <3>1 DEF Login
  <2>3. ASSUME NEW e \in Emails, LoadProfile(t, e) PROVE TypeOK'
    <3> DEFINE r == For("profile", e, user[e])
    <3>1. r \in Request /\ Sound(r, user') /\ req' = [req EXCEPT ![t] = r]
      BY <2>3 DEF LoadProfile
    <3> QED BY <2>3, <3>1 DEF LoadProfile
  <2>4. ASSUME NEW e \in Emails, Forgot(t, e) PROVE TypeOK'
    <3> DEFINE r == For("store", Lower[e], None)
    <3>1. r \in Request /\ Sound(r, user') /\ req' = [req EXCEPT ![t] = r]
      BY <2>4 DEF Forgot, Start, Known
    <3> QED BY <2>4, <3>1 DEF Forgot
  <2>5. ASSUME NEW e \in Emails, LoadUser(t, e) PROVE TypeOK'
    <3> DEFINE r == For("verify", Lower[e], None)
    <3>1. r \in Request /\ Sound(r, user') /\ req' = [req EXCEPT ![t] = r]
      BY <2>5 DEF LoadUser, Start, Known
    <3> QED BY <2>5, <3>1 DEF LoadUser
  <2>6. ASSUME NEW p \in Passwords, NEW n \in Names, Insert(t, p, n) PROVE TypeOK'
    <3> DEFINE e == Email(t)
               made == [password |-> p, name |-> n]
               r == IF Unique(e) /\ At(t, "insert") THEN For("refresh", e, made) ELSE Resting
    <3>1. e \in Emails /\ made \in Row
      BY <2>6 DEF Insert
    <3>2. user' = IF Unique(e) THEN [user EXCEPT ![e] = made] ELSE user
      BY <2>6 DEF Insert
    <3>3. req' = [req EXCEPT ![t] = r]
      BY <2>6, <3>1, <3>2 DEF Insert, End
    <3>4. r \in Request /\ Sound(r, user')
      BY <3>1, <3>2
    <3>5. \A f \in Emails : Exists(f) => user'[f] # None
      BY <3>1, <3>2
    <3>6. Typed'
      <4>1. user' \in [Emails -> Row \cup {None}]
        BY <3>1, <3>2
      <4>2. asked' \in [Emails -> Passwords \cup {"none"}]
        BY <2>6, <3>1 DEF Insert
      <4> QED BY <2>6, <3>5, <4>1, <4>2 DEF Insert
    <3> QED BY <3>3, <3>4, <3>5, <3>6
  <2>7. ASSUME NEW p \in Passwords, CommitReset(t, p) PROVE TypeOK'
    <3> DEFINE e == Email(t)
    <3>1. e \in Emails /\ user[e] \in Row /\ req[t].code \in Codes
      BY <2>7 DEF CommitReset
    <3>2. user' = [user EXCEPT ![e] = [password |-> p, name |-> user[e].name]]
      <4>1. user' = [user EXCEPT ![e] = [user[e] EXCEPT !.password = p]]
        BY <2>7 DEF CommitReset
      <4>2. [user[e] EXCEPT !.password = p] = [password |-> p, name |-> user[e].name]
        BY <3>1
      <4> QED BY <4>1, <4>2
    <3>3. \A f \in Emails : Exists(f) => user'[f] # None
      BY <3>1, <3>2
    <3>4. Typed'
      <4>1. user' \in [Emails -> Row \cup {None}]
        BY <3>1, <3>2
      <4>2. uses' \in [Codes -> Nat] /\ asked' \in [Emails -> Passwords \cup {"none"}]
        BY <2>7, <3>1 DEF CommitReset
      <4> QED BY <2>7, <3>3, <4>1, <4>2 DEF CommitReset
    <3> QED BY <2>7, <3>3, <3>4 DEF CommitReset, End
  <2>8. CASE Refresh(t)
    <3> DEFINE r == IF user[Email(t)].password = req[t].row.password
                    THEN For("session", Email(t), None) ELSE Resting
    <3>1. r \in Request /\ Sound(r, user') /\ req' = [req EXCEPT ![t] = r]
      BY <2>8 DEF Refresh, End
    <3> QED BY <2>8, <3>1 DEF Refresh
  <2>9. CASE OpenSession(t)
    BY <2>9 DEF OpenSession, End
  <2>10. CASE SendMail(t)
    BY <2>10 DEF SendMail, End
  <2>11. CASE DeleteCode(t)
    <3> DEFINE r == [req[t] EXCEPT !.pc = "commit"]
    <3>1. r \in Request /\ Sound(r, user') /\ req' = [req EXCEPT ![t] = r]
      BY <2>11 DEF DeleteCode, Goto
    <3> QED BY <2>11, <3>1 DEF DeleteCode, Deleted
  <2>12. CASE Abort(t)
    BY <2>12 DEF Abort, End
  <2>13. ASSUME NEW n \in Names, UpdateProfile(t, n) PROVE TypeOK'
    <3> DEFINE e == Email(t)
    <3>1. e \in Emails /\ user[e] \in Row
      BY <2>13 DEF UpdateProfile
    <3>2. Profile(e, req[t].row, n) \in Row
      BY <3>1 DEF Profile
    <3>3. user' = [user EXCEPT ![e] = Profile(e, req[t].row, n)]
      BY <2>13 DEF UpdateProfile
    <3>4. \A f \in Emails : Exists(f) => user'[f] # None
      BY <3>1, <3>2, <3>3
    <3> QED BY <2>13, <3>1, <3>2, <3>3, <3>4 DEF UpdateProfile, End
  <2>14. ASSUME NEW c \in Codes, StoreCode(t, c) PROVE TypeOK'
    <3> DEFINE r == [req[t] EXCEPT !.pc = "mail"]
    <3>1. r \in Request /\ Sound(r, user') /\ req' = [req EXCEPT ![t] = r]
      BY <2>14 DEF StoreCode
    <3> QED BY <2>14, <3>1 DEF StoreCode
  <2>15. ASSUME NEW c \in Codes, VerifyCode(t, c) PROVE TypeOK'
    <3> DEFINE r == IF Verified(Email(t), c) THEN [For("delete", Email(t), None) EXCEPT !.code = c] ELSE Resting
    <3>1. r \in Request /\ Sound(r, user') /\ req' = [req EXCEPT ![t] = r]
      BY <2>15 DEF VerifyCode, End
    <3> QED BY <2>15, <3>1 DEF VerifyCode
  <2> QED BY <1>1, <2>1, <2>2, <2>3, <2>4, <2>5, <2>6, <2>7, <2>8, <2>9, <2>10,
             <2>11, <2>12, <2>13, <2>14, <2>15 DEF Handle
<1>2. ASSUME NEW e \in Emails, Expire(e) PROVE TypeOK'
  BY <1>2 DEF Expire, Deleted
<1>3. CASE UNCHANGED vars
  BY <1>3 DEF vars
<1> QED BY <1>1, <1>2, <1>3 DEF Next

\* Accounts do not go away under a request or a login: whatever the threads do,
\* the rows, sessions, codes and requests of AuthService keep TypeOK.
THEOREM TypeCorrect == Spec => []TypeOK
<1>1. Init => TypeOK
  BY AccountsAssumption DEF Init, TypeOK, Resting, For, Request, Pc, Row, RowRead, Resets
<1>2. TypeOK /\ [Next]_vars => TypeOK'
  BY TypeStep
<1> QED BY <1>1, <1>2, PTL DEF Spec

-----------------------------------------------------------------------------
(* Passwords *)

LEMMA PasswordStep == ASSUME TypeOK, PasswordStands, [Next]_vars PROVE PasswordStands'
<1>0. TypeOK' /\ Typed /\ \A t \in Threads : req[t] \in Request /\ Sound(req[t], user)
  BY TypeStep, TypeParts
<1> USE <1>0, AccountsAssumption DEF PasswordStands, Typed, Sound, past, Row
<1>1. ASSUME NEW t \in Threads, Handle(t) PROVE PasswordStands'
  <2>1. ASSUME NEW p \in Passwords, NEW n \in Names, Insert(t, p, n) PROVE PasswordStands'
    <3>1. Email(t) \in Emails
      BY <2>1 DEF Insert
    <3> QED BY <2>1, <3>1 DEF Insert, Unique
  <2>2. ASSUME NEW p \in Passwords, CommitReset(t, p) PROVE PasswordStands'
    <3>1. Email(t) \in Emails /\ user[Email(t)] \in Row
      BY <2>2 DEF CommitReset
    <3> QED BY <2>2, <3>1 DEF CommitReset
  <2>3. ASSUME NEW n \in Names, UpdateProfile(t, n) PROVE PasswordStands'
    <3>1. Email(t) \in Emails /\ user[Email(t)] \in Row
      BY <2>3 DEF UpdateProfile
    <3>2. Profile(Email(t), req[t].row, n).password = user[Email(t)].password
      BY <3>1 DEF Profile
    <3> QED BY <2>3, <3>1, <3>2 DEF UpdateProfile
  <2>4. CASE UNCHANGED <<user, asked>>
    BY <2>4
  <2> QED BY <1>1, <2>1, <2>2, <2>3, <2>4 DEF Handle, Register, Login, LoadProfile, Forgot,
             LoadUser, Refresh, OpenSession, SendMail, DeleteCode, Abort, StoreCode, VerifyCode
<1>2. ASSUME NEW e \in Emails, Expire(e) PROVE PasswordStands'
  BY <1>2 DEF Expire
<1>3. CASE UNCHANGED vars
  BY <1>3 DEF vars
<1> QED BY <1>1, <1>2, <1>3 DEF Next

\* No profile update that loaded the row before a reset undoes it, and a second
\* registration changes no password: the password of a row is always the one last
\* registered or reset.
THEOREM ResetsStand == Spec => []PasswordStands
<1>1. Init => PasswordStands
  BY DEF Init, PasswordStands
<1>2. TypeOK /\ PasswordStands /\ [Next]_vars => PasswordStands'
  BY PasswordStep
<1> QED BY <1>1, <1>2, TypeCorrect, PTL DEF Spec

-----------------------------------------------------------------------------
(* Codes *)

\* A step of a request that leaves the codes alone, and after which it holds none.
Quiet(t) ==
  \E r \in Request : /\ r.pc \notin {"delete", "commit"} /\ req' = [req EXCEPT ![t] = r]
                     /\ UNCHANGED <<code, past>>

LEMMA HandleCodes ==
  ASSUME TypeOK, NEW t \in Threads, Handle(t)
  PROVE  \/ Quiet(t) \/ DeleteCode(t) \/ \E p \in Passwords : CommitReset(t, p)
         \/ \E c \in Codes : StoreCode(t, c) \/ (VerifyCode(t, c) /\ Verified(Email(t), c))
<1>0. /\ Typed /\ req[t] \in Request /\ Sound(req[t], user) /\ Resting \in Request
      /\ \A pc \in Pc, e \in Emails, row \in RowRead : For(pc, e, row) \in Request
  BY TypeParts DEF Request, For, Resting, Pc, RowRead
<1> USE <1>0, AccountsAssumption DEF Quiet
<1>1. ASSUME NEW e \in Emails, Register(t, e) \/ Login(t, e) \/ Forgot(t, e) \/ LoadUser(t, e)
      PROVE  Quiet(t)
  <2>1. PICK pc \in {"insert", "seed", "session", "store", "verify"}, f \in Emails :
          req' = [req EXCEPT ![t] = For(pc, f, None)]
    BY <1>1 DEF Register, Login, Forgot, LoadUser, Start
  <2>2. For(pc, f, None) \in Request /\ For(pc, f, None).pc \notin {"delete", "commit"}
    BY DEF For, Pc, RowRead
  <2> QED BY <1>1, <2>1, <2>2 DEF Register, Login, Forgot, LoadUser
<1>2. ASSUME NEW e \in Emails, LoadProfile(t, e) PROVE Quiet(t)
  <2>1. For("profile", e, user[e]) \in Request
    BY DEF Typed, Pc, Row, RowRead
  <2> QED BY <1>2, <2>1 DEF LoadProfile, For
<1>3. ASSUME NEW p \in Passwords, NEW n \in Names, Insert(t, p, n) PROVE Quiet(t)
  <2> DEFINE e == Email(t)
             r == IF Unique(e) /\ At(t, "insert") THEN For("refresh", e, user'[e]) ELSE Resting
  <2>1. e \in Emails /\ req' = [req EXCEPT ![t] = r]
    BY <1>3 DEF Insert, End, Sound
  <2>2. Unique(e) => user'[e] \in RowRead
    BY <1>3, <2>1 DEF Insert, Typed, Row, RowRead
  <2>3. r \in Request /\ r.pc \notin {"delete", "commit"}
    BY <2>1, <2>2 DEF For, Pc, Resting
  <2> QED BY <1>3, <2>1, <2>3 DEF Insert
<1>4. CASE Refresh(t)
  <2> DEFINE r == IF user[Email(t)].password = req[t].row.password
                  THEN For("session", Email(t), None) ELSE Resting
  <2>1. Email(t) \in Emails /\ req' = [req EXCEPT ![t] = r]
    BY <1>4 DEF Refresh, End, Sound
  <2>2. r \in Request /\ r.pc \notin {"delete", "commit"}
    BY <2>1 DEF For, Pc, Resting, RowRead
  <2> QED BY <1>4, <2>1, <2>2 DEF Refresh
<1>5. ASSUME End(t), UNCHANGED <<code, past>> PROVE Quiet(t)
  BY <1>5 DEF End, Resting, For
<1>6. OpenSession(t) \/ SendMail(t) \/ Abort(t) => Quiet(t)
  BY <1>5 DEF OpenSession, SendMail, Abort
<1>7. ASSUME NEW n \in Names, UpdateProfile(t, n) PROVE Quiet(t)
  BY <1>5, <1>7 DEF UpdateProfile
<1>8. ASSUME NEW c \in Codes, VerifyCode(t, c), ~Verified(Email(t), c) PROVE Quiet(t)
  BY <1>5, <1>8 DEF VerifyCode
<1> HIDE <1>0 DEF Quiet
<1> QED BY <1>1, <1>2, <1>3, <1>4, <1>6, <1>7, <1>8 DEF Handle

LEMMA CodeStep == ASSUME CodeInv, [Next]_vars PROVE CodeInv'
<1>0. /\ TypeOK' /\ Typed /\ req \in [Threads -> Request] /\ Resting.code = NoCode
      /\ \A t \in Threads : req[t] \in Request /\ Sound(req[t], user)
  BY TypeStep, TypeParts DEF CodeInv, Resting, For
<1> SUFFICES UnderItsEmail' /\ CodeForItsAccount' /\ SpentGone'
  BY <1>0 DEF CodeInv
<1> USE <1>0, AccountsAssumption
    DEF CodeInv, UnderItsEmail, CodeForItsAccount, SpentGone, Spent, Resets, Typed, Sound, past, Request
<1>1. ASSUME NEW t \in Threads, Quiet(t) PROVE UnderItsEmail' /\ CodeForItsAccount' /\ SpentGone'
  BY <1>1 DEF Quiet
<1>2. ASSUME NEW t \in Threads, NEW c \in Codes, StoreCode(t, c)
      PROVE  UnderItsEmail' /\ CodeForItsAccount' /\ SpentGone'
  <2>1. Email(t) \in Emails /\ issued[c] = "none"
    BY <1>2 DEF StoreCode
  <2>2. code' = [code EXCEPT ![Email(t)] = c] /\ issued' = [issued EXCEPT ![c] = Email(t)]
    BY <1>2 DEF StoreCode
  <2>3. \A x \in Threads : Resets(x)' => Resets(x) /\ req'[x] = req[x] /\ req[x].code # c
    BY <1>2, <2>1 DEF StoreCode
  <2>4. UnderItsEmail'
    BY <2>1, <2>2
  <2>5. CodeForItsAccount'
    BY <2>1, <2>2, <2>3
  <2>6. SpentGone'
    <3>1. \A d \in Codes : Spent(d)' => Spent(d) /\ d # c
      BY <1>2, <2>1, <2>3 DEF StoreCode
    <3> QED BY <2>1, <2>2, <3>1
  <2> QED BY <2>4, <2>5, <2>6
<1>3. ASSUME NEW t \in Threads, NEW c \in Codes, VerifyCode(t, c), Verified(Email(t), c)
      PROVE  UnderItsEmail' /\ CodeForItsAccount' /\ SpentGone'
  <2>1. Email(t) \in Emails /\ issued[c] = Email(t) /\ UNCHANGED <<code, issued, uses>>
    BY <1>3 DEF VerifyCode, Verified
  <2>2. req'[t].email = Email(t) /\ req'[t].code = c /\ req'[t].pc = "delete"
    BY <1>3 DEF VerifyCode, For
  <2>3. \A x \in Threads \ {t} : req'[x] = req[x]
    BY <1>3 DEF VerifyCode
  <2> QED BY <2>1, <2>2, <2>3
<1>4. ASSUME NEW t \in Threads, DeleteCode(t) PROVE UnderItsEmail' /\ CodeForItsAccount' /\ SpentGone'
  <2>1. /\ Email(t) \in Emails /\ UNCHANGED <<issued, uses>>
        /\ code' = [code EXCEPT ![Email(t)] = NoCode]
    BY <1>4 DEF DeleteCode, Deleted
  <2>2. /\ req'[t].code = req[t].code /\ req'[t].email = Email(t)
        /\ \A x \in Threads \ {t} : req'[x] = req[x]
    BY <1>4 DEF DeleteCode, Goto
  <2>3. issued[req[t].code] = Email(t) /\ \A e \in Emails : code'[e] # req[t].code
    BY <1>4, <2>1 DEF DeleteCode
  <2>4. UnderItsEmail'
    BY <2>1
  <2>5. CodeForItsAccount'
    BY <1>4, <2>1, <2>2 DEF DeleteCode
  <2>6. SpentGone'
    BY <2>1, <2>2, <2>3
  <2> QED BY <2>4, <2>5, <2>6
<1>5. ASSUME NEW t \in Threads, NEW p \in Passwords, CommitReset(t, p)
      PROVE  UnderItsEmail' /\ CodeForItsAccount' /\ SpentGone'
  <2>1. UNCHANGED <<code, issued>> /\ req' = [req EXCEPT ![t] = Resting]
    BY <1>5 DEF CommitReset, End
  <2>2. uses' = [uses EXCEPT ![req[t].code] = @ + 1] /\ At(t, "commit")
    BY <1>5 DEF CommitReset
  <2>3. \A x \in Threads : Resets(x)' => req'[x] = req[x]
    BY <2>1 DEF Resting, For
  <2>4. \A c \in Codes : Spent(c)' => Spent(c)
    BY <2>1, <2>2, <2>3 DEF Resting, For
  <2> QED BY <2>1, <2>3, <2>4
<1>6. ASSUME NEW e \in Emails, Expire(e) PROVE UnderItsEmail' /\ CodeForItsAccount' /\ SpentGone'
  BY <1>6 DEF Expire, Deleted
<1>7. CASE UNCHANGED vars
  BY <1>7 DEF vars
<1> QED BY <1>1, <1>2, <1>3, <1>4, <1>5, <1>6, <1>7, HandleCodes DEF Next

LEMMA CodesInductive == Spec => []CodeInv
<1>1. Init => CodeInv
  BY TypeCorrect, AccountsAssumption DEF Init, CodeInv, UnderItsEmail, CodeForItsAccount, SpentGone,
     Spent, Resets, Resting, For, TypeOK, Request, Pc, Row, RowRead
<1>2. CodeInv /\ [Next]_vars => CodeInv'
  BY CodeStep
<1> QED BY <1>1, <1>2, PTL DEF Spec

\* A reset changes the account its code was mailed to, whichever e-mail the
\* request names and in whatever case: verify, delete and commit are three calls.
THEOREM CodesStayWithTheirAccount == Spec => []CodeForItsAccount
BY CodesInductive, PTL DEF CodeInv

LEMMA HoldersFinite ==
  \A c \in Codes : IsFiniteSet(Holders(c)) /\ Cardinality(Holders(c)) \in Nat
                  /\ Cardinality(Holders(c)) <= Cardinality(Threads)
BY AccountsAssumption, FS_Subset, FS_CardinalityType DEF Holders

LEMMA UsesStep == ASSUME CodeInv, UsesFit, [Next]_vars PROVE UsesFit'
<1>0. /\ Typed /\ req \in [Threads -> Request] /\ Resting.pc = "idle"
      /\ \A t \in Threads : req[t] \in Request /\ Sound(req[t], user)
  BY TypeParts DEF CodeInv, Resting, For
<1> SUFFICES ASSUME NEW d \in Codes
             PROVE  uses'[d] + Cardinality(Holders(d)') <= Cardinality(Threads)
  BY DEF UsesFit
<1>f. /\ IsFiniteSet(Threads) /\ IsFiniteSet(Holders(d)) /\ Cardinality(Holders(d)) \in Nat
      /\ Cardinality(Threads) \in Nat /\ uses[d] \in Nat
      /\ uses[d] + Cardinality(Holders(d)) <= Cardinality(Threads)
  BY <1>0, AccountsAssumption, HoldersFinite, FS_CardinalityType DEF UsesFit, Typed
<1>1. ASSUME uses'[d] = uses[d], Holders(d)' \subseteq Holders(d)
      PROVE  uses'[d] + Cardinality(Holders(d)') <= Cardinality(Threads)
  <2>1. Cardinality(Holders(d)') <= Cardinality(Holders(d)) /\ Cardinality(Holders(d)') \in Nat
    BY <1>1, <1>f, FS_Subset, FS_CardinalityType
  <2> QED BY <1>1, <1>f, <2>1
<1> USE DEF Holders, Resets, Typed, Sound, past, Request
<1>2. ASSUME NEW t \in Threads, Quiet(t) PROVE uses'[d] = uses[d] /\ Holders(d)' \subseteq Holders(d)
  BY <1>0, <1>2 DEF Quiet
<1>3. ASSUME NEW t \in Threads, NEW c \in Codes, StoreCode(t, c)
      PROVE  uses'[d] = uses[d] /\ Holders(d)' \subseteq Holders(d)
  BY <1>0, <1>3 DEF StoreCode
<1>4. ASSUME NEW t \in Threads, DeleteCode(t)
      PROVE  uses'[d] = uses[d] /\ Holders(d)' \subseteq Holders(d)
  BY <1>0, <1>4 DEF DeleteCode, Goto
<1>5. ASSUME NEW t \in Threads, NEW c \in Codes, VerifyCode(t, c), Verified(Email(t), c)
      PROVE  uses'[d] + Cardinality(Holders(d)') <= Cardinality(Threads)
  <2>1. CASE d # c
    <3>1. Holders(d)' \subseteq Holders(d) /\ uses' = uses
      BY <1>0, <1>5, <2>1 DEF VerifyCode, For
    <3> QED BY <1>1, <3>1
  <2>2. CASE d = c
    <3>1. code[Email(t)] = d /\ Email(t) \in Emails
      BY <1>0, <1>5, <2>2 DEF VerifyCode, Verified
    <3>2. uses[d] = 0 /\ uses' = uses
      BY <1>f, <1>5, <3>1 DEF CodeInv, SpentGone, Spent, VerifyCode
    <3>3. Cardinality(Holders(d)') <= Cardinality(Threads) /\ Cardinality(Holders(d)') \in Nat
      <4>1. Holders(d)' \subseteq Threads
        OBVIOUS
      <4> QED BY <4>1, <1>f, FS_Subset, FS_CardinalityType
    <3> QED BY <3>2, <3>3, <1>f
  <2> QED BY <2>1, <2>2
<1>6. ASSUME NEW t \in Threads, NEW p \in Passwords, CommitReset(t, p)
      PROVE  uses'[d] + Cardinality(Holders(d)') <= Cardinality(Threads)
  <2>1. /\ uses' = [uses EXCEPT ![req[t].code] = @ + 1] /\ At(t, "commit")
        /\ req' = [req EXCEPT ![t] = Resting]
    BY <1>6 DEF CommitReset, End
  <2>2. Holders(d)' = Holders(d) \ {t}
    BY <1>0, <2>1
  <2>3. CASE req[t].code = d
    <3>1. t \in Holders(d) /\ uses'[d] = uses[d] + 1
      BY <1>0, <2>1, <2>3
    <3>2. Cardinality(Holders(d) \ {t}) = Cardinality(Holders(d)) - 1
      BY <1>f, <3>1, FS_RemoveElement
    <3>3. Cardinality(Holders(d)') = Cardinality(Holders(d)) - 1
      BY <2>2, <3>2
    <3> HIDE DEF Holders
    <3> QED BY <1>f, <3>1, <3>3
  <2>4. CASE req[t].code # d
    BY <1>0, <1>1, <2>1, <2>2, <2>4
  <2> QED BY <2>3, <2>4
<1>7. ASSUME NEW e \in Emails, Expire(e) PROVE uses'[d] = uses[d] /\ Holders(d)' \subseteq Holders(d)
  BY <1>7 DEF Expire
<1>8. CASE UNCHANGED vars
  BY <1>1, <1>8 DEF vars
<1> QED BY <1>1, <1>2, <1>3, <1>4, <1>5, <1>6, <1>7, <1>8, HandleCodes DEF Next, CodeInv

\* A code that has reset a password is in Redis no more, and the requests that
\* had verified it before are the only ones that can use it again: no code resets
\* more often than there are threads, however requests, mails and expiry interleave.
THEOREM CodesRunOut == Spec => []CodesAreUsedUp
<1>1. Init => UsesFit
  <2> SUFFICES ASSUME Init, NEW c \in Codes PROVE uses[c] + Cardinality(Holders(c)) <= Cardinality(Threads)
    BY DEF UsesFit
  <2>1. uses[c] = 0
    BY DEF Init
  <2> QED BY <2>1, HoldersFinite
<1>2. CodeInv /\ UsesFit /\ [Next]_vars => UsesFit'
  BY UsesStep
<1>3. CodeInv /\ UsesFit => CodesAreUsedUp
  BY DEF CodeInv, SpentGone, Spent, UsesFit, Holders, CodesAreUsedUp
<1> QED BY <1>1, <1>2, <1>3, CodesInductive, PTL DEF Spec
=============================================================================
