--------------------------- MODULE AccountsProofs ---------------------------
(***************************************************************************)
(* Theorems about Accounts and their proofs: what register and             *)
(* activateUser answer is true of the store, nobody is activated without   *)
(* the mail, and no account loses its token unexplained.                   *)
(***************************************************************************)
EXTENDS Accounts, FiniteSetTheorems, TLAPS

(* What a register knows of the account it makes, and its mail. *)
Registering(r) ==
  /\ pc[r] \in {"create", "token", "answer", "201", "400"} => kind[r] = "register"
  /\ kind[r] = "register" => who[r] \in Names /\ pc[r] \notin {"200", "401", "404"}
  /\ kind[r] = "register" /\ id[r] # None => name[id[r]] # None
  /\ pc[r] \in {"idle", "create", "400"} => id[r] = None
  /\ pc[r] \in {"idle", "create", "token"} => mail[r] = "no"
  /\ pc[r] \in {"token", "answer", "201"} => id[r] # None /\ name[id[r]] = who[r]
  /\ pc[r] = "token" => \A t \in Tokens : owner[t] # id[r]
  /\ pc[r] \in {"answer", "201"} => mail[r] # "no"
  /\ mail[r] # "no" => /\ kind[r] = "register" /\ id[r] # None
                       /\ token[r] # None /\ owner[token[r]] = id[r]
  /\ pc[r] = "400" => Taken(who[r])

(* What an activateUser knows of the token it was given. *)
Activating(r) ==
  /\ pc[r] \in {"lookup", "update", "delete"} => kind[r] = "activate"
  /\ kind[r] = "activate" => token[r] \in mailed \cup {None}
  /\ pc[r] = "update" => token[r] # None /\ owner[token[r]] = id[r]
  /\ pc[r] = "delete" \/ (kind[r] = "activate" /\ pc[r] = "200") => id[r] \in activated
  /\ kind[r] = "activate" /\ pc[r] = "200" => \A t \in tokens : owner[t] # id[r]

Req(r) == (pc[r] = "idle" <=> kind[r] = "none") /\ Registering(r) /\ Activating(r)

(* A name has one row, and a row the one register that made it. *)
NamesOnce  == \A i, j \in Ids : name[i] = name[j] /\ name[i] # None => i = j
Registered == \A i \in Ids : name[i] # None => \E r \in Requests : kind[r] = "register" /\ id[r] = i
MadeOnce   == \A q, r \in Requests :
  q # r /\ kind[q] = "register" /\ kind[r] = "register" /\ id[q] = id[r] => id[q] = None

(* Only an account that is activated has lost a token. *)
Issue == \A t \in tokens \cup mailed : owner[t] # None
Owned == \A t \in Tokens : owner[t] # None => name[owner[t]] # None
Left  == \A t \in Tokens : owner[t] # None /\ t \notin tokens => owner[t] \in activated

IInv ==
  /\ TypeOK
  /\ \A r \in Requests : Req(r)
  /\ NamesOnce /\ Registered /\ MadeOnce /\ Issue /\ Owned /\ Left /\ ActivatedByMail

-----------------------------------------------------------------------------
LEMMA InitInv == Init => IInv
<1> SUFFICES ASSUME Init PROVE IInv
  OBVIOUS
<1>1. TypeOK
  BY DEF Init, TypeOK
<1>2. ASSUME NEW r \in Requests PROVE Req(r)
  BY AccountsAssumption DEF Init, Req, Registering, Activating, AccountsAssumption
<1> QED
  BY <1>1, <1>2
  DEF Init, IInv, NamesOnce, Registered, MadeOnce, Issue, Owned, Left, ActivatedByMail

(* A step of r leaves the other requests as they are. *)
Same(q) ==
  /\ pc'[q] = pc[q] /\ kind'[q] = kind[q] /\ who'[q] = who[q] /\ id'[q] = id[q]
  /\ token'[q] = token[q] /\ mail'[q] = mail[q]

(* What a step of r may do to the rows. *)
RowStep(r) ==
  /\ \A i \in Ids : name[i] # None => name'[i] = name[i]
  /\ \A i \in Ids : name[i] = None /\ name'[i] # None =>
       /\ kind'[r] = "register" /\ id'[r] = i /\ name'[i] = who[r] /\ ~Taken(who[r])
  /\ \A t \in Tokens : owner[t] # None => owner'[t] = owner[t]
  /\ \A t \in Tokens : owner[t] = None /\ owner'[t] # None =>
       pc[r] = "token" /\ owner'[t] = id[r] /\ t \in tokens'
  /\ \A t \in tokens' \ tokens : owner[t] = None /\ owner'[t] # None
  /\ \A t \in tokens \ tokens' : owner[t] \in activated
  /\ activated \subseteq activated'
  /\ \A i \in activated' \ activated : \E t \in mailed : owner[t] = i
  /\ mailed \subseteq mailed' /\ \A t \in mailed' \ mailed : owner[t] # None

LEMMA StepKeeps ==
  ASSUME IInv, TypeOK', NEW r \in Requests, \A q \in Requests \ {r} : Same(q),
         Req(r)', RowStep(r),
         kind[r] = "register" => kind'[r] = "register" /\ (id[r] # None => id'[r] = id[r]),
         kind'[r] = "register" /\ id'[r] # id[r] /\ id'[r] # None => name[id'[r]] = None,
         kind'[r] = "register" /\ kind[r] # "register" => id'[r] = None
  PROVE  IInv'
<1>1. /\ TypeOK /\ NamesOnce /\ Registered /\ MadeOnce /\ Issue /\ Owned /\ Left /\ ActivatedByMail
      /\ \A q \in Requests : Req(q)
  BY DEF IInv
<1>2. None \notin Ids /\ None \notin Tokens /\ None \notin Names
  BY AccountsAssumption DEF AccountsAssumption
<1>3. ASSUME NEW q \in Requests \ {r} PROVE Registering(q)'
  <2>1. pc[q] = "token" => \A t \in Tokens : owner'[t] # id[q]
    <3> SUFFICES ASSUME pc[q] = "token", NEW t \in Tokens, owner'[t] = id[q] PROVE FALSE
      OBVIOUS
    <3>1. owner[t] # id[q] /\ id[q] # None /\ kind[q] = "register"
      BY <1>1 DEF Req, Registering
    <3>2. pc[r] = "token" /\ id[r] = id[q]
      BY <3>1 DEF RowStep
    <3>3. kind[r] = "register"
      BY <1>1, <3>2 DEF Req, Registering
    <3> QED
      BY <1>1, <1>3, <3>1, <3>2, <3>3 DEF MadeOnce
  <2>2. id[q] \in Ids \cup {None} /\ token[q] \in Tokens \cup {None}
    BY <1>1 DEF TypeOK
  <2>3. id[q] # None /\ name[id[q]] # None => name'[id[q]] = name[id[q]]
    BY <2>2 DEF RowStep
  <2>4. token[q] # None /\ id[q] # None /\ owner[token[q]] = id[q] => owner'[token[q]] = id[q]
    BY <2>2 DEF RowStep
  <2>5. Taken(who[q]) /\ who[q] \in Names => Taken(who[q])'
    BY <1>2, <1>3 DEF Taken, RowStep, Same
  <2> QED
    BY <1>1, <1>2, <1>3, <2>1, <2>2, <2>3, <2>4, <2>5 DEF Same, Req, Registering
<1>4. ASSUME NEW q \in Requests \ {r} PROVE Activating(q)'
  <2>1. token[q] \in Tokens \cup {None} /\ id[q] \in Ids \cup {None}
    BY <1>1 DEF TypeOK
  <2>2. token[q] # None /\ owner[token[q]] # None => owner'[token[q]] = owner[token[q]]
    BY <2>1 DEF RowStep
  <2>3. pc[q] = "update" => owner[token[q]] # None
    <3> SUFFICES ASSUME pc[q] = "update" PROVE owner[token[q]] # None
      OBVIOUS
    <3>1. token[q] \in mailed
      BY <1>1 DEF Req, Activating
    <3> QED
      BY <1>1, <3>1 DEF Issue
  <2>4. ASSUME kind[q] = "activate", pc[q] = "200", NEW t \in tokens' PROVE owner'[t] # id[q]
    <3>1. id[q] \in activated /\ \A x \in tokens : owner[x] # id[q]
      BY <1>1, <2>4 DEF Req, Activating
    <3>2. PICK x \in mailed : owner[x] = id[q]
      BY <1>1, <3>1 DEF ActivatedByMail
    <3>3. pc[r] = "token" => id[r] # id[q]
      BY <1>1, <3>2 DEF Req, Registering, TypeOK
    <3>4. tokens \subseteq Tokens /\ tokens' \subseteq Tokens
      BY <1>1 DEF TypeOK
    <3>5. CASE t \in tokens
      BY <1>1, <3>1, <3>4, <3>5 DEF Issue, RowStep
    <3>6. CASE t \notin tokens
      BY <3>3, <3>4, <3>6, <2>4 DEF RowStep
    <3> QED
      BY <3>5, <3>6
  <2> QED
    BY <1>1, <1>4, <2>1, <2>2, <2>3, <2>4 DEF Same, Req, Activating, RowStep
<1>5. \A q \in Requests : Req(q)'
  BY <1>1, <1>3, <1>4 DEF Same, Req
<1>6. NamesOnce'
  <2> SUFFICES ASSUME NEW i \in Ids, NEW j \in Ids, name'[i] = name'[j], name'[i] # None PROVE i = j
    BY DEF NamesOnce
  <2> QED
    BY <1>1 DEF NamesOnce, RowStep, Taken
<1>7. Registered'
  <2> SUFFICES ASSUME NEW i \in Ids, name'[i] # None
               PROVE  \E q \in Requests : kind'[q] = "register" /\ id'[q] = i
    BY DEF Registered
  <2>1. CASE name[i] = None
    BY <2>1 DEF RowStep
  <2>2. CASE name[i] # None
    <3>1. PICK q \in Requests : kind[q] = "register" /\ id[q] = i
      BY <1>1, <2>2 DEF Registered
    <3> QED
      BY <1>2, <3>1 DEF Same
  <2> QED
    BY <2>1, <2>2
<1>8. MadeOnce'
  <2>1. ASSUME NEW q \in Requests \ {r}, kind[q] = "register", kind'[r] = "register",
               id[q] = id'[r], id[q] # None
        PROVE  FALSE
    <3>1. name[id[q]] # None
      BY <1>1, <2>1 DEF Req, Registering
    <3>2. id'[r] = id[r]
      BY <2>1, <3>1
    <3>3. kind[r] = "register"
      BY <2>1
    <3> QED
      BY <1>1, <2>1, <3>2, <3>3 DEF MadeOnce
  <2> QED
    BY <1>1, <2>1 DEF MadeOnce, Same
<1>9. Issue'
  <2>1. tokens \subseteq Tokens /\ mailed \subseteq Tokens /\ mailed' \subseteq Tokens
    BY <1>1 DEF TypeOK
  <2> QED
    BY <1>1, <2>1 DEF Issue, RowStep
<1>10. Owned'
  <2> SUFFICES ASSUME NEW t \in Tokens, owner'[t] # None PROVE name'[owner'[t]] # None
    BY DEF Owned
  <2>1. CASE owner[t] = None
    <3>1. pc[r] = "token" /\ owner'[t] = id[r]
      BY <2>1 DEF RowStep
    <3>2. id[r] \in Ids /\ name[id[r]] # None
      BY <1>1, <3>1 DEF Req, Registering, TypeOK
    <3> QED
      BY <1>1, <3>1, <3>2 DEF RowStep
  <2>2. CASE owner[t] # None
    BY <1>1, <2>2 DEF Owned, RowStep, TypeOK
  <2> QED
    BY <2>1, <2>2
<1>11. Left'
  BY <1>1 DEF Left, RowStep
<1>12. ActivatedByMail'
  <2>1. mailed \subseteq Tokens /\ \A t \in mailed : owner'[t] = owner[t]
    BY <1>1 DEF TypeOK, Issue, RowStep
  <2> QED
    BY <1>1, <2>1 DEF ActivatedByMail, RowStep
<1> QED
  BY <1>5, <1>6, <1>7, <1>8, <1>9, <1>10, <1>11, <1>12 DEF IInv
-----------------------------------------------------------------------------
LEMMA StartRegisterKeeps ==
  ASSUME IInv, NEW r \in Requests, StartRegister(r) PROVE IInv'
<1>1. /\ TypeOK /\ Req(r) /\ pc[r] = "idle"
      /\ UNCHANGED <<db, mailed, id, token, mail>>
  BY DEF IInv, StartRegister
<1>2. PICK w \in Names, l \in {"create", "500"} :
        /\ kind' = [kind EXCEPT ![r] = "register"]
        /\ who' = [who EXCEPT ![r] = w] /\ Goto(r, l) /\ "register" \in Kinds
  BY DEF StartRegister
<1>3. /\ TypeOK' /\ \A q \in Requests \ {r} : Same(q)
      /\ kind'[r] = "register" /\ who'[r] = w /\ pc'[r] = l
  BY <1>1, <1>2 DEF TypeOK, Same, Goto, db, Active, Answers
<1>4. Req(r)' /\ RowStep(r)
  BY <1>1, <1>2, <1>3 DEF Req, Registering, Activating, RowStep, db
<1>5. id[r] = None /\ kind[r] = "none"
  BY <1>1 DEF Req, Registering
<1> QED
  BY <1>1, <1>3, <1>4, <1>5, StepKeeps

LEMMA CreateUserKeeps ==
  ASSUME IInv, NEW r \in Requests, CreateUser(r) PROVE IInv'
<1>1. /\ TypeOK /\ Req(r) /\ pc[r] = "create" /\ kind[r] = "register" /\ id[r] = None
      /\ UNCHANGED <<activated, owner, tokens, expired, mailed, request, token, mail>>
  BY DEF IInv, CreateUser, Req, Registering
<1>2. CASE /\ UNCHANGED <<name, id>>
           /\ Goto(r, "500") \/ (Taken(who[r]) /\ Goto(r, "400"))
  <2>1. /\ TypeOK' /\ \A q \in Requests \ {r} : Same(q)
        /\ pc'[r] = "500" \/ (pc'[r] = "400" /\ Taken(who[r]))
    BY <1>1, <1>2 DEF TypeOK, Same, Goto, request, Answers
  <2>2. Taken(who[r]) => Taken(who[r])'
    BY <1>1, <1>2 DEF Taken, request
  <2>3. Req(r)'
    BY <1>1, <1>2, <2>1, <2>2 DEF Req, Registering, Activating, request
  <2>4. RowStep(r)
    BY <1>1, <1>2 DEF RowStep
  <2> QED
    BY <1>1, <1>2, <2>1, <2>3, <2>4, StepKeeps DEF request
<1>3. ASSUME NEW i \in Unused, NEW l \in {"token", "500"}, ~Taken(who[r]),
             name' = [name EXCEPT ![i] = who[r]], id' = [id EXCEPT ![r] = i], Goto(r, l)
      PROVE  IInv'
  <2>1. i \in Ids /\ name[i] = None /\ who[r] \in Names /\ who[r] # None /\ i # None
    BY <1>1, AccountsAssumption DEF Unused, Req, Registering, AccountsAssumption
  <2>2. /\ TypeOK' /\ \A q \in Requests \ {r} : Same(q)
        /\ pc'[r] = l /\ id'[r] = i /\ name'[i] = who[r]
        /\ \A j \in Ids \ {i} : name'[j] = name[j]
    BY <1>1, <1>3, <2>1 DEF TypeOK, Same, Goto, request, Active, Answers
  <2>3. \A t \in Tokens : owner[t] # i
    BY <2>1 DEF IInv, Owned
  <2>4. Req(r)'
    BY <1>1, <2>1, <2>2, <2>3 DEF Req, Registering, Activating, request
  <2>5. RowStep(r)
    BY <1>1, <1>3, <2>1, <2>2 DEF RowStep, request
  <2> QED
    BY <1>1, <2>1, <2>2, <2>4, <2>5, StepKeeps DEF request
<1> QED
  BY <1>2, <1>3 DEF CreateUser
LEMMA NewTokenKeeps ==
  ASSUME IInv, NEW r \in Requests, NewToken(r) PROVE IInv'
<1>1. /\ TypeOK /\ Req(r) /\ pc[r] = "token" /\ kind[r] = "register"
      /\ id[r] # None /\ id[r] \in Ids
      /\ UNCHANGED <<name, activated, expired, mailed, request, id>>
  BY DEF IInv, NewToken, Req, Registering, TypeOK
<1>2. PICK t \in Unissued, o \in {"ok", "late", "fail"} :
        /\ IF o = "fail" THEN UNCHANGED <<owner, tokens, token>>
           ELSE /\ owner' = [owner EXCEPT ![t] = id[r]]
                /\ tokens' = tokens \cup {t}
                /\ token' = [token EXCEPT ![r] = t]
        /\ IF o = "ok" THEN mail' = [mail EXCEPT ![r] = "sending"] /\ Goto(r, "answer")
                       ELSE UNCHANGED mail /\ Goto(r, "500")
  BY DEF NewToken, Outcomes, Issued
<1>3. t \in Tokens /\ owner[t] = None /\ t # None
  BY AccountsAssumption DEF Unissued, AccountsAssumption
<1>4. /\ TypeOK' /\ \A q \in Requests \ {r} : Same(q)
      /\ pc'[r] = IF o = "ok" THEN "answer" ELSE "500"
      /\ o = "ok" => mail'[r] = "sending" /\ token'[r] = t /\ owner'[t] = id[r]
      /\ o # "ok" => mail'[r] = mail[r]
  BY <1>1, <1>2, <1>3 DEF TypeOK, Same, Goto, request, Active, Answers
<1>5. Req(r)'
  BY <1>1, <1>2, <1>3, <1>4 DEF Req, Registering, Activating, request
<1>6. RowStep(r)
  <2>1. CASE o = "fail"
    BY <1>1, <1>2, <2>1 DEF RowStep
  <2>2. CASE o # "fail"
    <3>1. /\ owner'[t] = id[r] /\ tokens' = tokens \cup {t}
          /\ \A x \in Tokens \ {t} : owner'[x] = owner[x]
      BY <1>1, <1>2, <1>3, <2>2 DEF TypeOK
    <3> QED
      BY <1>1, <1>3, <3>1 DEF RowStep
  <2> QED
    BY <2>1, <2>2
<1> QED
  BY <1>1, <1>4, <1>5, <1>6, StepKeeps DEF request

LEMMA AnswerKeeps ==
  ASSUME IInv, NEW r \in Requests, Answer(r) PROVE IInv'
<1>1. /\ TypeOK /\ Req(r) /\ pc[r] = "answer" /\ kind[r] = "register" /\ Goto(r, "201")
      /\ UNCHANGED <<db, mailed, request, id, token, mail>>
  BY DEF IInv, Answer, Req, Registering
<1>2. TypeOK' /\ pc'[r] = "201" /\ \A q \in Requests \ {r} : Same(q)
  BY <1>1 DEF TypeOK, Same, Goto, request, db, Answers
<1>3. Req(r)' /\ RowStep(r)
  BY <1>1, <1>2 DEF Req, Registering, Activating, RowStep, Taken, request, db
<1> QED
  BY <1>1, <1>2, <1>3, StepKeeps DEF request

LEMMA SendMailKeeps ==
  ASSUME IInv, NEW r \in Requests, SendMail(r) PROVE IInv'
<1>1. /\ TypeOK /\ Req(r) /\ mail[r] = "sending" /\ kind[r] = "register"
      /\ token[r] \in Tokens /\ owner[token[r]] = id[r] /\ id[r] # None
      /\ mail' = [mail EXCEPT ![r] = "over"]
      /\ mailed' \in {mailed, mailed \cup {token[r]}}
      /\ UNCHANGED pc \/ (pc[r] = "answer" /\ Goto(r, "500"))
      /\ UNCHANGED <<db, request, id, token>>
  BY DEF IInv, SendMail, Req, Registering, TypeOK
<1>2. /\ TypeOK' /\ \A q \in Requests \ {r} : Same(q)
      /\ mail'[r] = "over" /\ pc[r] \notin {"idle", "create", "token"}
      /\ pc'[r] = pc[r] \/ (pc[r] = "answer" /\ pc'[r] = "500")
  BY <1>1 DEF TypeOK, Same, Goto, request, db, Answers, Req, Registering
<1>3. Req(r)'
  BY <1>1, <1>2 DEF Req, Registering, Activating, Taken, request, db
<1>4. RowStep(r)
  BY <1>1 DEF RowStep, db
<1> QED
  BY <1>1, <1>2, <1>3, <1>4, StepKeeps DEF request

LEMMA StartActivateKeeps ==
  ASSUME IInv, NEW r \in Requests, StartActivate(r) PROVE IInv'
<1>1. /\ TypeOK /\ Req(r) /\ pc[r] = "idle" /\ id[r] = None /\ mail[r] = "no" /\ kind[r] = "none"
      /\ "activate" \in Kinds /\ Goto(r, "lookup")
      /\ kind' = [kind EXCEPT ![r] = "activate"]
      /\ UNCHANGED <<db, mailed, who, id, mail>>
  BY DEF IInv, StartActivate, Req, Registering
<1>2. PICK t \in mailed \cup {None} : token' = [token EXCEPT ![r] = t]
  BY DEF StartActivate
<1>3. /\ TypeOK' /\ \A q \in Requests \ {r} : Same(q)
      /\ pc'[r] = "lookup" /\ kind'[r] = "activate" /\ token'[r] \in mailed \cup {None}
  BY <1>1, <1>2 DEF TypeOK, Same, Goto, db, Active
<1>4. Req(r)' /\ RowStep(r)
  BY <1>1, <1>3 DEF Req, Registering, Activating, RowStep, db
<1> QED
  BY <1>1, <1>3, <1>4, StepKeeps

LEMMA GetByTokenKeeps ==
  ASSUME IInv, NEW r \in Requests, GetByToken(r) PROVE IInv'
<1>1. /\ TypeOK /\ Req(r) /\ pc[r] = "lookup" /\ kind[r] = "activate"
      /\ mail[r] = "no" /\ Issue
      /\ UNCHANGED <<db, mailed, request, token, mail>>
  BY DEF IInv, GetByToken, Req, Registering, Activating, TypeOK
<1>2. CASE UNCHANGED id /\ \E l \in {"404", "500"} : Goto(r, l)
  <2>1. TypeOK' /\ pc'[r] \in {"404", "500"} /\ \A q \in Requests \ {r} : Same(q)
    BY <1>1, <1>2 DEF TypeOK, Same, Goto, request, db, Answers
  <2>2. Req(r)' /\ RowStep(r)
    BY <1>1, <1>2, <2>1 DEF Req, Registering, Activating, RowStep, request, db
  <2> QED
    BY <1>1, <1>2, <2>1, <2>2, StepKeeps DEF request
<1>3. CASE /\ Usable(token[r]) /\ Goto(r, "update")
           /\ id' = [id EXCEPT ![r] = owner[token[r]]]
  <2>1. token[r] \in tokens /\ token[r] \in Tokens /\ owner[token[r]] \in Ids /\ token[r] # None
    BY <1>1, <1>3, AccountsAssumption DEF Usable, TypeOK, Issue, AccountsAssumption
  <2>2. /\ TypeOK' /\ pc'[r] = "update" /\ id'[r] = owner[token[r]]
        /\ \A q \in Requests \ {r} : Same(q)
    BY <1>1, <1>3, <2>1 DEF TypeOK, Same, Goto, request, db, Active
  <2>3. Req(r)' /\ RowStep(r)
    BY <1>1, <2>1, <2>2 DEF Req, Registering, Activating, RowStep, request, db
  <2> QED
    BY <1>1, <2>2, <2>3, StepKeeps DEF request
<1> QED
  BY <1>2, <1>3 DEF GetByToken, Holders

LEMMA UpdateUserKeeps ==
  ASSUME IInv, NEW r \in Requests, UpdateUser(r) PROVE IInv'
<1>1. /\ TypeOK /\ Req(r) /\ pc[r] = "update" /\ kind[r] = "activate" /\ mail[r] = "no"
      /\ token[r] \in mailed /\ owner[token[r]] = id[r] /\ Issue
      /\ UNCHANGED <<name, owner, tokens, expired, mailed, request, id, token, mail>>
  BY DEF IInv, UpdateUser, Req, Registering, Activating, TypeOK
<1>2. PICK l \in {"delete", "500"} :
        /\ Goto(r, l) /\ activated' \in {activated, activated \cup {id[r]}}
        /\ l = "delete" => id[r] \in activated'
  BY DEF UpdateUser
<1>3. id[r] \in Ids
  BY <1>1 DEF Issue, TypeOK
<1>4. TypeOK' /\ pc'[r] = l /\ \A q \in Requests \ {r} : Same(q)
  BY <1>1, <1>2, <1>3 DEF TypeOK, Same, Goto, request, Active, Answers
<1>5. Req(r)' /\ RowStep(r)
  BY <1>1, <1>2, <1>4 DEF Req, Registering, Activating, RowStep, request
<1> QED
  BY <1>1, <1>4, <1>5, StepKeeps DEF request

LEMMA DeleteTokensKeeps ==
  ASSUME IInv, NEW r \in Requests, DeleteTokens(r) PROVE IInv'
<1>1. /\ TypeOK /\ Req(r) /\ pc[r] = "delete" /\ kind[r] = "activate" /\ mail[r] = "no"
      /\ id[r] \in activated
      /\ UNCHANGED <<name, activated, owner, expired, mailed, request, id, token, mail>>
  BY DEF IInv, DeleteTokens, Req, Registering, Activating, TypeOK
<1>2. PICK l \in {"200", "500"} :
        /\ Goto(r, l) /\ tokens' \in {tokens, tokens \ Spent(r)}
        /\ l = "200" => tokens' = tokens \ Spent(r)
  BY DEF DeleteTokens
<1>3. TypeOK' /\ pc'[r] = l /\ \A q \in Requests \ {r} : Same(q)
  BY <1>1, <1>2 DEF TypeOK, Same, Goto, request, Active, Answers
<1>4. Req(r)'
  BY <1>1, <1>2, <1>3 DEF Req, Registering, Activating, Spent, request
<1>5. RowStep(r)
  BY <1>1, <1>2 DEF RowStep, Spent
<1> QED
  BY <1>1, <1>3, <1>4, <1>5, StepKeeps DEF request

LEMMA LoginKeeps ==
  ASSUME IInv, NEW r \in Requests, Login(r) PROVE IInv'
<1>1. /\ TypeOK /\ Req(r) /\ pc[r] = "idle" /\ mail[r] = "no" /\ kind[r] = "none"
      /\ kind' = [kind EXCEPT ![r] = "login"] /\ "login" \in Kinds
      /\ UNCHANGED <<db, mailed, token, mail>>
  BY DEF IInv, Login, Req, Registering
<1>2. PICK w \in Names, l \in {"200", "401", "500"}, i \in Ids \cup {None} :
        /\ who' = [who EXCEPT ![r] = w] /\ Goto(r, l)
        /\ id' = [id EXCEPT ![r] = i] \/ UNCHANGED id
  BY DEF Login
<1>3. TypeOK' /\ pc'[r] = l /\ kind'[r] = "login" /\ \A q \in Requests \ {r} : Same(q)
  BY <1>1, <1>2 DEF TypeOK, Same, Goto, db, Answers
<1>4. Req(r)' /\ RowStep(r)
  BY <1>1, <1>3 DEF Req, Registering, Activating, RowStep, db
<1> QED
  BY <1>1, <1>3, <1>4, StepKeeps
LEMMA ExpireKeeps ==
  ASSUME IInv, NEW t \in Tokens, Expire(t) PROVE IInv'
BY DEF IInv, Expire, TypeOK, Req, Registering, Activating, Taken, NamesOnce, Registered,
       MadeOnce, Issue, Owned, Left, ActivatedByMail, request

LEMMA CrashKeeps ==
  ASSUME IInv, Crash PROVE IInv'
<1>1. /\ TypeOK /\ \A r \in Requests : Req(r)
      /\ UNCHANGED <<db, mailed, request, id, token>>
      /\ pc' = [r \in Requests |-> IF pc[r] \in Active THEN "lost" ELSE pc[r]]
      /\ mail' = [r \in Requests |-> IF mail[r] = "sending" THEN "over" ELSE mail[r]]
  BY DEF IInv, Crash
<1>2. TypeOK'
  BY <1>1 DEF TypeOK, request, db, Answers
<1>3. ASSUME NEW r \in Requests PROVE Req(r)'
  <2>1. /\ pc'[r] = IF pc[r] \in Active THEN "lost" ELSE pc[r]
        /\ mail'[r] = IF mail[r] = "sending" THEN "over" ELSE mail[r]
    BY <1>1
  <2> QED
    BY <1>1, <2>1 DEF Req, Registering, Activating, Taken, Active, request, db
<1>4. (NamesOnce /\ Registered /\ MadeOnce /\ Issue /\ Owned /\ Left /\ ActivatedByMail)'
  BY <1>1 DEF IInv, NamesOnce, Registered, MadeOnce, Issue, Owned, Left, ActivatedByMail,
              request, db
<1> QED
  BY <1>2, <1>3, <1>4 DEF IInv

LEMMA NextInv == IInv /\ [Next]_vars => IInv'
<1> SUFFICES ASSUME IInv, [Next]_vars PROVE IInv'
  OBVIOUS
<1>1. ASSUME NEW r \in Requests, StartRegister(r) \/ StartActivate(r) \/ Login(r) \/ Handle(r)
      PROVE  IInv'
  BY <1>1, StartRegisterKeeps, StartActivateKeeps, LoginKeeps, CreateUserKeeps, NewTokenKeeps,
     AnswerKeeps, SendMailKeeps, GetByTokenKeeps, UpdateUserKeeps, DeleteTokensKeeps DEF Handle
<1>2. ASSUME NEW t \in Tokens, Expire(t) PROVE IInv'
  BY <1>2, ExpireKeeps
<1>3. CASE Crash
  BY <1>3, CrashKeeps
<1>4. CASE UNCHANGED vars
  BY <1>4 DEF IInv, TypeOK, Req, Registering, Activating, Taken, NamesOnce, Registered,
              MadeOnce, Issue, Owned, Left, ActivatedByMail, vars, request, db
<1> QED
  BY <1>1, <1>2, <1>3, <1>4 DEF Next, Quiet

(* The invariant holds for any number of requests, names and tokens, with    *)
(* any mailer, with and without faults.                                      *)
THEOREM Invariance == Spec => []IInv
BY InitInv, NextInv, PTL DEF Spec

(* The rows and the requests have the types TypeOK gives them. *)
THEOREM TypeCorrect == Spec => []TypeOK
<1>1. IInv => TypeOK
  BY DEF IInv
<1> QED
  BY <1>1, Invariance, PTL

(* What register answers is true of the store, however many register the     *)
(* same name at once (auth.go:99-121).                                       *)
THEOREM RegisterToldTrue == Spec => []RegisterTold
<1>1. IInv => RegisterTold
  <2> SUFFICES ASSUME IInv, NEW r \in Requests, kind[r] = "register"
               PROVE  /\ pc[r] \in {"201", "400"} => Cardinality({i \in Ids : name[i] = who[r]}) = 1
                      /\ pc[r] = "201" => name[id[r]] = who[r]
                      /\ pc[r] = "400" => id[r] = None
    BY DEF RegisterTold
  <2>1. Registering(r) /\ who[r] \in Names /\ who[r] # None
    BY AccountsAssumption DEF IInv, Req, Registering, AccountsAssumption
  <2>2. ASSUME pc[r] \in {"201", "400"} PROVE Cardinality({i \in Ids : name[i] = who[r]}) = 1
    <3>1. PICK i \in Ids : name[i] = who[r]
      BY <2>1, <2>2 DEF IInv, TypeOK, Registering, Taken
    <3>2. {j \in Ids : name[j] = who[r]} = {i}
      BY <2>1, <3>1 DEF IInv, NamesOnce
    <3> QED
      BY <3>2, FS_Singleton
  <2> QED
    BY <2>1, <2>2 DEF Registering
<1> QED
  BY <1>1, Invariance, PTL

(* Nobody is activated but by a token mailed to him (auth.go:237). *)
THEOREM ActivatedOnlyByMail == Spec => []ActivatedByMail
<1>1. IInv => ActivatedByMail
  BY DEF IInv
<1> QED
  BY <1>1, Invariance, PTL

(* An account that is not activated has a token that GetByToken accepts and  *)
(* that was, or is being, mailed, or its register can say why not: it broke  *)
(* off, the mail did not go out, or the token's time is over                 *)
(* (auth.go:99-146, 249-264, users.go:186).                                  *)
THEOREM NoneStranded == Spec => []StrandedExplained
<1>1. IInv => StrandedExplained
  <2> SUFFICES ASSUME IInv, NEW i \in Ids \ activated, name[i] # None, ~Excuse(i) PROVE Hope(i)
    BY DEF StrandedExplained
  <2>1. PICK r \in Requests : kind[r] = "register" /\ id[r] = i
    BY DEF IInv, Registered
  <2>2. i # None
    BY AccountsAssumption DEF AccountsAssumption
  <2>3. /\ pc[r] \notin {"token", "500", "lost"}
        /\ mail[r] = "over" => token[r] \in mailed
        /\ token[r] \notin expired
    BY <2>1 DEF Excuse
  <2>4. pc[r] \in {"answer", "201"}
    <3>1. Req(r)
      BY DEF IInv
    <3>2. pc[r] \notin {"idle", "create", "400", "lookup", "update", "delete"}
      BY <2>1, <2>2, <3>1 DEF Req, Registering, Activating
    <3>3. pc[r] \notin {"200", "401", "404"}
      BY <2>1, <3>1 DEF Req, Registering
    <3> QED
      BY <2>3, <3>2, <3>3 DEF IInv, TypeOK, Active, Answers
  <2>5. /\ mail[r] \in {"sending", "over"} /\ token[r] # None /\ owner[token[r]] = i
        /\ token[r] \in Tokens
    BY <2>1, <2>4 DEF IInv, TypeOK, Req, Registering
  <2>6. token[r] \in tokens
    BY <2>2, <2>5 DEF IInv, Left
  <2> QED
    BY <2>3, <2>5, <2>6 DEF Hope, Usable, Sending
<1> QED
  BY <1>1, Invariance, PTL

(* A 200 of activateUser is true: the account is activated, and no token of  *)
(* it is left (auth.go:249-264).                                             *)
THEOREM ActivatedForGood == Spec => []ActivatedOnce
<1>1. IInv => ActivatedOnce
  BY DEF IInv, Req, Activating, ActivatedOnce
<1> QED
  BY <1>1, Invariance, PTL

-----------------------------------------------------------------------------
(* Accounts implements AccountLife: each step is one step of one account, or *)
(* none.                                                                     *)
LEMMA LifeKept ==
  ASSUME UNCHANGED <<name, activated, owner, mailed>>
  PROVE  UNCHANGED life
BY DEF life, LifeOf

(* What a step that says how it moves the account of one name is to AccountLife. *)
LEMMA LifeMoves ==
  ASSUME NEW n \in Names, \A m \in Names \ {n} : LifeOf(m)' = LifeOf(m),
         \/ LifeOf(n)' = LifeOf(n)
         \/ LifeOf(n) = "free" /\ LifeOf(n)' = "named"
         \/ Mailer = "api" /\ LifeOf(n) = "named" /\ LifeOf(n)' = "mailed"
         \/ LifeOf(n) = "mailed" /\ LifeOf(n)' = "active"
  PROVE  [L!Next]_life
<1>1. life' = [life EXCEPT ![n] = LifeOf(n)'] /\ life[n] = LifeOf(n)
  BY DEF life
<1>2. CASE LifeOf(n)' = LifeOf(n)
  BY <1>2 DEF life
<1>3. CASE LifeOf(n) = "free" /\ LifeOf(n)' = "named"
  BY <1>1, <1>3 DEF L!Next, L!Register, L!Step
<1>4. CASE Mailer = "api" /\ LifeOf(n) = "named" /\ LifeOf(n)' = "mailed"
  BY <1>1, <1>4 DEF L!Next, L!Mail, L!Step
<1>5. CASE LifeOf(n) = "mailed" /\ LifeOf(n)' = "active"
  BY <1>1, <1>5 DEF L!Next, L!Activate, L!Step
<1> QED
  BY <1>2, <1>3, <1>4, <1>5

(* Who is activated, or was mailed a token, has a row. *)
LEMMA Rowed ==
  ASSUME IInv
  PROVE  /\ \A t \in mailed : t \in Tokens /\ owner[t] \in Ids /\ name[owner[t]] \in Names
         /\ \A i \in activated : /\ i \in Ids /\ name[i] \in Names
                                 /\ \E t \in mailed : owner[t] = i
<1>1. /\ TypeOK /\ Issue /\ Owned /\ ActivatedByMail
      /\ None \notin Ids /\ None \notin Names
  BY AccountsAssumption DEF IInv, AccountsAssumption
<1>2. \A t \in mailed : t \in Tokens /\ owner[t] \in Ids /\ name[owner[t]] \in Names
  <2> SUFFICES ASSUME NEW t \in mailed
               PROVE  t \in Tokens /\ owner[t] \in Ids /\ name[owner[t]] \in Names
    OBVIOUS
  <2>1. t \in Tokens /\ owner[t] \in Ids
    BY <1>1 DEF TypeOK, Issue
  <2> QED
    BY <1>1, <2>1 DEF TypeOK, Owned
<1> QED
  BY <1>1, <1>2 DEF ActivatedByMail

LEMMA CreateUserRefines ==
  ASSUME IInv, NEW r \in Requests, CreateUser(r) PROVE [L!Next]_life
<1>1. /\ TypeOK /\ who[r] \in Names /\ UNCHANGED <<activated, owner, mailed>>
      /\ None \notin Names
  BY AccountsAssumption DEF IInv, CreateUser, Req, Registering, AccountsAssumption
<1>2. PICK w \in Names : w = who[r]
  BY <1>1
<1>3. CASE UNCHANGED name
  BY <1>1, <1>3, LifeKept
<1>4. ASSUME NEW i \in Unused, name' = [name EXCEPT ![i] = w], ~Taken(w)
      PROVE  [L!Next]_life
  <2>1. /\ i \in Ids /\ name[i] = None /\ name'[i] = w
        /\ \A j \in Ids \ {i} : name'[j] = name[j]
    BY <1>1, <1>4 DEF Unused, TypeOK
  <2>2. i \notin activated /\ \A t \in mailed : owner[t] # i
    BY <1>1, <2>1, Rowed
  <2>3. /\ \A j \in activated : name'[j] = name[j]
        /\ \A t \in mailed : name'[owner[t]] = name[owner[t]]
    BY <2>1, <2>2, Rowed
  <2>4. \A j \in Ids : name[j] # w
    BY <1>4 DEF Taken
  <2>5. LifeOf(w) = "free"
    BY <2>4, Rowed DEF LifeOf
  <2>6. LifeOf(w)' = "named"
    <3>1. \A j \in activated : name'[j] # w
      BY <2>3, <2>4, Rowed
    <3>2. \A t \in mailed : name'[owner[t]] # w
      BY <2>3, <2>4, Rowed
    <3> QED
      BY <1>1, <2>1, <3>1, <3>2 DEF LifeOf
  <2>7. ASSUME NEW m \in Names \ {w} PROVE LifeOf(m)' = LifeOf(m)
    <3>1. (\E j \in Ids : name'[j] = m) <=> (\E j \in Ids : name[j] = m)
      BY <1>1, <2>1
    <3> QED
      BY <1>1, <2>3, <3>1 DEF LifeOf
  <2> QED
    BY <1>1, <2>5, <2>6, <2>7, LifeMoves
<1> QED
  BY <1>3, <1>4, <1>2 DEF CreateUser

LEMMA NewTokenRefines ==
  ASSUME IInv, NEW r \in Requests, NewToken(r) PROVE [L!Next]_life
<1>1. UNCHANGED <<name, activated, mailed>>
  BY DEF NewToken
<1>2. \A t \in mailed : owner'[t] = owner[t]
  <2>1. \A t \in mailed : t \in Tokens /\ t \notin Unissued
    BY DEF IInv, TypeOK, Issue, Unissued
  <2> QED
    BY <2>1 DEF NewToken, IInv, TypeOK
<1>3. UNCHANGED life
  BY <1>1, <1>2 DEF life, LifeOf
<1> QED
  BY <1>3

LEMMA SendMailRefines ==
  ASSUME IInv, NEW r \in Requests, SendMail(r) PROVE [L!Next]_life
<1>1. UNCHANGED <<name, activated, owner>>
  BY DEF SendMail, db
<1>2. CASE mailed' = mailed
  BY <1>1, <1>2, LifeKept
<1>3. CASE Mailer = "api" /\ mailed' = mailed \cup {token[r]}
  <2>1. PICK t \in Tokens, n \in Names : t = token[r] /\ owner[t] \in Ids /\ name[owner[t]] = n
    <3>1. mail[r] = "sending" /\ TypeOK /\ Req(r) /\ Owned
      BY DEF IInv, SendMail
    <3>2. token[r] \in Tokens /\ owner[token[r]] \in Ids
      BY <3>1 DEF TypeOK, Req, Registering
    <3> QED
      BY <3>1, <3>2, AccountsAssumption DEF TypeOK, Owned, AccountsAssumption
  <2>2. owner[t] # None
    BY <2>1, AccountsAssumption DEF AccountsAssumption
  <2>3. \A m \in Names \ {n} : LifeOf(m)' = LifeOf(m)
    BY <1>1, <1>3, <2>1 DEF LifeOf
  <2>4. LifeOf(n) = "active" => LifeOf(n)' = "active"
    BY <1>1 DEF LifeOf
  <2>5. LifeOf(n) # "active" => LifeOf(n)' = "mailed" /\ LifeOf(n) \in {"named", "mailed"}
    <3>1. \E x \in mailed' : owner'[x] # None /\ name'[owner'[x]] = n
      BY <1>1, <1>3, <2>1, <2>2
    <3> QED
      BY <1>1, <2>1, <3>1 DEF LifeOf
  <2> QED
    BY <1>3, <2>1, <2>3, <2>4, <2>5, LifeMoves
<1> QED
  BY <1>2, <1>3 DEF SendMail

LEMMA UpdateUserRefines ==
  ASSUME IInv, NEW r \in Requests, UpdateUser(r) PROVE [L!Next]_life
<1>1. UNCHANGED <<name, owner, mailed>>
  BY DEF UpdateUser
<1>2. CASE activated' = activated
  BY <1>1, <1>2, LifeKept
<1>3. CASE activated' = activated \cup {id[r]}
  <2>1. PICK t \in mailed, n \in Names : owner[t] = id[r] /\ owner[t] # None /\ n = name[id[r]]
    <3>1. pc[r] = "update" /\ Req(r)
      BY DEF IInv, UpdateUser
    <3>2. token[r] \in mailed /\ owner[token[r]] = id[r]
      BY <3>1 DEF Req, Activating
    <3> QED
      BY <3>2, Rowed, AccountsAssumption DEF AccountsAssumption
  <2>2. \A m \in Names \ {n} : LifeOf(m)' = LifeOf(m)
    BY <1>1, <1>3, <2>1 DEF LifeOf
  <2>3. LifeOf(n)' = "active"
    BY <1>1, <1>3, <2>1 DEF LifeOf
  <2>4. LifeOf(n) \in {"mailed", "active"}
    BY <2>1 DEF LifeOf
  <2> QED
    BY <2>1, <2>2, <2>3, <2>4, LifeMoves
<1> QED
  BY <1>2, <1>3 DEF UpdateUser

LEMMA NextRefines == IInv /\ [Next]_vars => [L!Next]_life
<1> SUFFICES ASSUME IInv, [Next]_vars PROVE [L!Next]_life
  OBVIOUS
<1>1. ASSUME NEW r \in Requests,
             \/ StartRegister(r) \/ StartActivate(r) \/ Login(r) \/ Answer(r)
             \/ GetByToken(r) \/ DeleteTokens(r)
      PROVE  [L!Next]_life
  <2>1. UNCHANGED <<name, activated, owner, mailed>>
    BY <1>1 DEF StartRegister, StartActivate, Login, Answer, GetByToken, DeleteTokens, db
  <2> QED
    BY <2>1, LifeKept
<1>2. CASE Crash \/ UNCHANGED vars \/ \E t \in Tokens : Expire(t)
  <2>1. UNCHANGED <<name, activated, owner, mailed>>
    BY <1>2 DEF Crash, Expire, vars, db
  <2> QED
    BY <2>1, LifeKept
<1> QED
  BY <1>1, <1>2, CreateUserRefines, NewTokenRefines, SendMailRefines, UpdateUserRefines
  DEF Next, Handle, Quiet

LEMMA InitRefines == Init => L!Init
BY AccountsAssumption DEF Init, L!Init, life, LifeOf, AccountsAssumption

(* Whatever registers, activations, logins, mails and crashes overlap, the    *)
(* account of a name comes to be, is sent its token and is activated, in this *)
(* order, once, and where no mail is sent never: Accounts implements          *)
(* AccountLife.                                                               *)
THEOREM Refinement == Spec => AccountLifeSpec
BY InitRefines, NextRefines, Invariance, PTL DEF Spec, AccountLifeSpec, L!Spec
=============================================================================
