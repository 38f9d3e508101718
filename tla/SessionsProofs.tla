--------------------------- MODULE SessionsProofs ---------------------------
(***************************************************************************)
(* Theorems about Sessions and their proofs: a refresh token serves once,  *)
(* the keys of a pair go only by lapse, logout or refresh, and who is      *)
(* served as a user holds a pair of that user.                             *)
(***************************************************************************)
EXTENDS Sessions, TLAPS

(* Where a handler is, and as whom it serves what it was presented. *)
Req(r) ==
  /\ pc[r] = "idle" <=> kind[r] = "none"
  /\ pc[r] = "lookup" => kind[r] \in {"refresh", "api", "feed"}
  /\ pc[r] = "spend" => kind[r] = "refresh"
  /\ pc[r] \in {"setAccess", "setRefresh"} => kind[r] \in {"login", "refresh"}
  /\ pc[r] \in {"loadUser", "granted"} => kind[r] \in {"api", "feed"}
  /\ pc[r] \in {"dropAccess", "dropRefresh"} => kind[r] = "logout"
  /\ kind[r] = "refresh" => ref[r] \in given
  /\ kind[r] \in {"api", "feed"} => acc[r] \in given
  /\ kind[r] = "logout" => acc[r] \in given /\ ref[r] \in given
  /\ pc[r] \in {"spend", "setAccess"} =>
       user[r] \in Users /\ (kind[r] = "refresh" => user[r] = subject[ref[r]])
  /\ pc[r] \in {"loadUser", "granted"} => user[r] = subject[acc[r]]

(* The pair a request has issued, and whether a client has it. *)
Issue(r) ==
  /\ pc[r] = "setRefresh" =>
       new[r] # None /\ new[r] \notin given /\ <<"access:", new[r]>> \in valkey \cup lapsed
  /\ new[r] # None =>
       /\ pc[r] \in {"setRefresh", "200", "201", "500", "lost"}
       /\ kind[r] \in {"login", "refresh"}
       /\ new[r] \in given => pc[r] \in {"200", "201"}
       /\ user[r] \in Users /\ subject[new[r]] = user[r]
       /\ kind[r] = "refresh" => subject[ref[r]] = user[r]

(* A refresh that is past its Delete has spent its token. *)
Spent(r) ==
  kind[r] = "refresh" /\ pc[r] \in {"setAccess", "setRefresh", "201"} /\ r \notin unspent
    => <<"refresh:", ref[r]>> \notin valkey

Before(r) ==
  \A q \in before[r] : q \in Requests /\ kind[q] = "refresh" /\ pc[q] = "201" /\ kind[r] = "refresh"

UsedOnce(r) ==
  \A q \in before[r] \ unspent : ref[q] = ref[r] => pc[r] \in {"lookup", "401", "lost"}

Lasts(t) ==
  /\ subject[t] # None
  /\ \/ <<"access:", t>> \in valkey \cup lapsed
     \/ \E r \in Requests : LogoutOf(r, t)
  /\ \/ <<"refresh:", t>> \in valkey \cup lapsed
     \/ \E r \in Requests : LogoutOf(r, t) \/ SpentBy(r, t)

IInv ==
  /\ TypeOK
  /\ \A r \in Requests : Req(r) /\ Issue(r) /\ Spent(r) /\ Before(r) /\ UsedOnce(r)
  /\ \A q, r \in Requests : q # r /\ new[q] = new[r] => new[q] = None
  /\ \A t \in given : Lasts(t)

-----------------------------------------------------------------------------
LEMMA InitInv == Init => IInv
<1> SUFFICES ASSUME Init PROVE IInv
  OBVIOUS
<1>1. TypeOK
  BY SessionsAssumption DEF Init, TypeOK, Keys, Prefixes
<1>2. ASSUME NEW t \in given PROVE Lasts(t)
  BY <1>2 DEF Init, Lasts
<1>3. \A r \in Requests : Req(r) /\ Issue(r) /\ Spent(r) /\ Before(r) /\ UsedOnce(r)
  BY DEF Init, Req, Issue, Spent, Before, UsedOnce
<1> QED
  BY <1>1, <1>2, <1>3 DEF Init, IInv

(* A step of r leaves the other requests as they are. *)
Same(q) ==
  /\ pc'[q] = pc[q] /\ kind'[q] = kind[q] /\ acc'[q] = acc[q] /\ ref'[q] = ref[q]
  /\ new'[q] = new[q] /\ user'[q] = user[q] /\ before'[q] = before[q]
  /\ q \in unspent' <=> q \in unspent

(* A step of r takes the keys of a pair only as a logout or a refresh of it, *)
(* and gives none back.                                                      *)
Keeps(r) ==
  /\ \A t \in Tokens : <<"access:", t>> \in valkey \cup lapsed =>
       <<"access:", t>> \in valkey' \cup lapsed' \/ (t \in given /\ LogoutOf(r, t)')
  /\ \A t \in given :
       /\ <<"refresh:", t>> \in valkey \cup lapsed =>
            <<"refresh:", t>> \in valkey' \cup lapsed' \/ LogoutOf(r, t)' \/ SpentBy(r, t)'
       /\ <<"refresh:", t>> \in valkey' => <<"refresh:", t>> \in valkey
       /\ (LogoutOf(r, t) => LogoutOf(r, t)') /\ (SpentBy(r, t) => SpentBy(r, t)')

(* What a step of r has to keep for the invariant to hold of the others. *)
LEMMA StepKeeps ==
  ASSUME IInv, TypeOK', NEW r \in Requests, pc[r] \in {"idle"} \cup Active,
         \A q \in Requests \ {r} : Same(q),
         Req(r)', Issue(r)', Spent(r)', Before(r)', UsedOnce(r)',
         \A t \in Tokens : subject[t] # None => subject'[t] = subject[t],
         new'[r] # None => new'[r] = new[r] \/ new'[r] \in Unissued,
         given \subseteq given',
         \A t \in given' \ given : t = new[r] /\ Lasts(t)',
         Keeps(r)
  PROVE  IInv'
<1>1. /\ TypeOK /\ \A q \in Requests : Req(q) /\ Issue(q) /\ Spent(q) /\ Before(q) /\ UsedOnce(q)
      /\ \A p, q \in Requests : p # q /\ new[p] = new[q] => new[p] = None
      /\ \A t \in given : Lasts(t)
  BY DEF IInv
<1>2. given \subseteq Tokens /\ given' \subseteq Tokens
  BY <1>1 DEF TypeOK
<1>3. ASSUME NEW q \in Requests \ {r} PROVE Req(q)'
  <2>1. \A t \in given : subject'[t] = subject[t]
    BY <1>1, <1>2 DEF Lasts
  <2> QED
    BY <1>1, <1>3, <2>1 DEF Same, Req
<1>4. ASSUME NEW q \in Requests, new[q] # None PROVE subject[new[q]] # None
  <2>1. subject[new[q]] \in Users
    BY <1>1, <1>4 DEF Issue
  <2> QED
    BY <2>1, SessionsAssumption DEF SessionsAssumption
<1>5. ASSUME NEW q \in Requests \ {r} PROVE Issue(q)'
  <2>1. new[q] \in Tokens \cup {None}
    BY <1>1 DEF TypeOK
  <2>2. new[q] # None => (new[q] \in given' <=> new[q] \in given)
    BY <1>1
  <2>3. kind[q] = "refresh" => subject'[ref[q]] = subject[ref[q]]
    BY <1>1, <1>2 DEF Req, Lasts
  <2>4. new[q] # None => subject'[new[q]] = subject[new[q]]
    BY <1>4, <2>1
  <2>5. pc[q] = "setRefresh" => <<"access:", new[q]>> \in valkey' \cup lapsed'
    BY <1>1, <2>1 DEF Keeps, Issue
  <2> QED
    BY <1>1, <1>5, <2>2, <2>3, <2>4, <2>5 DEF Same, Issue
<1>6. ASSUME NEW q \in Requests \ {r} PROVE Spent(q)'
  BY <1>1, <1>6 DEF Keeps, Same, Spent, Req
<1>7. ASSUME NEW q \in Requests \ {r} PROVE Before(q)' /\ UsedOnce(q)'
  <2>1. r \notin before[q]
    BY <1>1 DEF Before, Active
  <2> QED
    BY <1>1, <1>7, <2>1 DEF Same, Before, UsedOnce
<1>8. ASSUME NEW p \in Requests, NEW q \in Requests, p # q, new'[p] = new'[q] PROVE new'[p] = None
  <2>1. ASSUME NEW s \in Requests \ {r}, new[s] # None PROVE new[s] # new'[r]
    <3>1. new[s] # new[r] /\ new[s] \notin Unissued
      BY <1>1, <1>4, <2>1 DEF Unissued
    <3> QED
      BY <2>1, <3>1
  <2> QED
    BY <1>1, <1>8, <2>1 DEF Same
<1>9. ASSUME NEW t \in given PROVE Lasts(t)'
  <2>1. ASSUME NEW q \in Requests
        PROVE  (LogoutOf(q, t) => LogoutOf(q, t)') /\ (SpentBy(q, t) => SpentBy(q, t)')
    <3>1. CASE q = r
      BY <3>1 DEF Keeps
    <3>2. CASE q # r
      BY <3>2 DEF Same, LogoutOf, SpentBy
    <3> QED
      BY <3>1, <3>2
  <2>2. Lasts(t) /\ t \in Tokens /\ subject'[t] = subject[t]
    BY <1>1, <1>2 DEF Lasts
  <2>3. \/ <<"access:", t>> \in valkey' \cup lapsed'
        \/ \E q \in Requests : LogoutOf(q, t)'
    BY <2>1, <2>2 DEF Keeps, Lasts
  <2>4. \/ <<"refresh:", t>> \in valkey' \cup lapsed'
        \/ \E q \in Requests : LogoutOf(q, t)' \/ SpentBy(q, t)'
    BY <2>1, <2>2 DEF Keeps, Lasts
  <2> QED
    BY <2>2, <2>3, <2>4 DEF Lasts
<1> QED
  BY <1>3, <1>5, <1>6, <1>7, <1>8, <1>9 DEF IInv
-----------------------------------------------------------------------------
(* A request that starts with a handler that refreshes nothing, or anew.     *)
LEMMA StartKeeps ==
  ASSUME IInv, NEW r \in Requests, Start(r) PROVE IInv'
<1>1. /\ TypeOK /\ pc[r] = "idle" /\ kind[r] = "none" /\ new[r] = None
      /\ \A q \in Requests : Req(q) /\ Issue(q) /\ Before(q)
      /\ UNCHANGED <<store, subject, given, new, unspent>>
  BY DEF IInv, Req, Issue, Start, StartLogin, StartRefresh, StartLogout, StartAccess, Begin
<1>2. PICK k \in Kinds :
        /\ kind' = [kind EXCEPT ![r] = k]
        /\ before' = [before EXCEPT ![r] =
             IF k = "refresh" THEN {q \in Requests : kind[q] = "refresh" /\ pc[q] = "201"} ELSE {}]
        /\ k \in {"login"} => /\ UNCHANGED <<acc, ref>>
                            /\ \/ pc'[r] = "setAccess" /\ user'[r] \in Users
                               \/ pc'[r] \in {"401", "500"}
        /\ k # "login" => UNCHANGED user
        /\ k = "refresh" => ref'[r] \in given /\ pc'[r] = "lookup"
        /\ k = "logout" => acc'[r] \in given /\ ref'[r] \in given /\ pc'[r] = "dropAccess"
        /\ k \in {"api", "feed"} => acc'[r] \in given /\ pc'[r] = "lookup"
  BY <1>1 DEF Start, StartLogin, StartRefresh, StartLogout, StartAccess, Begin, Goto, Kinds, TypeOK
<1>3. TypeOK' /\ \A q \in Requests \ {r} : Same(q)
  <2>1. CASE StartLogin(r)
    BY <1>1, <2>1 DEF StartLogin, Begin, Goto, TypeOK, Same, store, Active, Ended, Kinds
  <2>2. CASE StartRefresh(r)
    BY <1>1, <2>2 DEF StartRefresh, Begin, Goto, TypeOK, Same, store, Active, Kinds
  <2>3. CASE StartLogout(r)
    BY <1>1, <2>3 DEF StartLogout, Begin, Goto, TypeOK, Same, store, Active, Kinds
  <2>4. CASE StartAccess(r)
    BY <1>1, <2>4 DEF StartAccess, Begin, Goto, TypeOK, Same, store, Active, Kinds
  <2> QED
    BY <2>1, <2>2, <2>3, <2>4 DEF Start
<1>4. /\ kind'[r] = k
      /\ before'[r] = IF k = "refresh" THEN {q \in Requests : kind[q] = "refresh" /\ pc[q] = "201"} ELSE {}
  BY <1>1, <1>2 DEF TypeOK
<1>5. Req(r)' /\ Issue(r)' /\ Spent(r)'
  BY <1>1, <1>2, <1>4 DEF Req, Issue, Spent, Kinds
<1>6. Before(r)' /\ UsedOnce(r)'
  <2>1. \A q \in before'[r] : q \in Requests \ {r} /\ kind[q] = "refresh" /\ pc[q] = "201" /\ k = "refresh"
    BY <1>1, <1>4
  <2> QED
    BY <1>2, <1>3, <1>4, <2>1 DEF Before, UsedOnce, Same
<1>7. Keeps(r)
  BY <1>1 DEF Keeps, LogoutOf, SpentBy, store
<1> QED
  BY <1>1, <1>3, <1>5, <1>6, <1>7, StepKeeps DEF store

LEMMA LookupKeeps ==
  ASSUME IInv, NEW r \in Requests, Lookup(r) PROVE IInv'
<1>1. /\ TypeOK /\ pc[r] = "lookup" /\ pc[r] \in Active
      /\ Req(r) /\ Issue(r) /\ Before(r) /\ UsedOnce(r) /\ \A t \in given : Lasts(t)
      /\ \A q \in Requests : Spent(q)
      /\ UNCHANGED <<store, subject, given, request, new, unspent>>
  BY DEF IInv, Lookup, Active
<1>2. new[r] = None /\ kind[r] \in {"refresh", "api", "feed"}
  BY <1>1 DEF Req, Issue
<1>5. Keeps(r)
  BY <1>1, <1>2 DEF Keeps, LogoutOf, SpentBy, store
<1>3. CASE /\ Found(r)
           /\ Goto(r, IF kind[r] = "refresh" THEN "spend" ELSE "loadUser")
           /\ user' = [user EXCEPT ![r] = subject[IF kind[r] = "refresh" THEN ref[r] ELSE acc[r]]]
  <2> DEFINE t == IF kind[r] = "refresh" THEN ref[r] ELSE acc[r]
  <2>1. t \in given /\ t \in Tokens /\ subject[t] \in Users
    BY <1>1, <1>2 DEF Req, Lasts, TypeOK
  <2>2. pc'[r] = (IF kind[r] = "refresh" THEN "spend" ELSE "loadUser") /\ user'[r] = subject[t]
    BY <1>1, <1>3 DEF Goto, TypeOK
  <2>3. TypeOK' /\ \A q \in Requests \ {r} : Same(q)
    BY <1>1, <1>3, <2>1 DEF Goto, TypeOK, Same, store, request, Active
  <2>4. Req(r)' /\ Issue(r)' /\ Spent(r)' /\ Before(r)'
    BY <1>1, <1>2, <2>1, <2>2, <2>3 DEF Req, Issue, Spent, Before, Same, request, store
  <2>5. UsedOnce(r)'
    <3> SUFFICES ASSUME NEW q \in before[r] \ unspent, ref[q] = ref[r], kind[r] = "refresh" PROVE FALSE
      BY <1>1, <2>2 DEF UsedOnce, Before, request
    <3>1. <<"refresh:", ref[q]>> \notin valkey
      BY <1>1 DEF Before, Spent
    <3> QED
      BY <1>3, <3>1 DEF Found
  <2> QED
    BY <1>1, <1>2, <1>5, <2>2, <2>3, <2>4, <2>5, StepKeeps DEF store, request
<1>4. CASE Goto(r, Refused(r, "401")) /\ UNCHANGED user
  <2>1. pc'[r] = IF kind[r] = "feed" THEN "public" ELSE "401"
    BY <1>1, <1>4 DEF Goto, Refused, TypeOK
  <2>2. TypeOK' /\ \A q \in Requests \ {r} : Same(q)
    BY <1>1, <1>4 DEF Goto, Refused, TypeOK, Same, store, request, Ended
  <2>3. Req(r)' /\ Issue(r)' /\ Spent(r)' /\ Before(r)' /\ UsedOnce(r)'
    BY <1>1, <1>2, <2>1, <2>2 DEF Req, Issue, Spent, Before, UsedOnce, Same, request, store
  <2> QED
    BY <1>1, <1>2, <1>5, <2>1, <2>2, <2>3, StepKeeps DEF store, request
<1> QED
  BY <1>3, <1>4 DEF Lookup
LEMMA LoadUserKeeps ==
  ASSUME IInv, NEW r \in Requests, LoadUser(r) PROVE IInv'
<1>1. /\ TypeOK /\ pc[r] = "loadUser" /\ pc[r] \in Active
      /\ Req(r) /\ Issue(r) /\ Before(r)
      /\ UNCHANGED <<store, subject, given, request, new, user, unspent>>
  BY DEF IInv, LoadUser, Active
<1>2. new[r] = None /\ kind[r] \in {"api", "feed"}
  BY <1>1 DEF Req, Issue
<1>3. PICK l \in {"granted", "public", "500"} : Goto(r, l)
  BY DEF LoadUser, Refused
<1>4. pc'[r] = l /\ TypeOK' /\ \A q \in Requests \ {r} : Same(q)
  BY <1>1, <1>3 DEF Goto, TypeOK, Same, store, request, Ended
<1>5. Req(r)' /\ Issue(r)' /\ Spent(r)' /\ Before(r)' /\ UsedOnce(r)'
  BY <1>1, <1>2, <1>4 DEF Req, Issue, Spent, Before, UsedOnce, Same, request, store
<1>6. Keeps(r)
  BY <1>1, <1>2 DEF Keeps, LogoutOf, SpentBy, store
<1> QED
  BY <1>1, <1>2, <1>4, <1>5, <1>6, StepKeeps DEF store, request

LEMMA SpendKeeps ==
  ASSUME IInv, NEW r \in Requests, Spend(r) PROVE IInv'
<1>1. /\ TypeOK /\ pc[r] = "spend" /\ pc[r] \in Active /\ Goto(r, "setAccess")
      /\ Req(r) /\ Issue(r) /\ Before(r) /\ UsedOnce(r)
      /\ UNCHANGED <<lapsed, subject, given, request, new, user>>
  BY DEF IInv, Spend, Active
<1>2. new[r] = None /\ kind[r] = "refresh" /\ pc'[r] = "setAccess"
  BY <1>1 DEF Req, Issue, Goto, TypeOK
<1>3. \/ unspent' = unspent \cup {r} /\ valkey' = valkey
      \/ unspent' = unspent /\ valkey' = valkey \ {<<"refresh:", ref[r]>>}
  BY DEF Spend, SpentPrefix
<1>4. TypeOK' /\ \A q \in Requests \ {r} : Same(q)
  BY <1>1, <1>3 DEF Goto, TypeOK, Same, request, Active
<1>5. Req(r)' /\ Issue(r)'
  BY <1>1, <1>2 DEF Req, Issue, request
<1>6. Spent(r)'
  BY <1>1, <1>2, <1>3 DEF Spent, request
<1>7. Before(r)' /\ UsedOnce(r)'
  BY <1>1, <1>2, <1>3, <1>4 DEF Before, UsedOnce, Same, request
<1>8. \A t \in given : t = ref[r] => SpentBy(r, t)'
  <2>1. user[r] # None
    BY <1>1, SessionsAssumption DEF Req
  <2> QED
    BY <1>1, <1>2, <2>1 DEF SpentBy, request
<1>9. Keeps(r)
  <2>1. \A t \in Tokens :
          /\ <<"access:", t>> \in valkey' <=> <<"access:", t>> \in valkey
          /\ <<"refresh:", t>> \in valkey => <<"refresh:", t>> \in valkey' \/ t = ref[r]
          /\ <<"refresh:", t>> \in valkey' => <<"refresh:", t>> \in valkey
    BY <1>3
  <2>2. \A t \in given : t \in Tokens /\ ~LogoutOf(r, t) /\ ~SpentBy(r, t)
    BY <1>1, <1>2 DEF TypeOK, LogoutOf, SpentBy
  <2> QED
    BY <1>1, <1>8, <2>1, <2>2 DEF Keeps
<1> QED
  BY <1>1, <1>2, <1>3, <1>4, <1>5, <1>6, <1>7, <1>9, StepKeeps DEF request

LEMMA SetAccessKeeps ==
  ASSUME IInv, NEW r \in Requests, SetAccess(r) PROVE IInv'
<1>1. /\ TypeOK /\ pc[r] = "setAccess" /\ pc[r] \in Active
      /\ Req(r) /\ Issue(r) /\ Spent(r) /\ Before(r) /\ UsedOnce(r)
      /\ \A t \in given : Lasts(t)
      /\ UNCHANGED <<lapsed, request, user, unspent>>
  BY DEF IInv, SetAccess, Active
<1>2. PICK t \in Unissued, o \in {"ok", "late", "fail"} :
        /\ new' = [new EXCEPT ![r] = t]
        /\ subject' = [subject EXCEPT ![t] = user[r]]
        /\ valkey' = IF o = "fail" THEN valkey ELSE valkey \cup {<<"access:", t>>}
        /\ given' = given
        /\ Goto(r, IF o = "ok" THEN "setRefresh" ELSE "500")
        /\ o = "ok" \/ Faults
  BY DEF SetAccess, Outcomes, HandedAfter
<1>3. /\ new[r] = None /\ kind[r] \in {"login", "refresh"} /\ user[r] \in Users
      /\ pc'[r] = IF o = "ok" THEN "setRefresh" ELSE "500"
      /\ new'[r] = t /\ t \in Tokens /\ subject[t] = None /\ subject'[t] = user[r]
      /\ \A x \in Tokens \ {t} : subject'[x] = subject[x]
      /\ t \notin given /\ t # None
  BY <1>1, <1>2, SessionsAssumption
  DEF Req, Issue, Goto, TypeOK, Unissued, Lasts, SessionsAssumption
<1>4. TypeOK' /\ \A q \in Requests \ {r} : Same(q)
  BY <1>1, <1>2, <1>3 DEF Goto, TypeOK, Same, request, Active, Ended, Keys, Prefixes
<1>5. Req(r)' /\ Issue(r)'
  <2>1. kind[r] = "refresh" => ref[r] \in Tokens \ {t} /\ user[r] = subject[ref[r]]
    BY <1>1, <1>3 DEF Req, TypeOK
  <2>2. kind[r] = "refresh" => subject'[ref[r]] = user[r]
    BY <1>3, <2>1
  <2> QED
    BY <1>1, <1>2, <1>3, <2>2 DEF Req, Issue, request
<1>6. Spent(r)'
  BY <1>1, <1>2, <1>3 DEF Spent, request
<1>7. Before(r)' /\ UsedOnce(r)'
  BY <1>1, <1>3, <1>4 DEF Before, UsedOnce, Same, request
<1>8. \A x \in given : ~LogoutOf(r, x) /\ (SpentBy(r, x) => SpentBy(r, x)')
  BY <1>1, <1>2, <1>3 DEF LogoutOf, SpentBy, request
<1>9. Keeps(r)
  BY <1>2, <1>3, <1>8, <1>1 DEF Keeps
<1> QED
  BY <1>1, <1>2, <1>3, <1>4, <1>5, <1>6, <1>7, <1>9, StepKeeps DEF request

LEMMA SetRefreshKeeps ==
  ASSUME IInv, NEW r \in Requests, SetRefresh(r) PROVE IInv'
<1>1. /\ TypeOK /\ pc[r] = "setRefresh" /\ pc[r] \in Active
      /\ Req(r) /\ Issue(r) /\ Spent(r) /\ Before(r) /\ UsedOnce(r)
      /\ \A t \in given : Lasts(t)
      /\ UNCHANGED <<lapsed, subject, request, new, user, unspent>>
  BY DEF IInv, SetRefresh, Active
<1>2. PICK l \in {"200", "201", "500"} :
        /\ Goto(r, l)
        /\ valkey' \in {valkey, valkey \cup {<<"refresh:", new[r]>>}}
        /\ \/ l = "500" /\ given' = given /\ Faults
           \/ /\ l = (IF kind[r] = "login" THEN "200" ELSE "201") /\ given' = given \cup {new[r]}
              /\ <<"refresh:", new[r]>> \in valkey'
  BY DEF SetRefresh, Persisted, Outcomes
<1>3. /\ kind[r] \in {"login", "refresh"} /\ pc'[r] = l
      /\ new[r] \in Tokens /\ new[r] # None /\ new[r] \notin given
      /\ subject[new[r]] \in Users
      /\ <<"access:", new[r]>> \in valkey \cup lapsed
  BY <1>1, <1>2 DEF Req, Issue, Goto, TypeOK
<1>4. TypeOK' /\ \A q \in Requests \ {r} : Same(q)
  BY <1>1, <1>2, <1>3 DEF Goto, TypeOK, Same, request, Ended, Keys, Prefixes
<1>5. Req(r)' /\ Issue(r)'
  BY <1>1, <1>2, <1>3 DEF Req, Issue, request
<1>6. Spent(r)'
  BY <1>1, <1>2, <1>3 DEF Spent, Req, request
<1>7. Before(r)' /\ UsedOnce(r)'
  BY <1>1, <1>3, <1>4 DEF Before, UsedOnce, Same, request
<1>8. \A t \in given' \ given : t = new[r] /\ Lasts(t)'
  <2>1. subject[new[r]] # None
    BY <1>3, SessionsAssumption DEF SessionsAssumption
  <2> QED
    BY <1>1, <1>2, <1>3, <2>1 DEF Lasts
<1>9. \A x \in given : ~LogoutOf(r, x) /\ (SpentBy(r, x) => SpentBy(r, x)')
  BY <1>1, <1>2, <1>3 DEF LogoutOf, SpentBy, request
<1>10. Keeps(r)
  BY <1>2, <1>3, <1>9, <1>1 DEF Keeps
<1> QED
  BY <1>1, <1>2, <1>3, <1>4, <1>5, <1>6, <1>7, <1>8, <1>10, StepKeeps DEF request

LEMMA DropKeeps ==
  ASSUME IInv, NEW r \in Requests, DropAccess(r) \/ DropRefresh(r) PROVE IInv'
<1>1. /\ TypeOK /\ pc[r] \in {"dropAccess", "dropRefresh"} /\ pc[r] \in Active
      /\ Req(r) /\ Issue(r) /\ Before(r)
      /\ UNCHANGED <<lapsed, subject, given, request, new, user, unspent>>
  BY DEF IInv, DropAccess, DropRefresh, Active
<1>2. new[r] = None /\ kind[r] = "logout"
  <2>1. kind[r] = "logout"
    BY <1>1 DEF Req
  <2> QED
    BY <1>1, <2>1 DEF Issue
<1>3. PICK l \in {"dropRefresh", "200"}, p \in Prefixes, t \in {acc[r], ref[r]} :
        Goto(r, l) /\ (valkey' = valkey \/ valkey' = valkey \ {<<p, t>>})
  BY <1>1 DEF DropAccess, DropRefresh, Dropped, Prefixes
<1>4. \A x \in Tokens, q \in Prefixes :
        /\ <<q, x>> \in valkey' => <<q, x>> \in valkey
        /\ <<q, x>> \in valkey => <<q, x>> \in valkey' \/ x = t
  BY <1>3
<1>5. pc'[r] = l /\ TypeOK' /\ \A q \in Requests \ {r} : Same(q)
  BY <1>1, <1>3 DEF Goto, TypeOK, Same, request, Active, Ended
<1>6. Req(r)' /\ Issue(r)' /\ Spent(r)' /\ Before(r)' /\ UsedOnce(r)'
  BY <1>1, <1>2, <1>5 DEF Req, Issue, Spent, Before, UsedOnce, Same, request
<1>7. given \subseteq Tokens
  BY <1>1 DEF TypeOK
<1>8. \A x \in given : ~SpentBy(r, x) /\ (LogoutOf(r, x) => LogoutOf(r, x)')
  BY <1>1, <1>2, <1>5 DEF SpentBy, LogoutOf, request
<1>9. t \in given /\ LogoutOf(r, t)'
  BY <1>1, <1>2, <1>3, <1>5 DEF Req, LogoutOf, request
<1>10. Keeps(r)
  BY <1>1, <1>4, <1>7, <1>8, <1>9 DEF Keeps, Prefixes
<1> QED
  BY <1>1, <1>2, <1>5, <1>6, <1>10, StepKeeps DEF request
(* A key lapses: it stays accounted for. *)
LEMMA ExpireKeeps ==
  ASSUME IInv, NEW k \in Keys, Expire(k) PROVE IInv'
<1>1. /\ TypeOK
      /\ \A r \in Requests : Req(r) /\ Issue(r) /\ Spent(r) /\ Before(r) /\ UsedOnce(r)
      /\ valkey' \subseteq valkey /\ valkey' \cup lapsed' = valkey \cup lapsed
      /\ UNCHANGED <<subject, given, pc, request, new, user, unspent>>
  BY DEF IInv, Expire
<1>2. TypeOK'
  BY <1>1 DEF Expire, TypeOK, request
<1>3. ASSUME NEW r \in Requests
      PROVE  (Req(r) /\ Issue(r) /\ Spent(r) /\ Before(r) /\ UsedOnce(r))'
  BY <1>1 DEF Req, Issue, Spent, Before, UsedOnce, request
<1>4. ASSUME NEW t \in given PROVE Lasts(t)'
  BY <1>1 DEF IInv, Lasts, LogoutOf, SpentBy, request
<1> QED
  BY <1>1, <1>2, <1>3, <1>4 DEF IInv, request

LEMMA CrashKeeps ==
  ASSUME IInv, Crash PROVE IInv'
<1>1. /\ TypeOK
      /\ \A r \in Requests : Req(r) /\ Issue(r) /\ Spent(r) /\ Before(r) /\ UsedOnce(r)
      /\ UNCHANGED <<store, subject, given, request, new, user, unspent>>
      /\ pc' = [r \in Requests |-> IF pc[r] \in Active THEN "lost" ELSE pc[r]]
  BY DEF IInv, Crash
<1>2. TypeOK'
  BY <1>1 DEF TypeOK, request, store, Active, Ended
<1>3. ASSUME NEW r \in Requests
      PROVE  (Req(r) /\ Issue(r) /\ Spent(r) /\ Before(r) /\ UsedOnce(r))'
  <2>1. pc'[r] = (IF pc[r] \in Active THEN "lost" ELSE pc[r]) /\ "lost" \notin Active
    BY <1>1 DEF Active
  <2>2. (Req(r) /\ Issue(r) /\ Spent(r))'
    BY <1>1, <2>1 DEF Req, Issue, Spent, request, store, Active
  <2>3. (Before(r) /\ UsedOnce(r))'
    BY <1>1, <2>1 DEF Before, UsedOnce, request, Active
  <2> QED
    BY <2>2, <2>3
<1>4. ASSUME NEW t \in given PROVE Lasts(t)'
  <2>1. ASSUME NEW r \in Requests
        PROVE  (LogoutOf(r, t) => LogoutOf(r, t)') /\ (SpentBy(r, t) => SpentBy(r, t)')
    <3>1. pc'[r] = (IF pc[r] \in Active THEN "lost" ELSE pc[r]) /\ Faults
      BY <1>1 DEF Crash
    <3> QED
      BY <1>1, <3>1 DEF LogoutOf, SpentBy, request
  <2>2. Lasts(t)
    BY <1>4 DEF IInv
  <2> QED
    BY <1>1, <2>1, <2>2 DEF Lasts, store
<1> QED
  BY <1>1, <1>2, <1>3, <1>4 DEF IInv, request

LEMMA NextInv == IInv /\ [Next]_vars => IInv'
<1> SUFFICES ASSUME IInv, [Next]_vars PROVE IInv'
  OBVIOUS
<1>1. ASSUME NEW r \in Requests, Start(r) \/ Handle(r) PROVE IInv'
  BY <1>1, StartKeeps, LookupKeeps, LoadUserKeeps, SpendKeeps, SetAccessKeeps,
     SetRefreshKeeps, DropKeeps DEF Handle
<1>2. ASSUME NEW k \in Keys, Expire(k) PROVE IInv'
  BY <1>2, ExpireKeeps
<1>3. CASE Crash
  BY <1>3, CrashKeeps
<1>4. CASE UNCHANGED vars
  BY <1>4 DEF IInv, TypeOK, Req, Issue, Spent, Before, UsedOnce, Lasts, LogoutOf, SpentBy,
              vars, store, request
<1> QED
  BY <1>1, <1>2, <1>3, <1>4 DEF Next, Quiet

(* The invariant holds for any number of requests, users and token pairs,    *)
(* whatever sessions there are at first, with and without faults.            *)
THEOREM Invariance == Spec => []IInv
BY InitInv, NextInv, PTL DEF Spec

(* The keys, the pairs and the requests have the types TypeOK gives them. *)
THEOREM TypeCorrect == Spec => []TypeOK
<1>1. IInv => TypeOK
  BY DEF IInv
<1> QED
  BY <1>1, Invariance, PTL

(* A refresh token that was spent is refused afterwards (auth.go:167-171),   *)
(* however many requests present it and whatever fails but its own Delete.   *)
THEOREM RefreshedOnce == Spec => []SingleUse
<1>1. IInv => SingleUse
  BY DEF IInv, Before, UsedOnce, SingleUse
<1> QED
  BY <1>1, Invariance, PTL

(* A key a client was handed goes with its time, with a logout or a refresh  *)
(* that presented it, and a refresh that spends one and hands out no other   *)
(* was stopped by a fault (auth.go:167-187).  The proof does not ask which   *)
(* keys a logout deletes of the pairs presented to it: a logout that deletes *)
(* the ones it means to keeps to it as well.                                 *)
THEOREM SessionsKept == Spec => []SessionsLast
<1>1. IInv => SessionsLast
  BY DEF IInv, Lasts, SessionsLast
<1> QED
  BY <1>1, Invariance, PTL

(* Who is served as a user holds a pair issued for that user, and handed out *)
(* after both its keys were set (middleware.go:29-66, auth/auth.go:81-88).   *)
THEOREM ServedAsOwner == Spec => []Traced
<1>1. IInv => Traced
  <2> SUFFICES ASSUME IInv, NEW q \in Requests, NEW r \in Requests,
                      pc[r] = "granted", new[q] = acc[r]
               PROVE  /\ pc[q] \in {"200", "201"} /\ user[q] = user[r]
                      /\ kind[q] = "refresh" => subject[ref[q]] = user[r]
    BY DEF Traced
  <2>1. acc[r] \in given /\ user[r] = subject[acc[r]]
    BY DEF IInv, Req
  <2>2. new[q] # None
    BY <2>1, SessionsAssumption DEF IInv, TypeOK, SessionsAssumption
  <2> QED
    BY <2>1, <2>2 DEF IInv, Issue
<1> QED
  BY <1>1, Invariance, PTL
=============================================================================
