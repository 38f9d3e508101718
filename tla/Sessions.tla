----------------------------- MODULE Sessions -----------------------------
(***************************************************************************)
(* Sessions: the keys "access:"+jti and "refresh:"+jti that login and      *)
(* refreshToken put into Valkey, that refreshToken spends, that logout     *)
(* means to delete, and that AuthMiddleware and optionalAuthMiddleware     *)
(* look up (cmd/api/auth.go, cmd/api/middleware.go, auth/auth.go).  Each   *)
(* call to Valkey or PostgreSQL is one action; requests interleave between *)
(* them.                                                                   *)
(*                                                                         *)
(* A token pair (one IssueTokens) is one member of Tokens, standing for    *)
(* its two jtis.  A signature is what makes a client unable to present a   *)
(* pair it was not given.  Time is abstracted: a key may lapse at any time *)
(* after it was set; its JWT is not accepted much longer.  A request whose *)
(* cookie or header is missing or does not parse is refused before any     *)
(* call, and not modelled.                                                 *)
(***************************************************************************)
EXTENDS Naturals, FiniteSets

CONSTANTS
  Requests,   \* HTTP requests, each served once by a goroutine of its own
  Users,      \* ids of the users table
  Tokens,     \* token pairs (a bound: uuid.NewString is taken to be unique)
  None,       \* no user, no token
  MaxOld,     \* bound on the pairs there are at the start
  Faults      \* may calls fail and the process crash?

ASSUME SessionsAssumption ==
  /\ None \notin Users /\ None \notin Tokens
  /\ MaxOld \in Nat
  /\ Faults \in BOOLEAN

VARIABLES
  valkey,   \* the keys there are
  lapsed,   \* the keys whose time to live ended
  subject,  \* the user a pair was issued for: its claims.Subject, its keys' value
  given,    \* the pairs a client was handed
  pc,       \* where a request is, or its answer
  kind,     \* the handler, or middleware, serving it
  acc,      \* the pair whose access token it presents
  ref,      \* the pair whose refresh token it presents
  new,      \* the pair it has issued
  user,     \* the user it is served as
  unspent,  \* refreshes whose Delete failed; the error is dropped (auth.go:171)
  before    \* the refreshes that were answered when it started (history)

store   == <<valkey, lapsed>>
request == <<kind, acc, ref, before>>
vars    == <<store, subject, given, pc, request, new, user, unspent>>

Prefixes == {"access:", "refresh:", "access", "refresh"}
Keys     == Prefixes \X Tokens

Active == {"lookup", "spend", "setAccess", "setRefresh", "loadUser",
           "dropAccess", "dropRefresh"}
Ended  == {"200", "201", "401", "500", "granted", "public", "lost"}
Kinds  == {"login", "refresh", "logout", "api", "feed"}

TypeOK ==
  /\ valkey \subseteq Keys /\ lapsed \subseteq Keys
  /\ subject \in [Tokens -> Users \cup {None}]
  /\ given \subseteq Tokens
  /\ pc \in [Requests -> {"idle"} \cup Active \cup Ended]
  /\ kind \in [Requests -> Kinds \cup {"none"}]
  /\ acc \in [Requests -> Tokens \cup {None}]
  /\ ref \in [Requests -> Tokens \cup {None}]
  /\ new \in [Requests -> Tokens \cup {None}]
  /\ user \in [Requests -> Users \cup {None}]
  /\ unspent \subseteq Requests
  /\ before \in [Requests -> SUBSET Requests]

-----------------------------------------------------------------------------
(* "late": the store did it, but the caller gets an error. *)
Outcomes == IF Faults THEN {"ok", "late", "fail"} ELSE {"ok"}

Unissued == {t \in Tokens : subject[t] = None}

(* Bound: a request that issues a pair starts only while one is left. *)
TokensLeft == Cardinality({r \in Requests : pc[r] \in {"lookup", "spend", "setAccess"}
                                             /\ kind[r] \in {"login", "refresh"}})
                < Cardinality(Unissued)

(* Sessions that earlier logins and refreshes left: of each pair, either key *)
(* may be gone, lapsed or spent.                                             *)
Init ==
  /\ subject \in [Tokens -> Users \cup {None}]
  /\ given = {t \in Tokens : subject[t] # None} /\ Cardinality(given) <= MaxOld
  /\ valkey \in SUBSET ({"access:", "refresh:"} \X given)
  /\ lapsed = ({"access:", "refresh:"} \X given) \ valkey
  /\ pc = [r \in Requests |-> "idle"]
  /\ kind = [r \in Requests |-> "none"]
  /\ acc = [r \in Requests |-> None]
  /\ ref = [r \in Requests |-> None]
  /\ new = [r \in Requests |-> None]
  /\ user = [r \in Requests |-> None]
  /\ unspent = {}
  /\ before = [r \in Requests |-> {}]

Goto(r, l) == pc' = [pc EXCEPT ![r] = l]

Begin(r, k) ==
  /\ pc[r] = "idle"
  /\ kind' = [kind EXCEPT ![r] = k]
  /\ before' = [before EXCEPT ![r] =
       IF k = "refresh" THEN {q \in Requests : kind[q] = "refresh" /\ pc[q] = "201"} ELSE {}]

(* auth.go:20-42: GetByEmail fails (500, an unknown email too), the password *)
(* is wrong (401), or it is u who logs in.                                   *)
StartLogin(r) ==
  /\ Begin(r, "login") /\ TokensLeft
  /\ \/ \E u \in Users : user' = [user EXCEPT ![r] = u] /\ Goto(r, "setAccess")
     \/ \E l \in {"401", "500"} : Goto(r, l) /\ UNCHANGED user
  /\ UNCHANGED <<store, subject, given, acc, ref, new, unspent>>

(* auth.go:155-166: the cookie of a pair the client was given. *)
StartRefresh(r) ==
  /\ Begin(r, "refresh") /\ TokensLeft
  /\ \E t \in given : ref' = [ref EXCEPT ![r] = t]
  /\ Goto(r, "lookup")
  /\ UNCHANGED <<store, subject, given, acc, new, user, unspent>>

(* auth.go:189-201: both cookies have to be there, as SetAuthCookies leaves  *)
(* them.                                                                     *)
StartLogout(r) ==
  /\ Begin(r, "logout")
  /\ \E t \in given : acc' = [acc EXCEPT ![r] = t] /\ ref' = [ref EXCEPT ![r] = t]
  /\ Goto(r, "dropAccess")
  /\ UNCHANGED <<store, subject, given, new, user, unspent>>

(* middleware.go:29-42 and 140-162: a request with an access token. *)
StartAccess(r) ==
  /\ \E k \in {"api", "feed"} : Begin(r, k)
  /\ \E t \in given : acc' = [acc EXCEPT ![r] = t]
  /\ Goto(r, "lookup")
  /\ UNCHANGED <<store, subject, given, ref, new, user, unspent>>

-----------------------------------------------------------------------------
(* What a request that is not let in gets: the feed is served to anyone. *)
RefusedForbidden(r, l) == IF l = "401" THEN "403" ELSE l   \* mutant
Refused(r, l) == IF kind[r] = "feed" THEN "public" ELSE l

(* GetUser of the key: any error, and no key, refuse it (auth.go:167-170,    *)
(* middleware.go:44-48 and 164-168).  A refresh goes on as claims.Subject,   *)
(* the others as the key's value.                                            *)
Found(r) == IF kind[r] = "refresh" THEN <<"refresh:", ref[r]>> \in valkey
                                   ELSE <<"access:", acc[r]>> \in valkey

Lookup(r) ==
  /\ pc[r] = "lookup"
  /\ \/ /\ Found(r)
        /\ Goto(r, IF kind[r] = "refresh" THEN "spend" ELSE "loadUser")
        /\ user' = [user EXCEPT ![r] = subject[IF kind[r] = "refresh" THEN ref[r] ELSE acc[r]]]
     \/ /\ Found(r) => Faults
        /\ Goto(r, Refused(r, "401"))
        /\ UNCHANGED user
  /\ UNCHANGED <<store, subject, given, request, new, unspent>>

(* middleware.go:50-63 and 170-184: the users row. *)
LoadUser(r) ==
  /\ pc[r] = "loadUser"
  /\ \/ Goto(r, "granted")
     \/ Faults /\ Goto(r, Refused(r, "500"))
  /\ UNCHANGED <<store, subject, given, request, new, user, unspent>>

(* auth.go:171: Delete of the old refresh key, its error dropped. *)
SpentPrefixBare == "refresh"    \* mutant: the key as logout writes it
SpentPrefix     == "refresh:"

Spend(r) ==
  /\ pc[r] = "spend"
  /\ \E o \in Outcomes :
       /\ valkey' = IF o = "fail" THEN valkey ELSE valkey \ {<<SpentPrefix, ref[r]>>}
       /\ unspent' = IF o = "fail" THEN unspent \cup {r} ELSE unspent
  /\ Goto(r, "setAccess")
  /\ UNCHANGED <<lapsed, subject, given, request, new, user>>

(* auth.go:44-48, 173-177 (IssueTokens) and auth/auth.go:81-83 (Persist). *)
HandedEarly(t) == given \cup {t}   \* mutant: answered before Persist is over
HandedAfter(t) == given

SetAccess(r) ==
  /\ pc[r] = "setAccess"
  /\ \E t \in Unissued, o \in Outcomes :
       /\ new' = [new EXCEPT ![r] = t]
       /\ subject' = [subject EXCEPT ![t] = user[r]]
       /\ valkey' = IF o = "fail" THEN valkey ELSE valkey \cup {<<"access:", t>>}
       /\ given' = HandedAfter(t)
       /\ Goto(r, IF o = "ok" THEN "setRefresh" ELSE "500")
  /\ UNCHANGED <<lapsed, request, user, unspent>>

(* auth/auth.go:84-86, then the answer with the pair: auth.go:55-61, 183-186. *)
PersistedAnyway(o) == TRUE      \* mutant: the second Set's error is dropped
Persisted(o) == o = "ok"

SetRefresh(r) ==
  /\ pc[r] = "setRefresh"
  /\ \E o \in Outcomes :
       /\ valkey' = IF o = "fail" THEN valkey ELSE valkey \cup {<<"refresh:", new[r]>>}
       /\ IF Persisted(o)
          THEN /\ given' = given \cup {new[r]}
               /\ Goto(r, IF kind[r] = "login" THEN "200" ELSE "201")
          ELSE Goto(r, "500") /\ UNCHANGED given
  /\ UNCHANGED <<lapsed, subject, request, new, user, unspent>>

(* auth.go:203-213: the keys logout deletes have no colon. *)
Dropped(p, t) == {<<p, t>>}

DropAccess(r) ==
  /\ pc[r] = "dropAccess"
  /\ \/ valkey' = valkey \ Dropped("access", acc[r])
     \/ Faults /\ UNCHANGED valkey
  /\ Goto(r, "dropRefresh")
  /\ UNCHANGED <<lapsed, subject, given, request, new, user, unspent>>

DropRefresh(r) ==
  /\ pc[r] = "dropRefresh"
  /\ \/ valkey' = valkey \ Dropped("refresh", ref[r])
     \/ Faults /\ UNCHANGED valkey
  /\ Goto(r, "200")
  /\ UNCHANGED <<lapsed, subject, given, request, new, user, unspent>>

(* SETEX: a key goes when its time is over. *)
Expire(k) ==
  /\ k \in valkey
  /\ valkey' = valkey \ {k} /\ lapsed' = lapsed \cup {k}
  /\ UNCHANGED <<subject, given, pc, request, new, user, unspent>>

(* The process dies; Valkey stays. *)
Crash ==
  /\ Faults
  /\ \E r \in Requests : pc[r] \in Active
  /\ pc' = [r \in Requests |-> IF pc[r] \in Active THEN "lost" ELSE pc[r]]
  /\ UNCHANGED <<store, subject, given, request, new, user, unspent>>

Quiet == (\A r \in Requests : pc[r] \notin Active) /\ UNCHANGED vars

Start(r) == StartLogin(r) \/ StartRefresh(r) \/ StartLogout(r) \/ StartAccess(r)
Handle(r) ==
  \/ Lookup(r) \/ LoadUser(r) \/ Spend(r) \/ SetAccess(r) \/ SetRefresh(r)
  \/ DropAccess(r) \/ DropRefresh(r)

Next == (\E r \in Requests : Start(r) \/ Handle(r)) \/ (\E k \in Keys : Expire(k)) \/ Crash \/ Quiet

Spec == Init /\ [][Next]_vars

-----------------------------------------------------------------------------
(* A refresh token serves once: when a refresh was answered 201 and its      *)
(* Delete did not fail, one that starts later with the same token is refused. *)
(* (Two that overlap may both succeed: GetUser and Delete are two calls.)    *)
SingleUse ==
  \A q, r \in Requests :
    /\ kind[q] = "refresh" /\ kind[r] = "refresh" /\ ref[q] = ref[r]
    /\ q \in before[r] /\ q \notin unspent
    => pc[r] \in {"lookup", "401", "lost"}

(* The key of a pair that a client was handed goes only when its time is     *)
(* over, when a logout presented the pair, or, the refresh key, when a       *)
(* refresh spent it (auth.go:171).  That refresh has handed out another pair *)
(* in its place, is about to, or a call or the process failed on it: then    *)
(* the client has to log in again (auth.go:179-182).                         *)
LogoutOf(r, t) == kind[r] = "logout" /\ t \in {acc[r], ref[r]} /\ pc[r] # "dropAccess"
SpentBy(r, t) ==
  /\ kind[r] = "refresh" /\ ref[r] = t /\ user[r] # None
  /\ \/ pc[r] \in {"setAccess", "setRefresh"}
     \/ pc[r] = "201" /\ new[r] \in given
     \/ pc[r] \in {"500", "lost"} /\ Faults
SessionsLast ==
  \A t \in given :
    /\ \/ <<"access:", t>> \in valkey \cup lapsed
       \/ \E r \in Requests : LogoutOf(r, t)
    /\ \/ <<"refresh:", t>> \in valkey \cup lapsed
       \/ \E r \in Requests : LogoutOf(r, t) \/ SpentBy(r, t)

(* Who is served as a user has a pair of that user's: one that was handed    *)
(* out, after both keys were set, by a login of the user or by a refresh of  *)
(* another pair of the user's (or that was there before).                    *)
Traced ==
  \A q, r \in Requests : pc[r] = "granted" /\ new[q] = acc[r] =>
    /\ pc[q] \in {"200", "201"}
    /\ user[q] = user[r]
    /\ kind[q] = "refresh" => subject[ref[q]] = user[r]

(* auth.go:216-218: a logout that was answered "success" has ended the       *)
(* sessions of its cookies.                                                  *)
LoggedOut ==
  \A r \in Requests : kind[r] = "logout" /\ pc[r] = "200" =>
    <<"access:", acc[r]>> \notin valkey /\ <<"refresh:", ref[r]>> \notin valkey
=============================================================================
