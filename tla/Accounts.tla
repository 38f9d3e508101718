----------------------------- MODULE Accounts -----------------------------
(***************************************************************************)
(* Accounts: the rows of users and of user_tokens under concurrent         *)
(* register, activateUser and login requests (cmd/api/auth.go), and the    *)
(* mail that register sends in the background (cmd/api/helpers.go,         *)
(* mailer/mailtrap.go).  Users.Create runs on the pool, not in the         *)
(* transaction around it, so every statement commits by itself and each is *)
(* one action.                                                             *)
(*                                                                         *)
(* A member of Names stands for an email and a user name at once: either   *)
(* unique constraint refuses a row in the same way.  A body that is not    *)
(* JSON is refused before anything is read, and not modelled.              *)
(***************************************************************************)
EXTENDS Naturals, FiniteSets

CONSTANTS
  Requests,   \* HTTP requests, each served once by a goroutine of its own
  Names,      \* who registers: an email address and a user name
  Ids,        \* ids of the users table (a bound)
  Tokens,     \* activation tokens (a bound: 16 random bytes, taken as unique)
  None,       \* no user, no token
  Kinds,      \* the handlers that are called
  Mailer,     \* "api": mails go out; "sandbox": SendAPI returns at once; "nil":
              \* app.mailer is not set, as committed (main.go:98-106)
  Faults      \* may calls fail and the process crash?

ASSUME AccountsAssumption ==
  /\ None \notin Ids /\ None \notin Tokens /\ None \notin Names
  /\ Kinds \subseteq {"register", "activate", "login"}
  /\ Mailer \in {"api", "sandbox", "nil"}
  /\ Faults \in BOOLEAN

VARIABLES
  name,       \* the users rows: whose an id is
  activated,  \* the ids with activated = true
  owner,      \* the user_id of a token, kept once its row is gone
  tokens,     \* the user_tokens rows
  expired,    \* the tokens whose expiry is over
  mailed,     \* the tokens somebody got by mail
  pc,         \* where a request is, or its answer
  kind,       \* the handler serving it
  who,        \* whom it registers, or logs in
  id,         \* the user it created, or found
  token,      \* the token it created, or presents
  mail        \* the background goroutine it started: "no", "sending" or "over"

db      == <<name, activated, owner, tokens, expired>>
request == <<kind, who>>
vars    == <<db, mailed, pc, request, id, token, mail>>

Active  == {"create", "token", "answer", "lookup", "update", "delete"}
Answers == {"200", "201", "400", "401", "404", "500", "lost"}

TypeOK ==
  /\ name \in [Ids -> Names \cup {None}]
  /\ activated \subseteq Ids
  /\ owner \in [Tokens -> Ids \cup {None}]
  /\ tokens \subseteq Tokens /\ expired \subseteq Tokens /\ mailed \subseteq Tokens
  /\ pc \in [Requests -> {"idle"} \cup Active \cup Answers]
  /\ kind \in [Requests -> Kinds \cup {"none"}]
  /\ who \in [Requests -> Names \cup {None}]
  /\ id \in [Requests -> Ids \cup {None}]
  /\ token \in [Requests -> Tokens \cup {None}]
  /\ mail \in [Requests -> {"no", "sending", "over"}]

-----------------------------------------------------------------------------
(* "late": the store did it, but the caller gets an error (for Users.Create  *)
(* also when the Commit of the transaction around it fails).                 *)
Outcomes == IF Faults THEN {"ok", "late", "fail"} ELSE {"ok"}

Unused   == {i \in Ids : name[i] = None}
Unissued == {t \in Tokens : owner[t] = None}

Init ==
  /\ name = [i \in Ids |-> None]
  /\ activated = {}
  /\ owner = [t \in Tokens |-> None]
  /\ tokens = {} /\ expired = {} /\ mailed = {}
  /\ pc = [r \in Requests |-> "idle"]
  /\ kind = [r \in Requests |-> "none"]
  /\ who = [r \in Requests |-> None]
  /\ id = [r \in Requests |-> None]
  /\ token = [r \in Requests |-> None]
  /\ mail = [r \in Requests |-> "no"]

Goto(r, l) == pc' = [pc EXCEPT ![r] = l]

(* auth.go:71-98.  RegisterPayload has no validate tags, so Validate.Struct  *)
(* refuses no payload; bcrypt refuses a password of more than 72 bytes (500). *)
(* Bound: there is an id and a token left for it.                            *)
StartRegister(r) ==
  /\ pc[r] = "idle" /\ "register" \in Kinds
  /\ LET n == Cardinality({q \in Requests : pc[q] \in {"create", "token"}})
     IN  n < Cardinality(Unused) /\ n < Cardinality(Unissued)
  /\ kind' = [kind EXCEPT ![r] = "register"]
  /\ \E w \in Names : who' = [who EXCEPT ![r] = w]
  /\ \E l \in {"create", "500"} : Goto(r, l)
  /\ UNCHANGED <<db, mailed, id, token, mail>>

(* The constraints users_email_key and users_name_key (external). *)
TakenNever(w) == FALSE    \* mutant: neither column is unique
Taken(w) == \E i \in Ids : name[i] = w

(* auth.go:99-121: a duplicate is 400, any other error 500. *)
CreateUser(r) ==
  /\ pc[r] = "create"
  /\ \E i \in Unused, o \in Outcomes :
       IF o = "fail" THEN Goto(r, "500") /\ UNCHANGED <<name, id>>
       ELSE IF Taken(who[r]) THEN Goto(r, "400") /\ UNCHANGED <<name, id>>
       ELSE /\ name' = [name EXCEPT ![i] = who[r]]
            /\ id' = [id EXCEPT ![r] = i]
            /\ Goto(r, IF o = "ok" THEN "token" ELSE "500")
  /\ UNCHANGED <<activated, owner, tokens, expired, mailed, request, token, mail>>

(* auth.go:123-127, tokens.go:49-68; the goroutine starts at auth.go:131.    *)
IssuedAnyway(o) == TRUE             \* mutant: the error of Tokens.New is dropped
Issued(o) == o = "ok"

NewToken(r) ==
  /\ pc[r] = "token"
  /\ \E t \in Unissued, o \in Outcomes :
       /\ IF o = "fail" THEN UNCHANGED <<owner, tokens, token>>
          ELSE /\ owner' = [owner EXCEPT ![t] = id[r]]
               /\ tokens' = tokens \cup {t}
               /\ token' = [token EXCEPT ![r] = t]
       /\ IF Issued(o) THEN mail' = [mail EXCEPT ![r] = "sending"] /\ Goto(r, "answer")
                       ELSE UNCHANGED mail /\ Goto(r, "500")
  /\ UNCHANGED <<name, activated, expired, mailed, request, id>>

(* auth.go:143-146, unless the goroutine wrote to the same ResponseWriter    *)
(* first.                                                                    *)
Answer(r) ==
  /\ pc[r] = "answer"
  /\ Goto(r, "201")
  /\ UNCHANGED <<db, mailed, request, id, token, mail>>

(* auth.go:131-141, mailtrap.go:32-99: a nil mailer panics, and background   *)
(* recovers.  An error of SendAPI writes a 500 to the request's w; it is the *)
(* answer if register has not written its own.                               *)
SendMail(r) ==
  /\ mail[r] = "sending"
  /\ mail' = [mail EXCEPT ![r] = "over"]
  /\ \/ /\ mailed' = IF Mailer = "api" THEN mailed \cup {token[r]} ELSE mailed
        /\ UNCHANGED pc
     \/ /\ Mailer = "api" /\ Faults
        /\ mailed' \in {mailed, mailed \cup {token[r]}}
        /\ IF pc[r] = "answer" THEN Goto(r, "500") ELSE UNCHANGED pc
  /\ UNCHANGED <<db, request, id, token>>

(* auth.go:225-236: a token that was mailed, or one that never was issued.   *)
StartActivate(r) ==
  /\ pc[r] = "idle" /\ "activate" \in Kinds
  /\ kind' = [kind EXCEPT ![r] = "activate"]
  /\ \E t \in mailed \cup {None} : token' = [token EXCEPT ![r] = t]
  /\ Goto(r, "lookup")
  /\ UNCHANGED <<db, mailed, who, id, mail>>

(* users.go:177-213: a row with the hash, the scope, and time to go. *)
Usable(t) == t \in tokens \ expired
HoldersAny(t) == {i \in Ids : name[i] # None}   \* mutant: joins every users row
Holders(t) == {owner[t]}

GetByToken(r) ==
  /\ pc[r] = "lookup"
  /\ \/ /\ Usable(token[r])
        /\ \E i \in Holders(token[r]) : id' = [id EXCEPT ![r] = i]
        /\ Goto(r, "update")
     \/ ~Usable(token[r]) /\ Goto(r, "404") /\ UNCHANGED id
     \/ Faults /\ Goto(r, "500") /\ UNCHANGED id
  /\ UNCHANGED <<db, mailed, request, token, mail>>

(* auth.go:249-254, users.go:288-308: the row as it was read, activated.     *)
(* Nothing else writes the columns it overwrites.                            *)
UpdateUser(r) ==
  /\ pc[r] = "update"
  /\ \E o \in Outcomes :
       /\ activated' = IF o = "fail" THEN activated ELSE activated \cup {id[r]}
       /\ Goto(r, IF o = "ok" THEN "delete" ELSE "500")
  /\ UNCHANGED <<name, owner, tokens, expired, mailed, request, id, token, mail>>

(* auth.go:256-264, tokens.go:70-81: every activation token of the user. *)
SpentNone(r) == {}                  \* mutant: the tokens stay
SpentAll(r) == tokens               \* mutant: DELETE without user_id
Spent(r) == {t \in tokens : owner[t] = id[r]}

DeleteTokens(r) ==
  /\ pc[r] = "delete"
  /\ \E o \in Outcomes :
       /\ tokens' = IF o = "fail" THEN tokens ELSE tokens \ Spent(r)
       /\ Goto(r, IF o = "ok" THEN "200" ELSE "500")
  /\ UNCHANGED <<name, activated, owner, expired, mailed, request, id, token, mail>>

(* auth.go:33-43: the row of the email, activated or not; no row is 500.     *)
Login(r) ==
  /\ pc[r] = "idle" /\ "login" \in Kinds
  /\ kind' = [kind EXCEPT ![r] = "login"]
  /\ \E w \in Names :
       /\ who' = [who EXCEPT ![r] = w]
       /\ \/ \E i \in Ids : /\ name[i] = w /\ id' = [id EXCEPT ![r] = i]
                            /\ \E l \in {"200", "401"} : Goto(r, l)
          \/ /\ Taken(w) => Faults
             /\ Goto(r, "500") /\ UNCHANGED id
  /\ UNCHANGED <<db, mailed, token, mail>>

(* A token's three days are over. *)
Expire(t) ==
  /\ owner[t] # None /\ t \notin expired
  /\ expired' = expired \cup {t}
  /\ UNCHANGED <<name, activated, owner, tokens, mailed, pc, request, id, token, mail>>

(* The process dies, or run returns: nothing waits for app.wg (api.go:181),  *)
(* so the mails being sent are lost with the requests.                       *)
Crash ==
  /\ Faults
  /\ \E r \in Requests : pc[r] \in Active \/ mail[r] = "sending"
  /\ pc' = [r \in Requests |-> IF pc[r] \in Active THEN "lost" ELSE pc[r]]
  /\ mail' = [r \in Requests |-> IF mail[r] = "sending" THEN "over" ELSE mail[r]]
  /\ UNCHANGED <<db, mailed, request, id, token>>

Quiet == (\A r \in Requests : pc[r] \notin Active) /\ UNCHANGED vars

Handle(r) ==
  \/ CreateUser(r) \/ NewToken(r) \/ Answer(r) \/ SendMail(r)
  \/ GetByToken(r) \/ UpdateUser(r) \/ DeleteTokens(r)

Next ==
  \/ \E r \in Requests : StartRegister(r) \/ StartActivate(r) \/ Login(r) \/ Handle(r)
  \/ \E t \in Tokens : Expire(t)
  \/ Crash \/ Quiet

Spec == Init /\ [][Next]_vars

-----------------------------------------------------------------------------
(* An answer of register is true of the store, whoever else registers: a 201 *)
(* has the only row of its name, a 400 means somebody else has it.           *)
RegisterTold ==
  \A r \in Requests : kind[r] = "register" =>
    /\ pc[r] \in {"201", "400"} => Cardinality({i \in Ids : name[i] = who[r]}) = 1
    /\ pc[r] = "201" => name[id[r]] = who[r]
    /\ pc[r] = "400" => id[r] = None

(* Nobody is activated but by a token that was mailed to him (auth.go:237).  *)
ActivatedByMail ==
  \A i \in activated : \E t \in mailed : owner[t] = i

(* An account that is not activated can still be: it has a token that        *)
(* GetByToken accepts (users.go:183-186), mailed or about to be, unless one  *)
(* can say why not: its register is not that far, or broke off, its mail was *)
(* not sent, or its three days are over, and nothing sends another.  No      *)
(* activation, failing midway, repeated or of another account, takes the     *)
(* token of an account that is not activated.                                *)
Sending(t) == \E r \in Requests : token[r] = t /\ mail[r] = "sending"
Hope(i)    == \E t \in Tokens : Usable(t) /\ owner[t] = i /\ (t \in mailed \/ Sending(t))
Excuse(i)  == \E r \in Requests :
  /\ kind[r] = "register" /\ id[r] = i
  /\ \/ pc[r] \in {"token", "500", "lost"}
     \/ mail[r] = "over" /\ token[r] \notin mailed
     \/ token[r] \in expired
StrandedExplained ==
  \A i \in Ids \ activated : name[i] # None => Hope(i) \/ Excuse(i)

(* What activateUser answers 200 to is done: the account is activated, and   *)
(* none of its tokens is left to present again.                              *)
ActivatedOnce ==
  \A r \in Requests : kind[r] = "activate" /\ pc[r] = "200" =>
    id[r] \in activated /\ \A t \in tokens : owner[t] # id[r]

(* mailer/templates/user_welcome.tmpl:12: before one can start using the     *)
(* service, one has to confirm the address.                                  *)
ConfirmedFirst ==
  \A r \in Requests : kind[r] = "login" /\ pc[r] = "200" => id[r] \in activated

-----------------------------------------------------------------------------
(* Accounts implements AccountLife: an account comes to be, is sent its      *)
(* token and is activated, in this order and for good; without a mailer that *)
(* sends (main.go:98-106), nobody is ever activated.                         *)
LifeOf(n) ==
  IF \E i \in activated : name[i] = n THEN "active"
  ELSE IF \E t \in mailed : owner[t] # None /\ name[owner[t]] = n THEN "mailed"
  ELSE IF \E i \in Ids : name[i] = n THEN "named" ELSE "free"
life == [n \in Names |-> LifeOf(n)]

L == INSTANCE AccountLife WITH MailWorks <- Mailer = "api"
AccountLifeSpec == L!Spec
=============================================================================
