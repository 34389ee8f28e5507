------------------------------ MODULE Handlers ------------------------------
(***************************************************************************)
(* The requests that create users and orders: Register, Login and          *)
(* PostOrder (handlers.go), each a sequence of calls of the repositories   *)
(* (user_repo.go, order_repo.go), with the constraints of the schema and   *)
(* the retries of repo.go.  The database is as in Ledger: a statement      *)
(* reads what is committed, an INSERT waits for an open transaction that   *)
(* holds the same unique value.                                            *)
(*                                                                         *)
(* A call is one HTTP request that is being served; its reply is the       *)
(* status code.  Input that Decode, IsValid or the Luhn test refuse is     *)
(* answered before anything is read or written, and is left out.  A cookie *)
(* that was issued is accepted by the middleware until it expires.  The    *)
(* process may die at any moment: open transactions are rolled back, and   *)
(* nobody is answered.                                                     *)
(***************************************************************************)
EXTENDS Naturals, FiniteSets

CONSTANTS
  Logins, Passwords, NoPassword,
  Ids, NoId,    \* what uuid.NewString may return
  Numbers,      \* order numbers
  Calls,
  MaxRetries,   \* maxAttemptCount of WithRetry, 3 in the code
  MaxFaults     \* bound on the database failures

ASSUME HandlersAssumption ==
  /\ NoPassword \notin Passwords
  /\ NoId \notin Ids
  /\ MaxRetries \in Nat /\ MaxFaults \in Nat

VARIABLES
  accounts,  \* user_hashes joined with password_hashes, committed
  owner,     \* accrued_orders: the user who has uploaded each number
  sessions,  \* the cookies that were issued, and to whom
  pc,        \* where each call is
  req,       \* what it was asked for
  me,        \* the user it acts for
  pending,   \* the rows its transaction has inserted
  attempt,   \* the counter of WithRetry
  reply,     \* the status code, 0 before there is one
  accepted,  \* history: how often each number was answered with 202
  faults     \* database failures so far

callVars == <<pc, req, me, pending, attempt, reply>>
vars == <<accounts, owner, sessions, callVars, accepted, faults>>

R == INSTANCE Registry

Registration(l, p) == [kind |-> "register", login |-> l, password |-> p]
Authentication(l, p) == [kind |-> "login", login |-> l, password |-> p]
Upload(n) == [kind |-> "upload", number |-> n]
NoRequest == [kind |-> "none"]

Requests ==
  {Registration(l, p) : l \in Logins, p \in Passwords}
    \cup {Authentication(l, p) : l \in Logins, p \in Passwords}
    \cup {Upload(n) : n \in Numbers}

Account(i, l, p) == [id |-> i, login |-> l, password |-> p]

Init ==
  /\ accounts = {}
  /\ owner = [n \in Numbers |-> NoId]
  /\ sessions = {}
  /\ pc = [c \in Calls |-> "idle"]
  /\ req = [c \in Calls |-> NoRequest]
  /\ me = [c \in Calls |-> NoId]
  /\ pending = [c \in Calls |-> {}]
  /\ attempt = [c \in Calls |-> 0]
  /\ reply = [c \in Calls |-> 0]
  /\ accepted = [n \in Numbers |-> 0]
  /\ faults = 0

-----------------------------------------------------------------------------

(* The next repository call starts with a WithRetry of its own.            *)
Goto(c, where) ==
  /\ pc' = [pc EXCEPT ![c] = where]
  /\ attempt' = [attempt EXCEPT ![c] = 0]
  /\ UNCHANGED reply

Proceeds(c, where) ==
  /\ pc' = [pc EXCEPT ![c] = where]
  /\ UNCHANGED <<attempt, reply>>

Replies(c, code) ==
  /\ pc' = [pc EXCEPT ![c] = "done"]
  /\ reply' = [reply EXCEPT ![c] = code]
  /\ UNCHANGED attempt

(* auth.Authenticate and http.SetCookie: a session for i, given to whoever *)
(* has just shown the login and the password of the request.               *)
Authenticated(c, i) ==
  sessions' = sessions \cup {Account(i, req[c].login, req[c].password)}

Calling(c, q, i, where) ==
  /\ pc[c] = "idle"
  /\ req' = [req EXCEPT ![c] = q]
  /\ me' = [me EXCEPT ![c] = i]
  /\ Goto(c, where)
  /\ UNCHANGED <<accounts, owner, sessions, pending, accepted, faults>>

Fresh(i) == (\A a \in accounts : a.id # i) /\ (\A c \in Calls : me[c] # i)

CallRegister(c, l, p, i) == Fresh(i) /\ Calling(c, Registration(l, p), i, "exists")

CallLogin(c, l, p) == Calling(c, Authentication(l, p), NoId, "find_login")

(* The middleware takes the user's id from the cookie.                     *)
CallPostOrder(c, s, n) == Calling(c, Upload(n), s.id, "find_user")

(* The answer has been sent.                                               *)
Respond(c) ==
  /\ pc[c] = "done"
  /\ pc' = [pc EXCEPT ![c] = "idle"]
  /\ req' = [req EXCEPT ![c] = NoRequest]
  /\ me' = [me EXCEPT ![c] = NoId]
  /\ attempt' = [attempt EXCEPT ![c] = 0]
  /\ reply' = [reply EXCEPT ![c] = 0]
  /\ UNCHANGED <<accounts, owner, sessions, pending, accepted, faults>>

-----------------------------------------------------------------------------
(* Register                                                                *)

Exists(c) ==
  /\ pc[c] = "exists"
  /\ IF \E a \in accounts : a.login = req[c].login
     THEN Replies(c, 409)
     ELSE Goto(c, "insert_user")
  /\ UNCHANGED <<accounts, owner, sessions, req, me, pending, accepted, faults>>

(* Mutant: ON CONFLICT DO NOTHING.                                         *)
InsertUserOrNothing(c) ==
  /\ pc[c] = "insert_user"
  /\ \A b \in Calls : \A a \in pending[b] : a.login # req[c].login
  /\ IF \E a \in accounts : a.login = req[c].login
     THEN Proceeds(c, "commit") /\ UNCHANGED pending
     ELSE /\ pending' = [pending EXCEPT ![c] = {Account(me[c], req[c].login, NoPassword)}]
          /\ Proceeds(c, "insert_password")
  /\ UNCHANGED <<accounts, owner, sessions, req, me, accepted, faults>>

(* Mutant: the constraint unique_login is missing.                         *)
InsertAnyUser(c) ==
  /\ pc[c] = "insert_user"
  /\ pending' = [pending EXCEPT ![c] = {Account(me[c], req[c].login, NoPassword)}]
  /\ Proceeds(c, "insert_password")
  /\ UNCHANGED <<accounts, owner, sessions, req, me, accepted, faults>>

(* InsertUser, under the constraint unique_login.                          *)
InsertUser(c) ==
  /\ pc[c] = "insert_user"
  /\ \A b \in Calls : \A a \in pending[b] : a.login # req[c].login
  /\ IF \E a \in accounts : a.login = req[c].login
     THEN Replies(c, 500) /\ UNCHANGED pending
     ELSE /\ pending' = [pending EXCEPT ![c] = {Account(me[c], req[c].login, NoPassword)}]
          /\ Proceeds(c, "insert_password")
  /\ UNCHANGED <<accounts, owner, sessions, req, me, accepted, faults>>

InsertPasswordHash(c) ==
  /\ pc[c] = "insert_password"
  /\ pending' = [pending EXCEPT ![c] = {Account(me[c], req[c].login, req[c].password)}]
  /\ Proceeds(c, "commit")
  /\ UNCHANGED <<accounts, owner, sessions, req, me, accepted, faults>>

Commits(c) ==
  /\ accounts' = accounts \cup pending[c]
  /\ pending' = [pending EXCEPT ![c] = {}]

Commit(c) ==
  /\ pc[c] = "commit"
  /\ Commits(c)
  /\ Authenticated(c, me[c])
  /\ Replies(c, 200)
  /\ UNCHANGED <<owner, req, me, accepted, faults>>

-----------------------------------------------------------------------------
(* Login                                                                   *)

HasLogin(a, l) == a.login = l /\ a.password # NoPassword

(* No row is pgx's error, which findWrapper passes on as it is: it is not  *)
(* the ErrNotFound that Login looks for.                                   *)
FindByLogin(c) ==
  /\ pc[c] = "find_login"
  /\ \/ /\ \A a \in accounts : ~HasLogin(a, req[c].login)
        /\ Replies(c, 500)
        /\ UNCHANGED sessions
     \/ \E a \in accounts :
          /\ HasLogin(a, req[c].login)
          /\ \/ a.password = req[c].password /\ Replies(c, 200) /\ Authenticated(c, a.id)
             \/ a.password # req[c].password /\ Replies(c, 401) /\ UNCHANGED sessions
  /\ UNCHANGED <<accounts, owner, req, me, pending, accepted, faults>>

-----------------------------------------------------------------------------
(* PostOrder                                                               *)

(* retrieveUserID                                                          *)
FindByID(c) ==
  /\ pc[c] = "find_user"
  /\ IF \E a \in accounts : a.id = me[c]
     THEN Goto(c, "find_order")
     ELSE Replies(c, 500)
  /\ UNCHANGED <<accounts, owner, sessions, req, me, pending, accepted, faults>>

FindUserIDByAccrualID(c) ==
  /\ pc[c] = "find_order"
  /\ LET found == owner[req[c].number] IN
       \/ found = NoId /\ Goto(c, "create_order")
       \/ found = me[c] /\ Replies(c, 200)
       \/ found \notin {NoId, me[c]} /\ Replies(c, 409)
  /\ UNCHANGED <<accounts, owner, sessions, req, me, pending, accepted, faults>>

Inserted(c) == owner' = [owner EXCEPT ![req[c].number] = me[c]]

(* Mutant: ON CONFLICT (name_order) DO UPDATE SET id_user.                 *)
CreateOrderUpsert(c) ==
  /\ pc[c] = "create_order"
  /\ Inserted(c)
  /\ accepted' = [accepted EXCEPT ![req[c].number] = @ + 1]
  /\ Replies(c, 202)
  /\ UNCHANGED <<accounts, sessions, req, me, pending, faults>>

(* CreateAccrual, under the constraint unique_accrual_no.                  *)
CreateOrder(c) ==
  /\ pc[c] = "create_order"
  /\ IF owner[req[c].number] # NoId
     THEN Replies(c, 500) /\ UNCHANGED <<owner, accepted>>
     ELSE /\ Inserted(c)
          /\ accepted' = [accepted EXCEPT ![req[c].number] = @ + 1]
          /\ Replies(c, 202)
  /\ UNCHANGED <<accounts, sessions, req, me, pending, faults>>

-----------------------------------------------------------------------------
(* Failures of the database                                                *)

TransactionPCs == {"insert_user", "insert_password", "commit"}

(* Where WithRetry runs again.                                             *)
Beginning(c) == IF pc[c] \in TransactionPCs THEN "insert_user" ELSE pc[c]

(* What a handler does about an error.  FindUserIDByAccrualID joins        *)
(* ErrNotFound to every error, so that PostOrder goes on to create.        *)
GivesUp(c) ==
  IF pc[c] = "find_order" THEN Goto(c, "create_order") ELSE Replies(c, 500)

(* Mutant: one attempt more than maxAttemptCount allows.                   *)
RetriesOnceMore(c) ==
  \/ /\ attempt[c] <= MaxRetries
     /\ pc' = [pc EXCEPT ![c] = Beginning(c)]
     /\ attempt' = [attempt EXCEPT ![c] = @ + 1]
     /\ UNCHANGED reply
  \/ attempt[c] > MaxRetries /\ GivesUp(c)

Retries(c) ==
  \/ /\ attempt[c] < MaxRetries
     /\ pc' = [pc EXCEPT ![c] = Beginning(c)]
     /\ attempt' = [attempt EXCEPT ![c] = @ + 1]
     /\ UNCHANGED reply
  \/ attempt[c] = MaxRetries /\ GivesUp(c)

Fault == faults < MaxFaults /\ faults' = faults + 1

(* Mutant: UserRepository.Exists takes an error for a user that is there.  *)
ExistsFailsTaken(c) ==
  /\ pc[c] = "exists" /\ Fault
  /\ Replies(c, 409)
  /\ UNCHANGED <<accounts, owner, sessions, req, me, pending, accepted>>

(* UserRepository.Exists logs an error and says that nobody is there.      *)
ExistsFails(c) ==
  /\ pc[c] = "exists" /\ Fault
  /\ Goto(c, "insert_user")
  /\ UNCHANGED <<accounts, owner, sessions, req, me, pending, accepted>>

StatementFails(c, retryable) ==
  /\ pc[c] \in TransactionPCs \cup {"find_login", "find_user", "find_order", "create_order"}
  /\ Fault
  /\ pending' = [pending EXCEPT ![c] = {}]
  /\ IF retryable THEN Retries(c) ELSE GivesUp(c)
  /\ UNCHANGED <<accounts, owner, sessions, req, me, accepted>>

(* The outcome is unknown: the rows are there, and the code tries again or *)
(* returns the error, if it is none that isRetryableError knows.           *)
CommitUnknown(c) ==
  /\ pc[c] = "commit" /\ Fault
  /\ Commits(c)
  /\ Retries(c) \/ GivesUp(c)
  /\ UNCHANGED <<owner, sessions, req, me, accepted>>

CreateOrderUnknown(c) ==
  /\ pc[c] = "create_order" /\ Fault
  /\ owner[req[c].number] = NoId
  /\ Inserted(c)
  /\ Retries(c) \/ GivesUp(c)
  /\ UNCHANGED <<accounts, sessions, req, me, pending, accepted>>

(* The process dies; the cookies are tokens and outlive it.                *)
Crash ==
  /\ Fault
  /\ pc' = [c \in Calls |-> "idle"]
  /\ req' = [c \in Calls |-> NoRequest]
  /\ me' = [c \in Calls |-> NoId]
  /\ pending' = [c \in Calls |-> {}]
  /\ attempt' = [c \in Calls |-> 0]
  /\ reply' = [c \in Calls |-> 0]
  /\ UNCHANGED <<accounts, owner, sessions, accepted>>

-----------------------------------------------------------------------------

RegisterStep(c) ==
  Exists(c) \/ InsertUser(c) \/ InsertPasswordHash(c) \/ Commit(c)

PostOrderStep(c) == FindByID(c) \/ FindUserIDByAccrualID(c) \/ CreateOrder(c)

FaultStep(c) ==
  \/ ExistsFails(c) \/ CommitUnknown(c) \/ CreateOrderUnknown(c)
  \/ \E retryable \in BOOLEAN : StatementFails(c, retryable)

CallStep ==
  \/ \E c \in Calls, l \in Logins, p \in Passwords, i \in Ids : CallRegister(c, l, p, i)
  \/ \E c \in Calls, l \in Logins, p \in Passwords : CallLogin(c, l, p)
  \/ \E c \in Calls, s \in sessions, n \in Numbers : CallPostOrder(c, s, n)
  \/ \E c \in Calls : RegisterStep(c)
  \/ \E c \in Calls : FindByLogin(c)
  \/ \E c \in Calls : PostOrderStep(c)
  \/ \E c \in Calls : FaultStep(c)
  \/ \E c \in Calls : Respond(c)

Next == CallStep \/ Crash

Spec == Init /\ [][Next]_vars

-----------------------------------------------------------------------------
(* Properties.                                                             *)

PCs == {"idle", "exists", "find_login", "find_user", "find_order",
        "create_order", "done"} \cup TransactionPCs

UploadPCs == {"find_user", "find_order", "create_order"}

RightKind(c) ==
  /\ pc[c] \in {"exists"} \cup TransactionPCs => req[c].kind = "register"
  /\ pc[c] = "find_login" => req[c].kind = "login"
  /\ pc[c] \in UploadPCs => req[c].kind = "upload"
  /\ req[c].kind \in {"register", "upload"} => me[c] \in Ids

(* Types, and which request, user and rows a call has where it stands.     *)
TypeOK ==
  /\ accounts \subseteq [id : Ids, login : Logins, password : Passwords]
  /\ sessions \subseteq [id : Ids, login : Logins, password : Passwords]
  /\ owner \in [Numbers -> Ids \cup {NoId}]
  /\ pc \in [Calls -> PCs]
  /\ req \in [Calls -> Requests \cup {NoRequest}]
  /\ me \in [Calls -> Ids \cup {NoId}]
  /\ \A c \in Calls : RightKind(c)
  /\ pending \in [Calls -> SUBSET [id : Ids, login : Logins,
                                   password : Passwords \cup {NoPassword}]]
  /\ attempt \in [Calls -> 0 .. MaxRetries]
  /\ reply \in [Calls -> {0, 200, 202, 401, 409, 500}]
  /\ accepted \in [Numbers -> Nat]
  /\ faults \in 0 .. MaxFaults

(* A transaction that registers a user has inserted exactly the rows of    *)
(* the statements it has executed (used by the proofs).                    *)
PendingOK ==
  \A c \in Calls :
    pending[c] =
      CASE pc[c] = "insert_password" -> {Account(me[c], req[c].login, NoPassword)}
        [] pc[c] = "commit" -> {Account(me[c], req[c].login, req[c].password)}
        [] OTHER -> {}

(* However registrations race, fail and are repeated, a login belongs to   *)
(* one account (unique_login, and the one transaction of user_repo.go:26). *)
OneAccountPerLogin ==
  \A a, b \in accounts \cup UNION {pending[c] : c \in Calls} :
    a.login = b.login => a = b

(* A cookie is issued to who has shown the login and the password of an    *)
(* account that is there, for that account (handlers.go:148-161, 220-234): *)
(* not after a lost race, nor for a registration that did not take place.  *)
SessionsGenuine == sessions \subseteq accounts

(* A number is accepted with 202 at most once, whoever uploads it, at the  *)
(* same time or again; who is told 200 or 202 owns it, who is told 409     *)
(* does not (handlers.go:281-316).                                         *)
UploadAnswersTrue ==
  /\ \A n \in Numbers : accepted[n] <= 1 /\ (owner[n] = NoId => accepted[n] = 0)
  /\ \A c \in Calls :
       pc[c] = "done" /\ req[c].kind = "upload" =>
         /\ reply[c] \in {200, 202} => owner[req[c].number] = me[c]
         /\ reply[c] = 409 => owner[req[c].number] \notin {me[c], NoId}

(* Every answer is that of one atomic step on the tables, however the      *)
(* statements of the requests interleave, fail, are run again or are cut   *)
(* off by a crash; a request has at most one effect, and its cookie or its *)
(* 202 comes with that effect (SPECIFICATION.md:70-150).                   *)
ImplementsRegistry == R!Spec

(* SPECIFICATION.md:120-121, a login nobody has is a wrong pair and 401;   *)
(* 500 is for internal errors: while the database works, nobody gets it    *)
(* (SPECIFICATION.md:94-95 and :143-149 say the same of the other two).    *)
FailureIsReal == \A c \in Calls : reply[c] = 500 => faults > 0

=============================================================================
