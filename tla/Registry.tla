------------------------------ MODULE Registry ------------------------------
(***************************************************************************)
(* What SPECIFICATION.md:70-150 promises of registering, logging in and    *)
(* uploading an order number, and nothing of how it is done: every request *)
(* takes effect in one step, on the tables as they are at that step, and   *)
(* its answer says what that step has found.  A request may also fail with *)
(* 500; then it has taken effect once or not at all.                       *)
(* Handlers.tla implements this module.                                    *)
(***************************************************************************)
EXTENDS Naturals

CONSTANTS Logins, Passwords, Ids, NoId, Numbers, Calls

VARIABLES
  accounts,  \* who is registered, under which id
  owner,     \* who has uploaded each number
  sessions,  \* the cookies that were issued
  req, me,   \* what each call asks for, and on behalf of whom
  reply      \* its status code, 0 before there is one

registryVars == <<accounts, owner, sessions, req, me, reply>>

NoRequest == [kind |-> "none"]

Account(i, l, p) == [id |-> i, login |-> l, password |-> p]

Init ==
  /\ accounts = {}
  /\ owner = [n \in Numbers |-> NoId]
  /\ sessions = {}
  /\ req = [c \in Calls |-> NoRequest]
  /\ me = [c \in Calls |-> NoId]
  /\ reply = [c \in Calls |-> 0]

-----------------------------------------------------------------------------

Asks(c, q, i) ==
  /\ req[c] = NoRequest
  /\ req' = [req EXCEPT ![c] = q]
  /\ me' = [me EXCEPT ![c] = i]
  /\ UNCHANGED <<accounts, owner, sessions, reply>>

AskToRegister(c, l, p, i) ==
  /\ \A a \in accounts : a.id # i
  /\ Asks(c, [kind |-> "register", login |-> l, password |-> p], i)

AskToLogin(c, l, p) == Asks(c, [kind |-> "login", login |-> l, password |-> p], NoId)

AskToUpload(c, s, n) == Asks(c, [kind |-> "upload", number |-> n], s.id)

Waits(c, kind) == req[c].kind = kind /\ reply[c] = 0

Answers(c, code) ==
  /\ reply' = [reply EXCEPT ![c] = code]
  /\ UNCHANGED <<req, me>>

Taken(l) == \E a \in accounts : a.login = l

Mine(c) == Account(me[c], req[c].login, req[c].password)

(* An effect that the service does not know to have taken place: it        *)
(* answers 500, at once or later.                                          *)
Unconfirmed(c) == Answers(c, 500) \/ UNCHANGED <<req, me, reply>>

(* The account is there from this step on; the cookie comes with the 200.  *)
Register(c) ==
  /\ Waits(c, "register")
  /\ ~Taken(req[c].login)
  /\ accounts' = accounts \cup {Mine(c)}
  /\ \/ Answers(c, 200) /\ sessions' = sessions \cup {Mine(c)}
     \/ Unconfirmed(c) /\ UNCHANGED sessions
  /\ UNCHANGED owner

RegisterConflict(c) ==
  /\ Waits(c, "register")
  /\ Taken(req[c].login)
  /\ Answers(c, 409)
  /\ UNCHANGED <<accounts, owner, sessions>>

Login(c) ==
  /\ Waits(c, "login")
  /\ \E a \in accounts :
       /\ a.login = req[c].login
       /\ \/ a.password = req[c].password /\ Answers(c, 200) /\ sessions' = sessions \cup {a}
          \/ a.password # req[c].password /\ Answers(c, 401) /\ UNCHANGED sessions
  /\ UNCHANGED <<accounts, owner>>

Upload(c) ==
  /\ Waits(c, "upload")
  /\ owner[req[c].number] = NoId
  /\ owner' = [owner EXCEPT ![req[c].number] = me[c]]
  /\ Answers(c, 202) \/ Unconfirmed(c)
  /\ UNCHANGED <<accounts, sessions>>

UploadKnown(c) ==
  /\ Waits(c, "upload")
  /\ \/ owner[req[c].number] = me[c] /\ Answers(c, 200)
     \/ owner[req[c].number] \notin {me[c], NoId} /\ Answers(c, 409)
  /\ UNCHANGED <<accounts, owner, sessions>>

Fails(c) ==
  /\ req[c] # NoRequest /\ reply[c] = 0
  /\ Answers(c, 500)
  /\ UNCHANGED <<accounts, owner, sessions>>

(* The client has its answer.                                              *)
Leaves(c) ==
  /\ reply[c] # 0
  /\ req' = [req EXCEPT ![c] = NoRequest]
  /\ me' = [me EXCEPT ![c] = NoId]
  /\ reply' = [reply EXCEPT ![c] = 0]
  /\ UNCHANGED <<accounts, owner, sessions>>

(* The service dies: no answers, and what was registered stays.            *)
Dies ==
  /\ req' = [c \in Calls |-> NoRequest]
  /\ me' = [c \in Calls |-> NoId]
  /\ reply' = [c \in Calls |-> 0]
  /\ UNCHANGED <<accounts, owner, sessions>>

Next ==
  \/ \E c \in Calls, l \in Logins, p \in Passwords, i \in Ids : AskToRegister(c, l, p, i)
  \/ \E c \in Calls, l \in Logins, p \in Passwords : AskToLogin(c, l, p)
  \/ \E c \in Calls, s \in sessions, n \in Numbers : AskToUpload(c, s, n)
  \/ \E c \in Calls : Register(c) \/ RegisterConflict(c) \/ Login(c)
  \/ \E c \in Calls : Upload(c) \/ UploadKnown(c) \/ Fails(c) \/ Leaves(c)
  \/ Dies

Spec == Init /\ [][Next]_registryVars

=============================================================================
