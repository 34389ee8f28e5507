--------------------------- MODULE HandlersProofs ---------------------------
(* Theorems about Handlers, for any users, calls, retries and failures:    *)
(* its invariants, and that it implements Registry.                        *)
EXTENDS Handlers, TLAPS

AccountType == [id : Ids, login : Logins, password : Passwords]

RowType == [id : Ids, login : Logins, password : Passwords \cup {NoPassword}]

CodeType == {0, 200, 202, 401, 409, 500}

(* Everything a call can change but its transaction and what it was asked. *)
Moved(c) ==
  /\ pc' = [pc EXCEPT ![c] = pc'[c]] /\ pc'[c] \in PCs
  /\ attempt' = [attempt EXCEPT ![c] = attempt'[c]] /\ attempt'[c] \in 0 .. MaxRetries
  /\ reply' = [reply EXCEPT ![c] = reply'[c]] /\ reply'[c] \in CodeType

-----------------------------------------------------------------------------
(* How a call moves: for each of the four ways, where to and with which    *)
(* reply.                                                                  *)

LEMMA GotoMoves ==
  ASSUME TypeOK, NEW c \in Calls, NEW where \in PCs, Goto(c, where)
  PROVE  Moved(c) /\ pc'[c] = where /\ UNCHANGED reply
  BY HandlersAssumption DEF Goto, Moved, TypeOK, HandlersAssumption, CodeType

LEMMA ProceedsMoves ==
  ASSUME TypeOK, NEW c \in Calls, NEW where \in PCs, Proceeds(c, where)
  PROVE  Moved(c) /\ pc'[c] = where /\ UNCHANGED reply
  BY DEF Proceeds, Moved, TypeOK, CodeType

LEMMA RepliesMoves ==
  ASSUME TypeOK, NEW c \in Calls, NEW code \in CodeType, Replies(c, code)
  PROVE  Moved(c) /\ pc'[c] = "done" /\ reply'[c] = code
  BY DEF Replies, Moved, TypeOK, CodeType, PCs

LEMMA GivesUpMoves ==
  ASSUME TypeOK, NEW c \in Calls, GivesUp(c)
  PROVE  /\ Moved(c)
         /\ \/ pc[c] = "find_order" /\ pc'[c] = "create_order"
            \/ pc'[c] = "done" /\ reply'[c] = 500
<1>1. CASE pc[c] = "find_order"
  BY <1>1, GotoMoves DEF GivesUp, PCs
<1>2. CASE pc[c] # "find_order"
  BY <1>2, RepliesMoves DEF GivesUp, CodeType
<1> QED
  BY <1>1, <1>2

LEMMA RetriesMoves ==
  ASSUME TypeOK, NEW c \in Calls, Retries(c) \/ GivesUp(c)
  PROVE  /\ Moved(c)
         /\ \/ pc'[c] = Beginning(c)
            \/ pc[c] = "find_order" /\ pc'[c] = "create_order"
            \/ pc'[c] = "done" /\ reply'[c] = 500
<1>1. CASE GivesUp(c)
  BY <1>1, GivesUpMoves
<1>2. CASE /\ attempt[c] < MaxRetries
           /\ pc' = [pc EXCEPT ![c] = Beginning(c)]
           /\ attempt' = [attempt EXCEPT ![c] = @ + 1]
           /\ UNCHANGED reply
  <2>1. Beginning(c) \in PCs
    BY DEF Beginning, TypeOK, PCs, TransactionPCs
  <2>2. attempt[c] + 1 \in 0 .. MaxRetries
    BY <1>2, HandlersAssumption DEF TypeOK, HandlersAssumption
  <2> QED
    BY <1>2, <2>1, <2>2 DEF Moved, TypeOK, CodeType
<1> QED
  BY <1>1, <1>2 DEF Retries

-----------------------------------------------------------------------------
(* Types                                                                   *)

LEMMA RequestFields ==
  ASSUME NEW q \in Requests \cup {NoRequest}
  PROVE  /\ q.kind \in {"register", "login"} => q.login \in Logins /\ q.password \in Passwords
         /\ q.kind = "upload" => q.number \in Numbers
<1>1. CASE q = NoRequest
  BY <1>1 DEF NoRequest
<1>2. CASE \E l \in Logins, p \in Passwords : q = Registration(l, p)
  BY <1>2 DEF Registration
<1>3. CASE \E l \in Logins, p \in Passwords : q = Authentication(l, p)
  BY <1>3 DEF Authentication
<1>4. CASE \E n \in Numbers : q = Upload(n)
  BY <1>4 DEF Upload
<1> QED
  BY <1>1, <1>2, <1>3, <1>4 DEF Requests

(* What is left to show of a call that moves within its request.           *)
LEMMA MoveKeepsTypes ==
  ASSUME TypeOK, NEW c \in Calls, Moved(c), UNCHANGED <<req, me>>, RightKind(c)',
         accounts' \subseteq AccountType, sessions' \subseteq AccountType,
         owner' \in [Numbers -> Ids \cup {NoId}],
         pending' \in [Calls -> SUBSET RowType],
         accepted' \in [Numbers -> Nat], faults' \in 0 .. MaxFaults
  PROVE  TypeOK'
<1>1. \A b \in Calls : RightKind(b)'
  BY DEF TypeOK, Moved, RightKind
<1>2. /\ pc' \in [Calls -> PCs]
      /\ attempt' \in [Calls -> 0 .. MaxRetries]
      /\ reply' \in [Calls -> CodeType]
  BY DEF TypeOK, Moved, CodeType
<1> QED
  BY <1>1, <1>2 DEF TypeOK, AccountType, RowType, CodeType

LEMMA InitTypeOK == Init => TypeOK
  BY HandlersAssumption DEF Init, TypeOK, PCs, RightKind, NoRequest, TransactionPCs,
     UploadPCs, HandlersAssumption

LEMMA CallingTypeOK ==
  ASSUME TypeOK, NEW c \in Calls, NEW q \in Requests, NEW i \in Ids \cup {NoId},
         NEW where \in PCs \ {"done"}, Calling(c, q, i, where),
         q.kind \in {"register", "upload"} => i \in Ids,
         where \in {"exists"} \cup TransactionPCs => q.kind = "register",
         where = "find_login" => q.kind = "login",
         where \in UploadPCs => q.kind = "upload"
  PROVE  TypeOK'
<1>1. Moved(c) /\ pc'[c] = where
  BY GotoMoves DEF Calling
<1>2. req'[c] = q /\ me'[c] = i
  BY DEF Calling, TypeOK
<1>3. RightKind(c)'
  BY <1>1, <1>2 DEF RightKind
<1>4. \A b \in Calls : RightKind(b)'
  BY <1>1, <1>3 DEF TypeOK, Moved, RightKind, Calling
<1>5. /\ req' \in [Calls -> Requests \cup {NoRequest}]
      /\ me' \in [Calls -> Ids \cup {NoId}]
  BY DEF Calling, TypeOK
<1>6. /\ pc' \in [Calls -> PCs]
      /\ attempt' \in [Calls -> 0 .. MaxRetries]
      /\ reply' \in [Calls -> CodeType]
  BY <1>1 DEF TypeOK, Moved, CodeType
<1> QED
  BY <1>4, <1>5, <1>6 DEF TypeOK, Calling, CodeType

LEMMA FaultCounted ==
  ASSUME TypeOK, Fault
  PROVE  faults' \in 0 .. MaxFaults
  BY HandlersAssumption DEF TypeOK, Fault, HandlersAssumption

LEMMA RegisterTypeOK ==
  ASSUME TypeOK, PendingOK, NEW c \in Calls, RegisterStep(c)
  PROVE  TypeOK' /\ Moved(c)
<1>0. /\ pc[c] \in {"exists"} \cup TransactionPCs /\ req[c].kind = "register"
      /\ me[c] \in Ids /\ req[c].login \in Logins /\ req[c].password \in Passwords
  BY RequestFields DEF TypeOK, RightKind, RegisterStep, Exists, InsertUser,
     InsertPasswordHash, Commit, TransactionPCs
<1>1. CASE Exists(c)
  <2>1. Moved(c) /\ pc'[c] \in {"done", "insert_user"}
    BY <1>1, GotoMoves, RepliesMoves DEF Exists, PCs, TransactionPCs, CodeType
  <2>2. RightKind(c)'
    BY <1>0, <1>1, <2>1 DEF RightKind, Exists, UploadPCs
  <2> QED
    BY <1>1, <2>1, <2>2, MoveKeepsTypes DEF Exists, TypeOK, AccountType, RowType
<1>2. CASE InsertUser(c)
  <2>1. Moved(c) /\ pc'[c] \in {"done", "insert_password"}
    BY <1>2, ProceedsMoves, RepliesMoves DEF InsertUser, PCs, TransactionPCs, CodeType
  <2>2. RightKind(c)'
    BY <1>0, <1>2, <2>1 DEF RightKind, InsertUser, UploadPCs
  <2>3. Account(me[c], req[c].login, NoPassword) \in RowType
    BY <1>0 DEF Account, RowType
  <2>4. pending' \in [Calls -> SUBSET RowType]
    BY <1>2, <2>3 DEF InsertUser, TypeOK, RowType
  <2> QED
    BY <1>2, <2>1, <2>2, <2>4, MoveKeepsTypes DEF InsertUser, TypeOK, AccountType
<1>3. CASE InsertPasswordHash(c)
  <2>1. Moved(c) /\ pc'[c] = "commit"
    BY <1>3, ProceedsMoves DEF InsertPasswordHash, PCs, TransactionPCs
  <2>2. RightKind(c)'
    BY <1>0, <1>3, <2>1 DEF RightKind, InsertPasswordHash, UploadPCs
  <2>3. Account(me[c], req[c].login, req[c].password) \in RowType
    BY <1>0 DEF Account, RowType
  <2>4. pending' \in [Calls -> SUBSET RowType]
    BY <1>3, <2>3 DEF InsertPasswordHash, TypeOK, RowType
  <2> QED
    BY <1>3, <2>1, <2>2, <2>4, MoveKeepsTypes DEF InsertPasswordHash, TypeOK, AccountType
<1>4. CASE Commit(c)
  <2>1. Moved(c) /\ pc'[c] = "done"
    BY <1>4, RepliesMoves DEF Commit, CodeType
  <2>2. RightKind(c)'
    BY <1>0, <1>4, <2>1 DEF RightKind, Commit, UploadPCs, TransactionPCs
  <2>3. /\ Account(me[c], req[c].login, req[c].password) \in AccountType
        /\ pending[c] = {Account(me[c], req[c].login, req[c].password)}
    BY <1>0, <1>4 DEF Account, AccountType, Commit, PendingOK
  <2>4. accounts' \subseteq AccountType /\ sessions' \subseteq AccountType
    BY <1>4, <2>3 DEF Commit, Commits, Authenticated, TypeOK, AccountType
  <2> QED
    BY <1>4, <2>1, <2>2, <2>4, MoveKeepsTypes DEF Commit, Commits, TypeOK, RowType
<1> QED
  BY <1>1, <1>2, <1>3, <1>4 DEF RegisterStep

LEMMA LoginTypeOK ==
  ASSUME TypeOK, NEW c \in Calls, FindByLogin(c)
  PROVE  TypeOK' /\ Moved(c) /\ pc'[c] = "done"
<1>1. Moved(c) /\ pc'[c] = "done"
  BY RepliesMoves DEF FindByLogin, CodeType
<1>2. RightKind(c)'
  BY <1>1 DEF FindByLogin, TypeOK, RightKind, UploadPCs, TransactionPCs
<1>3. req[c].login \in Logins /\ req[c].password \in Passwords
  BY RequestFields DEF FindByLogin, TypeOK, RightKind
<1>4. sessions' \subseteq AccountType
  BY <1>3 DEF FindByLogin, Authenticated, Account, TypeOK, AccountType
<1> QED
  BY <1>1, <1>2, <1>4, MoveKeepsTypes DEF FindByLogin, TypeOK, AccountType, RowType

LEMMA PostOrderTypeOK ==
  ASSUME TypeOK, NEW c \in Calls, PostOrderStep(c)
  PROVE  TypeOK' /\ Moved(c)
<1>0. pc[c] \in UploadPCs /\ me[c] \in Ids /\ req[c].number \in Numbers
  BY RequestFields DEF TypeOK, RightKind, PostOrderStep, FindByID, FindUserIDByAccrualID,
     CreateOrder, UploadPCs
<1>1. CASE FindByID(c)
  <2>1. Moved(c) /\ pc'[c] \in {"done", "find_order"}
    BY <1>1, GotoMoves, RepliesMoves DEF FindByID, PCs, CodeType
  <2>2. RightKind(c)'
    BY <1>0, <1>1, <2>1 DEF RightKind, FindByID, TypeOK, UploadPCs, TransactionPCs
  <2> QED
    BY <1>1, <2>1, <2>2, MoveKeepsTypes DEF FindByID, TypeOK, AccountType, RowType
<1>2. CASE FindUserIDByAccrualID(c)
  <2>1. Moved(c) /\ pc'[c] \in {"done", "create_order"}
    BY <1>2, GotoMoves, RepliesMoves DEF FindUserIDByAccrualID, PCs, CodeType
  <2>2. RightKind(c)'
    BY <1>0, <1>2, <2>1 DEF RightKind, FindUserIDByAccrualID, TypeOK, UploadPCs, TransactionPCs
  <2> QED
    BY <1>2, <2>1, <2>2, MoveKeepsTypes
       DEF FindUserIDByAccrualID, TypeOK, AccountType, RowType
<1>3. CASE CreateOrder(c)
  <2>1. Moved(c) /\ pc'[c] = "done"
    BY <1>3, RepliesMoves DEF CreateOrder, CodeType
  <2>2. RightKind(c)'
    BY <1>0, <1>3, <2>1 DEF RightKind, CreateOrder, TypeOK, UploadPCs, TransactionPCs
  <2>3. owner' \in [Numbers -> Ids \cup {NoId}] /\ accepted' \in [Numbers -> Nat]
    BY <1>0, <1>3 DEF CreateOrder, Inserted, TypeOK
  <2> QED
    BY <1>3, <2>1, <2>2, <2>3, MoveKeepsTypes DEF CreateOrder, TypeOK, AccountType, RowType
<1> QED
  BY <1>1, <1>2, <1>3 DEF PostOrderStep

LEMMA FaultTypeOK ==
  ASSUME TypeOK, PendingOK, NEW c \in Calls, FaultStep(c)
  PROVE  TypeOK' /\ Moved(c)
<1>1. CASE ExistsFails(c)
  <2>1. Moved(c) /\ pc'[c] = "insert_user"
    BY <1>1, GotoMoves DEF ExistsFails, PCs, TransactionPCs
  <2>2. RightKind(c)'
    BY <1>1, <2>1 DEF RightKind, ExistsFails, TypeOK, UploadPCs
  <2> QED
    BY <1>1, <2>1, <2>2, MoveKeepsTypes, FaultCounted
       DEF ExistsFails, TypeOK, AccountType, RowType
<1>2. CASE CommitUnknown(c)
  <2>1. Moved(c) /\ pc'[c] \in {"insert_user", "done"}
    BY <1>2, RetriesMoves DEF CommitUnknown, Beginning, TransactionPCs
  <2>2. RightKind(c)'
    BY <1>2, <2>1 DEF RightKind, CommitUnknown, TypeOK, UploadPCs, TransactionPCs
  <2>3. req[c].login \in Logins /\ req[c].password \in Passwords /\ me[c] \in Ids
    BY <1>2, RequestFields DEF CommitUnknown, TypeOK, RightKind, TransactionPCs
  <2>4. accounts' \subseteq AccountType
    BY <1>2, <2>3 DEF CommitUnknown, Commits, PendingOK, Account, TypeOK, AccountType
  <2> QED
    BY <1>2, <2>1, <2>2, <2>4, MoveKeepsTypes, FaultCounted
       DEF CommitUnknown, Commits, TypeOK, AccountType, RowType
<1>3. CASE CreateOrderUnknown(c)
  <2>1. Moved(c) /\ pc'[c] \in {"create_order", "done"}
    BY <1>3, RetriesMoves DEF CreateOrderUnknown, Beginning, TransactionPCs
  <2>2. RightKind(c)'
    BY <1>3, <2>1 DEF RightKind, CreateOrderUnknown, TypeOK, UploadPCs, TransactionPCs
  <2>3. owner \in [Numbers -> Ids \cup {NoId}] /\ me[c] \in Ids \cup {NoId}
    BY DEF TypeOK
  <2>4. owner' = [owner EXCEPT ![req[c].number] = me[c]]
    BY <1>3 DEF CreateOrderUnknown, Inserted
  <2>5. owner' \in [Numbers -> Ids \cup {NoId}]
    BY <2>3, <2>4
  <2> QED
    BY <1>3, <2>1, <2>2, <2>5, MoveKeepsTypes, FaultCounted
       DEF CreateOrderUnknown, TypeOK, AccountType, RowType
<1>4. ASSUME NEW r \in BOOLEAN, StatementFails(c, r) PROVE TypeOK' /\ Moved(c)
  <2>1. /\ Moved(c)
        /\ \/ pc'[c] = Beginning(c)
           \/ pc[c] = "find_order" /\ pc'[c] = "create_order"
           \/ pc'[c] = "done"
    BY <1>4, RetriesMoves, GivesUpMoves DEF StatementFails
  <2>2. RightKind(c)'
    BY <1>4, <2>1 DEF RightKind, StatementFails, Beginning, TypeOK, UploadPCs, TransactionPCs
  <2> QED
    BY <1>4, <2>1, <2>2, MoveKeepsTypes, FaultCounted
       DEF StatementFails, TypeOK, AccountType, RowType
<1> QED
  BY <1>1, <1>2, <1>3, <1>4 DEF FaultStep

LEMMA NextTypeOK == TypeOK /\ PendingOK /\ [Next]_vars => TypeOK'
<1> SUFFICES ASSUME TypeOK, PendingOK, [Next]_vars PROVE TypeOK'
  OBVIOUS
<1>1. ASSUME NEW c \in Calls, NEW l \in Logins, NEW p \in Passwords, NEW i \in Ids,
             CallRegister(c, l, p, i)
      PROVE  TypeOK'
  <2>1. Registration(l, p) \in Requests /\ Registration(l, p).kind = "register"
    BY DEF Requests, Registration
  <2> QED
    BY <1>1, <2>1, CallingTypeOK DEF CallRegister, PCs, UploadPCs
<1>2. ASSUME NEW c \in Calls, NEW l \in Logins, NEW p \in Passwords, CallLogin(c, l, p)
      PROVE  TypeOK'
  <2>1. Authentication(l, p) \in Requests /\ Authentication(l, p).kind = "login"
    BY DEF Requests, Authentication
  <2> QED
    BY <1>2, <2>1, CallingTypeOK DEF CallLogin, PCs, UploadPCs, TransactionPCs
<1>3. ASSUME NEW c \in Calls, NEW s \in sessions, NEW n \in Numbers, CallPostOrder(c, s, n)
      PROVE  TypeOK'
  <2>1. Upload(n) \in Requests /\ Upload(n).kind = "upload" /\ s.id \in Ids
    BY DEF Requests, Upload, TypeOK
  <2> QED
    BY <1>3, <2>1, CallingTypeOK DEF CallPostOrder, PCs, UploadPCs, TransactionPCs
<1>4. ASSUME NEW c \in Calls, Respond(c) PROVE TypeOK'
  <2>1. \A b \in Calls : RightKind(b)'
    BY <1>4 DEF Respond, TypeOK, RightKind, NoRequest, UploadPCs, TransactionPCs
  <2> QED
    BY <1>4, <2>1, HandlersAssumption DEF Respond, TypeOK, PCs, HandlersAssumption
<1>5. CASE UNCHANGED vars
  BY <1>5 DEF vars, callVars, TypeOK, RightKind
<1>6. CASE Crash
  <2>1. faults' \in 0 .. MaxFaults
    BY <1>6, FaultCounted DEF Crash
  <2>2. \A c \in Calls : RightKind(c)'
    BY <1>6 DEF Crash, RightKind, NoRequest, UploadPCs, TransactionPCs
  <2> QED
    BY <1>6, <2>1, <2>2, HandlersAssumption DEF Crash, TypeOK, PCs, HandlersAssumption
<1> QED
  BY <1>1, <1>2, <1>3, <1>4, <1>5, <1>6, RegisterTypeOK, LoginTypeOK, PostOrderTypeOK, FaultTypeOK
     DEF Next, CallStep

-----------------------------------------------------------------------------
(* The rows of open transactions                                           *)

LEMMA InitPendingOK == Init => PendingOK
  BY DEF Init, PendingOK

(* A call whose rows follow its step, and that leaves the others alone.    *)
LEMMA MoveKeepsPending ==
  ASSUME TypeOK, PendingOK, NEW c \in Calls, Moved(c), UNCHANGED <<req, me>>,
         NEW rows, pending' = [pending EXCEPT ![c] = rows],
         rows = CASE pc'[c] = "insert_password" -> {Account(me[c], req[c].login, NoPassword)}
                  [] pc'[c] = "commit" -> {Account(me[c], req[c].login, req[c].password)}
                  [] OTHER -> {}
  PROVE  PendingOK'
<1> SUFFICES ASSUME NEW b \in Calls
             PROVE  pending'[b] =
                      CASE pc'[b] = "insert_password" -> {Account(me[b], req[b].login, NoPassword)}
                        [] pc'[b] = "commit" -> {Account(me[b], req[b].login, req[b].password)}
                        [] OTHER -> {}
  BY DEF PendingOK, Account
<1>1. CASE b = c
  BY <1>1 DEF TypeOK
<1>2. CASE b # c
  BY <1>2 DEF TypeOK, PendingOK, Moved
<1> QED
  BY <1>1, <1>2

LEMMA NextPendingOK == TypeOK /\ PendingOK /\ [Next]_vars => PendingOK'
<1> SUFFICES ASSUME TypeOK, PendingOK, [Next]_vars PROVE PendingOK'
  OBVIOUS
<1>1. ASSUME NEW c \in Calls, RegisterStep(c) PROVE PendingOK'
  <2>0. Moved(c)
    BY <1>1, RegisterTypeOK
  <2>1. CASE Exists(c)
    <3>1. pc'[c] \in {"done", "insert_user"}
      BY <2>1, GotoMoves, RepliesMoves DEF Exists, PCs, TransactionPCs, CodeType
    <3>2. pending[c] = {}
      BY <2>1 DEF Exists, PendingOK
    <3>3. pending' = [pending EXCEPT ![c] = {}]
      BY <2>1, <3>2 DEF Exists, TypeOK
    <3> QED
      BY <2>0, <2>1, <3>1, <3>3, MoveKeepsPending DEF Exists
  <2>2. CASE InsertUser(c) /\ UNCHANGED pending
    <3>1. pending[c] = {}
      BY <2>2 DEF InsertUser, PendingOK
    <3>2. pending' = [pending EXCEPT ![c] = {}]
      BY <2>2, <3>1 DEF TypeOK
    <3>5. pending' # [pending EXCEPT ![c] = {Account(me[c], req[c].login, NoPassword)}]
      BY <2>2, <3>1 DEF TypeOK
    <3>3. Replies(c, 500)
      BY <2>2, <3>5 DEF InsertUser
    <3>4. pc'[c] = "done"
      BY <3>3, RepliesMoves DEF CodeType
    <3> QED
      BY <2>0, <2>2, <3>4, <3>2, MoveKeepsPending DEF InsertUser
  <2>3. CASE InsertUser(c) /\ ~UNCHANGED pending
    <3>1. /\ pc'[c] = "insert_password"
          /\ pending' = [pending EXCEPT ![c] = {Account(me[c], req[c].login, NoPassword)}]
      BY <2>3, ProceedsMoves DEF InsertUser, PCs, TransactionPCs
    <3> QED
      BY <2>0, <2>3, <3>1, MoveKeepsPending DEF InsertUser
  <2>4. CASE InsertPasswordHash(c)
    <3>1. pc'[c] = "commit"
      BY <2>4, ProceedsMoves DEF InsertPasswordHash, PCs, TransactionPCs
    <3> QED
      BY <2>0, <2>4, <3>1, MoveKeepsPending DEF InsertPasswordHash
  <2>5. CASE Commit(c)
    <3>1. pc'[c] = "done"
      BY <2>5, RepliesMoves DEF Commit, CodeType
    <3> QED
      BY <2>0, <2>5, <3>1, MoveKeepsPending DEF Commit, Commits
  <2> QED
    BY <1>1, <2>1, <2>2, <2>3, <2>4, <2>5 DEF RegisterStep
<1>2. ASSUME NEW c \in Calls, Moved(c), UNCHANGED <<req, me, pending>>,
             pc[c] \notin {"insert_password", "commit"},
             pc'[c] \notin {"insert_password", "commit"}
      PROVE  PendingOK'
  <2>1. pending' = [pending EXCEPT ![c] = {}]
    BY <1>2 DEF PendingOK, TypeOK
  <2> QED
    BY <1>2, <2>1, MoveKeepsPending
<1>3. ASSUME NEW c \in Calls, FindByLogin(c) PROVE PendingOK'
  BY <1>2, <1>3, LoginTypeOK DEF FindByLogin
<1>4. ASSUME NEW c \in Calls, PostOrderStep(c) PROVE PendingOK'
  <2>1. pc'[c] \in {"done", "find_order", "create_order"}
    BY <1>4, GotoMoves, RepliesMoves
       DEF PostOrderStep, FindByID, FindUserIDByAccrualID, CreateOrder, PCs, CodeType
  <2> QED
    BY <1>2, <1>4, <2>1, PostOrderTypeOK
       DEF PostOrderStep, FindByID, FindUserIDByAccrualID, CreateOrder
<1>5. ASSUME NEW c \in Calls, FaultStep(c) PROVE PendingOK'
  <2>0. Moved(c)
    BY <1>5, FaultTypeOK
  <2>1. CASE ExistsFails(c)
    <3>1. pc'[c] = "insert_user"
      BY <2>1, GotoMoves DEF ExistsFails, PCs, TransactionPCs
    <3> QED
      BY <1>2, <2>0, <2>1, <3>1 DEF ExistsFails
  <2>2. CASE CommitUnknown(c)
    <3>1. pc'[c] \in {"insert_user", "done"}
      BY <2>2, RetriesMoves DEF CommitUnknown, Beginning, TransactionPCs
    <3> QED
      BY <2>0, <2>2, <3>1, MoveKeepsPending DEF CommitUnknown, Commits
  <2>3. CASE CreateOrderUnknown(c)
    <3>1. pc'[c] \in {"create_order", "done"}
      BY <2>3, RetriesMoves DEF CreateOrderUnknown, Beginning, TransactionPCs
    <3> QED
      BY <1>2, <2>0, <2>3, <3>1 DEF CreateOrderUnknown
  <2>4. ASSUME NEW r \in BOOLEAN, StatementFails(c, r) PROVE PendingOK'
    <3>1. \/ pc'[c] = Beginning(c) \/ pc'[c] \in {"create_order", "done"}
      BY <2>4, RetriesMoves, GivesUpMoves DEF StatementFails
    <3>2. pc'[c] \notin {"insert_password", "commit"}
      BY <3>1 DEF Beginning, TransactionPCs
    <3> QED
      BY <2>0, <2>4, <3>2, MoveKeepsPending DEF StatementFails
  <2> QED
    BY <1>5, <2>1, <2>2, <2>3, <2>4 DEF FaultStep
<1>6. ASSUME NEW c \in Calls, pc[c] \notin {"insert_password", "commit"},
             UNCHANGED pending,
             \A b \in Calls \ {c} : pc'[b] = pc[b] /\ req'[b] = req[b] /\ me'[b] = me[b],
             pc'[c] \notin {"insert_password", "commit"}
      PROVE  PendingOK'
  <2> SUFFICES ASSUME NEW b \in Calls
               PROVE  pending[b] =
                        CASE pc'[b] = "insert_password" ->
                               {Account(me'[b], req'[b].login, NoPassword)}
                          [] pc'[b] = "commit" ->
                               {Account(me'[b], req'[b].login, req'[b].password)}
                          [] OTHER -> {}
    BY <1>6 DEF PendingOK, Account
  <2>1. CASE b = c
    BY <1>6, <2>1 DEF PendingOK
  <2>2. CASE b # c
    BY <1>6, <2>2 DEF PendingOK
  <2> QED
    BY <2>1, <2>2
<1>7. ASSUME NEW c \in Calls, NEW q, NEW i, NEW where \in PCs \ TransactionPCs,
             Calling(c, q, i, where)
      PROVE  PendingOK'
  BY <1>6, <1>7 DEF Calling, Goto, TypeOK, TransactionPCs
<1>8. ASSUME NEW c \in Calls, Respond(c) PROVE PendingOK'
  BY <1>6, <1>8 DEF Respond, TypeOK
<1>9. CASE UNCHANGED vars
  BY <1>9 DEF vars, callVars, PendingOK
<1>10. CASE Crash
  BY <1>10 DEF Crash, PendingOK
<1> QED
  <2>1. {"exists", "find_login", "find_user"} \subseteq PCs \ TransactionPCs
    BY DEF PCs, TransactionPCs
  <2> QED
    BY <1>1, <1>3, <1>4, <1>5, <1>7, <1>8, <1>9, <1>10, <2>1
       DEF Next, CallStep, CallRegister, CallLogin, CallPostOrder

-----------------------------------------------------------------------------
(* One account per login                                                   *)

(* Why it holds: a login is held by one committed row or by one open       *)
(* transaction, which all others wait for.                                 *)
LoginsHeld ==
  /\ \A a, b \in accounts : a.login = b.login => a = b
  /\ \A c \in Calls : \A r \in pending[c] :
       /\ \A a \in accounts : a.login # r.login
       /\ \A b \in Calls \ {c} : \A s \in pending[b] : s.login # r.login

LEMMA AtMostOneRow ==
  ASSUME PendingOK, NEW c \in Calls
  PROVE  \A r, s \in pending[c] : r = s
  BY DEF PendingOK

LEMMA HeldIsOne == TypeOK /\ PendingOK /\ LoginsHeld => OneAccountPerLogin
<1> SUFFICES ASSUME TypeOK, PendingOK, LoginsHeld,
                    NEW a \in accounts \cup UNION {pending[c] : c \in Calls},
                    NEW b \in accounts \cup UNION {pending[c] : c \in Calls},
                    a.login = b.login
             PROVE  a = b
  BY DEF OneAccountPerLogin
<1>1. CASE a \in accounts /\ b \in accounts
  BY <1>1 DEF LoginsHeld
<1>2. CASE a \notin accounts \/ b \notin accounts
  <2>1. \A c \in Calls : \A r, s \in pending[c] : r = s
    BY AtMostOneRow
  <2>2. ASSUME NEW c \in Calls, NEW r \in pending[c],
               NEW s \in accounts \cup UNION {pending[d] : d \in Calls}, r.login = s.login
        PROVE  r = s
    <3>1. s \notin accounts
      BY <2>2 DEF LoginsHeld
    <3>2. PICK d \in Calls : s \in pending[d]
      BY <2>2, <3>1
    <3>3. d = c
      BY <2>2, <3>2 DEF LoginsHeld
    <3> QED
      BY <2>1, <2>2, <3>2, <3>3
  <2>3. CASE a \notin accounts
    <3>1. PICK c \in Calls : a \in pending[c]
      BY <2>3
    <3> QED
      BY <2>2, <3>1
  <2>4. CASE b \notin accounts
    <3>1. PICK c \in Calls : b \in pending[c]
      BY <2>4
    <3> QED
      BY <2>2, <3>1
  <2> QED
    BY <1>2, <2>3, <2>4
<1> QED
  BY <1>1, <1>2

LEMMA HeldByFewer ==
  ASSUME LoginsHeld, UNCHANGED accounts, \A c \in Calls : pending'[c] \subseteq pending[c]
  PROVE  LoginsHeld'
  BY DEF LoginsHeld

LEMMA HeldAfterCommit ==
  ASSUME TypeOK, PendingOK, LoginsHeld, NEW c \in Calls, Commits(c)
  PROVE  LoginsHeld'
<1>1. \A r, s \in pending[c] : r = s
  BY AtMostOneRow
<1>2. pending'[c] = {} /\ \A b \in Calls \ {c} : pending'[b] = pending[b]
  BY DEF Commits, TypeOK
<1>3. \A a, b \in accounts' : a.login = b.login => a = b
  BY <1>1 DEF Commits, LoginsHeld
<1>4. ASSUME NEW b \in Calls, NEW r \in pending'[b]
      PROVE  /\ \A a \in accounts' : a.login # r.login
             /\ \A d \in Calls \ {b} : \A s \in pending'[d] : s.login # r.login
  <2>1. b # c /\ r \in pending[b]
    BY <1>2, <1>4
  <2>2. \A a \in accounts \cup pending[c] : a.login # r.login
    BY <2>1 DEF LoginsHeld
  <2>3. accounts' = accounts \cup pending[c]
    BY DEF Commits
  <2>4. ASSUME NEW d \in Calls \ {b}, NEW s \in pending'[d] PROVE s.login # r.login
    <3>1. s \in pending[d]
      BY <1>2, <2>4
    <3> QED
      BY <2>1, <2>4, <3>1 DEF LoginsHeld
  <2> QED
    BY <2>2, <2>3, <2>4
<1> QED
  BY <1>3, <1>4 DEF LoginsHeld

(* The row of a statement of c, for a login that nobody else holds.        *)
LEMMA HeldAfterInsert ==
  ASSUME TypeOK, LoginsHeld, UNCHANGED accounts, NEW c \in Calls, NEW r,
         pending' = [pending EXCEPT ![c] = {r}],
         \A a \in accounts : a.login # r.login,
         \A b \in Calls \ {c} : \A s \in pending[b] : s.login # r.login
  PROVE  LoginsHeld'
<1>1. pending'[c] = {r} /\ \A b \in Calls \ {c} : pending'[b] = pending[b]
  BY DEF TypeOK
<1> QED
  BY <1>1 DEF LoginsHeld

LEMMA NextLoginsHeld == TypeOK /\ PendingOK /\ LoginsHeld /\ [Next]_vars => LoginsHeld'
<1> SUFFICES ASSUME TypeOK, PendingOK, LoginsHeld, [Next]_vars PROVE LoginsHeld'
  OBVIOUS
<1>1. CASE UNCHANGED <<accounts, pending>>
  BY <1>1, HeldByFewer
<1>2. ASSUME NEW c \in Calls, Commits(c) PROVE LoginsHeld'
  BY <1>2, HeldAfterCommit
<1>3. ASSUME NEW c \in Calls, InsertUser(c) PROVE LoginsHeld'
  <2>1. CASE UNCHANGED pending
    BY <1>1, <1>3, <2>1 DEF InsertUser
  <2>2. CASE ~UNCHANGED pending
    <3> DEFINE r == Account(me[c], req[c].login, NoPassword)
    <3>1. /\ UNCHANGED accounts
          /\ pending' = [pending EXCEPT ![c] = {r}]
          /\ \A a \in accounts : a.login # req[c].login
          /\ \A b \in Calls : \A s \in pending[b] : s.login # req[c].login
      BY <1>3, <2>2 DEF InsertUser
    <3>2. r.login = req[c].login
      BY DEF Account
    <3> HIDE DEF r
    <3>3. \A a \in accounts : a.login # r.login
      BY <3>1, <3>2
    <3>4. \A b \in Calls \ {c} : \A s \in pending[b] : s.login # r.login
      BY <3>1, <3>2
    <3> QED
      BY <3>1, <3>3, <3>4, HeldAfterInsert
  <2> QED
    BY <2>1, <2>2
<1>4. ASSUME NEW c \in Calls, InsertPasswordHash(c) PROVE LoginsHeld'
  <2> DEFINE old == Account(me[c], req[c].login, NoPassword)
             new == Account(me[c], req[c].login, req[c].password)
  <2>1. old \in pending[c] /\ old.login = req[c].login /\ new.login = req[c].login
    BY <1>4 DEF InsertPasswordHash, PendingOK, Account
  <2>2. UNCHANGED accounts /\ pending' = [pending EXCEPT ![c] = {new}]
    BY <1>4 DEF InsertPasswordHash
  <2> HIDE DEF old, new
  <2>3. /\ \A a \in accounts : a.login # new.login
        /\ \A b \in Calls \ {c} : \A s \in pending[b] : s.login # new.login
    BY <2>1 DEF LoginsHeld
  <2> QED
    BY <2>2, <2>3, HeldAfterInsert
<1>5. ASSUME NEW c \in Calls, NEW r \in BOOLEAN, StatementFails(c, r) PROVE LoginsHeld'
  BY <1>5, HeldByFewer DEF StatementFails, TypeOK
<1>6. ASSUME NEW c \in Calls, RegisterStep(c) PROVE LoginsHeld'
  BY <1>1, <1>2, <1>3, <1>4, <1>6 DEF RegisterStep, Exists, Commit
<1>7. ASSUME NEW c \in Calls, FaultStep(c) PROVE LoginsHeld'
  BY <1>1, <1>2, <1>5, <1>7 DEF FaultStep, ExistsFails, CommitUnknown, CreateOrderUnknown
<1>8. ASSUME NEW c \in Calls, PostOrderStep(c) PROVE LoginsHeld'
  BY <1>1, <1>8 DEF PostOrderStep, FindByID, FindUserIDByAccrualID, CreateOrder
<1>9. ASSUME NEW c \in Calls, FindByLogin(c) PROVE LoginsHeld'
  BY <1>1, <1>9 DEF FindByLogin
<1>10. ASSUME NEW c \in Calls, Respond(c) PROVE LoginsHeld'
  BY <1>1, <1>10 DEF Respond
<1>11. ASSUME NEW c \in Calls, NEW q, NEW i, NEW where, Calling(c, q, i, where)
       PROVE  LoginsHeld'
  BY <1>1, <1>11 DEF Calling
<1>12. CASE UNCHANGED vars
  BY <1>1, <1>12 DEF vars, callVars
<1>13. CASE Crash
  BY <1>13, HeldByFewer DEF Crash
<1> QED
  BY <1>6, <1>7, <1>8, <1>9, <1>10, <1>11, <1>12, <1>13
     DEF Next, CallStep, CallRegister, CallLogin, CallPostOrder

-----------------------------------------------------------------------------
(* Sessions                                                                *)

LEMMA NextSessionsGenuine ==
  TypeOK /\ PendingOK /\ SessionsGenuine /\ [Next]_vars => SessionsGenuine'
<1> SUFFICES ASSUME TypeOK, PendingOK, SessionsGenuine, [Next]_vars PROVE SessionsGenuine'
  OBVIOUS
<1>1. CASE UNCHANGED sessions /\ accounts \subseteq accounts'
  BY <1>1 DEF SessionsGenuine
<1>2. ASSUME NEW c \in Calls, Commit(c) PROVE SessionsGenuine'
  <2>1. pending[c] = {Account(me[c], req[c].login, req[c].password)}
    BY <1>2 DEF Commit, PendingOK
  <2> QED
    BY <1>2, <2>1 DEF Commit, Commits, Authenticated, SessionsGenuine
<1>3. ASSUME NEW c \in Calls, FindByLogin(c) PROVE SessionsGenuine'
  <2>1. ASSUME NEW a \in accounts, HasLogin(a, req[c].login), a.password = req[c].password
        PROVE  Account(a.id, req[c].login, req[c].password) = a
    BY <2>1 DEF HasLogin, Account, TypeOK
  <2> QED
    BY <1>3, <2>1 DEF FindByLogin, Authenticated, SessionsGenuine
<1>4. ASSUME NEW c \in Calls, RegisterStep(c) PROVE SessionsGenuine'
  BY <1>1, <1>2, <1>4 DEF RegisterStep, Exists, InsertUser, InsertPasswordHash
<1>5. ASSUME NEW c \in Calls, FaultStep(c) PROVE SessionsGenuine'
  BY <1>1, <1>5 DEF FaultStep, ExistsFails, CommitUnknown, Commits, CreateOrderUnknown,
     StatementFails
<1>6. ASSUME NEW c \in Calls, PostOrderStep(c) PROVE SessionsGenuine'
  BY <1>1, <1>6 DEF PostOrderStep, FindByID, FindUserIDByAccrualID, CreateOrder
<1>7. ASSUME NEW c \in Calls, Respond(c) PROVE SessionsGenuine'
  BY <1>1, <1>7 DEF Respond
<1>8. ASSUME NEW c \in Calls, NEW q, NEW i, NEW where, Calling(c, q, i, where)
      PROVE  SessionsGenuine'
  BY <1>1, <1>8 DEF Calling
<1>9. CASE UNCHANGED vars
  BY <1>1, <1>9 DEF vars
<1>10. CASE Crash
  BY <1>1, <1>10 DEF Crash
<1> QED
  BY <1>3, <1>4, <1>5, <1>6, <1>7, <1>8, <1>9, <1>10
     DEF Next, CallStep, CallRegister, CallLogin, CallPostOrder

-----------------------------------------------------------------------------
(* Uploads                                                                 *)

Counted == \A n \in Numbers : accepted[n] <= 1 /\ (owner[n] = NoId => accepted[n] = 0)

AnswerTrue(c) ==
  pc[c] = "done" /\ req[c].kind = "upload" =>
    /\ reply[c] \in {200, 202} => owner[req[c].number] = me[c]
    /\ reply[c] = 409 => owner[req[c].number] \notin {me[c], NoId}

(* Numbers change hands once, from nobody to somebody, so that an answer   *)
(* that was true stays true.                                               *)
LEMMA OwnersStand ==
  ASSUME TypeOK, UploadAnswersTrue, Counted', NEW c \in Calls, AnswerTrue(c)',
         \A b \in Calls \ {c} : /\ pc'[b] = pc[b] /\ req'[b] = req[b]
                                /\ me'[b] = me[b] /\ reply'[b] = reply[b],
         \A n \in Numbers : owner[n] # NoId => owner'[n] = owner[n]
  PROVE  UploadAnswersTrue'
<1>1. ASSUME NEW b \in Calls \ {c} PROVE AnswerTrue(b)'
  <2> SUFFICES ASSUME pc[b] = "done", req[b].kind = "upload"
               PROVE  /\ reply[b] \in {200, 202} => owner'[req[b].number] = me[b]
                      /\ reply[b] = 409 => owner'[req[b].number] \notin {me[b], NoId}
    BY DEF AnswerTrue
  <2>1. req[b].number \in Numbers /\ me[b] # NoId
    BY RequestFields, HandlersAssumption DEF TypeOK, RightKind, HandlersAssumption
  <2>2. /\ reply[b] \in {200, 202} => owner[req[b].number] = me[b]
        /\ reply[b] = 409 => owner[req[b].number] \notin {me[b], NoId}
    BY DEF UploadAnswersTrue
  <2> QED
    BY <2>1, <2>2
<1> QED
  BY <1>1 DEF UploadAnswersTrue, AnswerTrue, Counted

(* A step that stores no order and whose call, if it has an answer now,    *)
(* was not uploading or has a true one.                                    *)
LEMMA NothingStored ==
  ASSUME TypeOK, UploadAnswersTrue, UNCHANGED <<owner, accepted>>, NEW c \in Calls,
         AnswerTrue(c)',
         \A b \in Calls \ {c} : /\ pc'[b] = pc[b] /\ req'[b] = req[b]
                                /\ me'[b] = me[b] /\ reply'[b] = reply[b]
  PROVE  UploadAnswersTrue'
<1>1. Counted'
  BY DEF UploadAnswersTrue, Counted
<1> QED
  BY <1>1, OwnersStand

LEMMA MovesAlone ==
  ASSUME TypeOK, NEW c \in Calls, Moved(c), UNCHANGED <<req, me>>
  PROVE  \A b \in Calls \ {c} : /\ pc'[b] = pc[b] /\ req'[b] = req[b]
                                 /\ me'[b] = me[b] /\ reply'[b] = reply[b]
  BY DEF TypeOK, Moved

LEMMA StoredForMe ==
  ASSUME TypeOK, UploadAnswersTrue, NEW c \in Calls, pc[c] = "create_order",
         owner[req[c].number] = NoId, Inserted(c),
         \/ UNCHANGED accepted
         \/ accepted' = [accepted EXCEPT ![req[c].number] = @ + 1]
  PROVE  /\ Counted'
         /\ \A n \in Numbers : owner[n] # NoId => owner'[n] = owner[n]
         /\ owner'[req[c].number] = me[c]
<1>1. req[c].number \in Numbers /\ me[c] \in Ids /\ me[c] # NoId
  BY RequestFields, HandlersAssumption DEF TypeOK, RightKind, UploadPCs, HandlersAssumption
<1>2. owner \in [Numbers -> Ids \cup {NoId}] /\ accepted \in [Numbers -> Nat]
  BY DEF TypeOK
<1>3. owner' = [owner EXCEPT ![req[c].number] = me[c]]
  BY DEF Inserted
<1>4. Counted /\ accepted[req[c].number] = 0
  BY <1>1 DEF UploadAnswersTrue, Counted
<1>5. Counted'
  BY <1>1, <1>2, <1>3, <1>4 DEF Counted
<1> QED
  BY <1>1, <1>2, <1>3, <1>5

LEMMA NextUploads ==
  TypeOK /\ PendingOK /\ UploadAnswersTrue /\ [Next]_vars => UploadAnswersTrue'
<1> SUFFICES ASSUME TypeOK, PendingOK, UploadAnswersTrue, [Next]_vars
             PROVE  UploadAnswersTrue'
  OBVIOUS
<1>1. ASSUME NEW c \in Calls, Moved(c), UNCHANGED <<owner, accepted, req, me>>, AnswerTrue(c)'
      PROVE  UploadAnswersTrue'
  BY <1>1, MovesAlone, NothingStored
<1>2. ASSUME NEW c \in Calls, RegisterStep(c) PROVE UploadAnswersTrue'
  <2>1. req[c].kind = "register" /\ UNCHANGED <<owner, accepted, req, me>>
    BY <1>2 DEF RegisterStep, Exists, InsertUser, InsertPasswordHash, Commit, TypeOK,
       RightKind, TransactionPCs
  <2> QED
    BY <1>1, <1>2, <2>1, RegisterTypeOK DEF AnswerTrue
<1>3. ASSUME NEW c \in Calls, FindByLogin(c) PROVE UploadAnswersTrue'
  <2>1. req[c].kind = "login" /\ UNCHANGED <<owner, accepted, req, me>>
    BY <1>3 DEF FindByLogin, TypeOK, RightKind
  <2> QED
    BY <1>1, <1>3, <2>1, LoginTypeOK DEF AnswerTrue
<1>4. ASSUME NEW c \in Calls, PostOrderStep(c) PROVE UploadAnswersTrue'
  <2>0. Moved(c)
    BY <1>4, PostOrderTypeOK
  <2>1. CASE FindByID(c)
    <3>1. pc'[c] = "find_order" \/ reply'[c] = 500
      BY <2>1, GotoMoves, RepliesMoves DEF FindByID, PCs, CodeType
    <3> QED
      BY <1>1, <2>0, <2>1, <3>1 DEF FindByID, AnswerTrue
  <2>2. CASE FindUserIDByAccrualID(c)
    <3>1. \/ pc'[c] = "create_order"
          \/ reply'[c] = 200 /\ owner[req[c].number] = me[c]
          \/ reply'[c] = 409 /\ owner[req[c].number] \notin {me[c], NoId}
      BY <2>2, GotoMoves, RepliesMoves DEF FindUserIDByAccrualID, PCs, CodeType
    <3> QED
      BY <1>1, <2>0, <2>2, <3>1 DEF FindUserIDByAccrualID, AnswerTrue
  <2>3. CASE CreateOrder(c) /\ owner[req[c].number] # NoId
    <3>1. reply'[c] = 500
      BY <2>3, RepliesMoves DEF CreateOrder, CodeType
    <3> QED
      BY <1>1, <2>0, <2>3, <3>1 DEF CreateOrder, AnswerTrue
  <2>4. CASE CreateOrder(c) /\ owner[req[c].number] = NoId
    <3>1. reply'[c] = 202
      BY <2>4, RepliesMoves DEF CreateOrder, CodeType
    <3>2. /\ Counted'
          /\ \A n \in Numbers : owner[n] # NoId => owner'[n] = owner[n]
          /\ owner'[req[c].number] = me[c]
      BY <2>4, StoredForMe DEF CreateOrder
    <3>3. AnswerTrue(c)'
      BY <2>4, <3>1, <3>2 DEF CreateOrder, AnswerTrue
    <3> QED
      BY <2>0, <2>4, <3>2, <3>3, MovesAlone, OwnersStand DEF CreateOrder
  <2> QED
    BY <1>4, <2>1, <2>2, <2>3, <2>4 DEF PostOrderStep
<1>5. ASSUME NEW c \in Calls, FaultStep(c) PROVE UploadAnswersTrue'
  <2>0. Moved(c)
    BY <1>5, FaultTypeOK
  <2>1. CASE ExistsFails(c)
    <3>1. pc'[c] = "insert_user"
      BY <2>1, GotoMoves DEF ExistsFails, PCs, TransactionPCs
    <3> QED
      BY <1>1, <2>0, <2>1, <3>1 DEF ExistsFails, AnswerTrue
  <2>2. CASE CommitUnknown(c)
    <3>1. pc'[c] = "insert_user" \/ reply'[c] = 500
      BY <2>2, RetriesMoves DEF CommitUnknown, Beginning, TransactionPCs
    <3> QED
      BY <1>1, <2>0, <2>2, <3>1 DEF CommitUnknown, AnswerTrue
  <2>3. CASE CreateOrderUnknown(c)
    <3>1. pc'[c] = "create_order" \/ reply'[c] = 500
      BY <2>3, RetriesMoves DEF CreateOrderUnknown, Beginning, TransactionPCs
    <3>2. /\ Counted'
          /\ \A n \in Numbers : owner[n] # NoId => owner'[n] = owner[n]
      BY <2>3, StoredForMe DEF CreateOrderUnknown
    <3>3. AnswerTrue(c)'
      BY <3>1 DEF AnswerTrue
    <3> QED
      BY <2>0, <2>3, <3>2, <3>3, MovesAlone, OwnersStand DEF CreateOrderUnknown
  <2>4. ASSUME NEW r \in BOOLEAN, StatementFails(c, r) PROVE UploadAnswersTrue'
    <3>1. \/ pc'[c] = Beginning(c) \/ pc'[c] = "create_order" \/ reply'[c] = 500
      BY <2>4, RetriesMoves, GivesUpMoves DEF StatementFails
    <3>2. pc'[c] # "done" \/ reply'[c] = 500
      BY <2>4, <3>1 DEF StatementFails, Beginning, TransactionPCs
    <3> QED
      BY <1>1, <2>0, <2>4, <3>2 DEF StatementFails, AnswerTrue
  <2> QED
    BY <1>5, <2>1, <2>2, <2>3, <2>4 DEF FaultStep
<1>6. ASSUME NEW c \in Calls, NEW q, NEW i, NEW where \in PCs \ {"done"}, Calling(c, q, i, where)
      PROVE  UploadAnswersTrue'
  <2>1. pc'[c] # "done"
    BY <1>6 DEF Calling, Goto, TypeOK
  <2>2. \A b \in Calls \ {c} : /\ pc'[b] = pc[b] /\ req'[b] = req[b]
                               /\ me'[b] = me[b] /\ reply'[b] = reply[b]
    BY <1>6 DEF Calling, Goto, TypeOK
  <2> QED
    BY <1>6, <2>1, <2>2, NothingStored DEF Calling, AnswerTrue
<1>7. ASSUME NEW c \in Calls, Respond(c) PROVE UploadAnswersTrue'
  <2>1. pc'[c] # "done"
    BY <1>7 DEF Respond, TypeOK
  <2>2. \A b \in Calls \ {c} : /\ pc'[b] = pc[b] /\ req'[b] = req[b]
                               /\ me'[b] = me[b] /\ reply'[b] = reply[b]
    BY <1>7 DEF Respond, TypeOK
  <2> QED
    BY <1>7, <2>1, <2>2, NothingStored DEF Respond, AnswerTrue
<1>8. CASE UNCHANGED vars
  BY <1>8 DEF vars, callVars, UploadAnswersTrue
<1>9. CASE Crash
  BY <1>9 DEF Crash, UploadAnswersTrue
<1> QED
  <2>1. {"exists", "find_login", "find_user"} \subseteq PCs \ {"done"}
    BY DEF PCs
  <2> QED
    BY <1>2, <1>3, <1>4, <1>5, <1>6, <1>7, <1>8, <1>9, <2>1
       DEF Next, CallStep, CallRegister, CallLogin, CallPostOrder

-----------------------------------------------------------------------------
(* A call has a request while it is served, and an answer when it is done. *)

Served(c) ==
  /\ pc[c] = "idle" <=> req[c].kind = "none"
  /\ pc[c] = "done" <=> reply[c] # 0

AllServed == \A c \in Calls : Served(c)

LEMMA NextAllServed == TypeOK /\ PendingOK /\ AllServed /\ [Next]_vars => AllServed'
<1> SUFFICES ASSUME TypeOK, PendingOK, AllServed, [Next]_vars PROVE AllServed'
  OBVIOUS
<1>1. ASSUME NEW c \in Calls, Moved(c), UNCHANGED <<req, me>>, pc[c] # "idle",
             \/ pc'[c] \notin {"idle", "done"} /\ reply'[c] = 0
             \/ pc'[c] = "done" /\ reply'[c] # 0
      PROVE  AllServed'
  <2>1. Served(c)'
    BY <1>1 DEF AllServed, Served
  <2> QED
    BY <1>1, <2>1, MovesAlone DEF AllServed, Served
<1>2. ASSUME NEW c \in Calls, NEW where \in PCs \ {"idle", "done"},
             Goto(c, where) \/ Proceeds(c, where), pc[c] \notin {"idle", "done"},
             UNCHANGED <<req, me>>
      PROVE  AllServed'
  <2>1. Moved(c) /\ pc'[c] = where /\ UNCHANGED reply /\ reply[c] = 0
    BY <1>2, GotoMoves, ProceedsMoves DEF AllServed, Served
  <2> QED
    BY <1>1, <1>2, <2>1
<1>3. ASSUME NEW c \in Calls, NEW code \in CodeType \ {0}, Replies(c, code), pc[c] # "idle",
             UNCHANGED <<req, me>>
      PROVE  AllServed'
  BY <1>1, <1>3, RepliesMoves
<1>4. ASSUME NEW c \in Calls, GivesUp(c), pc[c] \notin {"idle", "done"}, UNCHANGED <<req, me>>
      PROVE  AllServed'
  BY <1>2, <1>3, <1>4 DEF GivesUp, PCs, CodeType
<1>5. ASSUME NEW c \in Calls, Retries(c), pc[c] \notin {"idle", "done"}, UNCHANGED <<req, me>>
      PROVE  AllServed'
  <2>1. CASE GivesUp(c)
    BY <1>4, <1>5, <2>1
  <2>2. CASE ~GivesUp(c)
    <3>1. Moved(c) /\ pc'[c] = Beginning(c) /\ UNCHANGED reply
      BY <1>5, <2>2, RetriesMoves DEF Retries, TypeOK
    <3>2. Beginning(c) \notin {"idle", "done"} /\ reply[c] = 0
      BY <1>5 DEF Beginning, AllServed, Served
    <3> QED
      BY <1>1, <1>5, <3>1, <3>2
  <2> QED
    BY <2>1, <2>2
<1>6. ASSUME NEW c \in Calls, RegisterStep(c) PROVE AllServed'
  <2>1. CASE Exists(c)
    BY <1>2, <1>3, <2>1 DEF Exists, PCs, TransactionPCs, CodeType
  <2>2. CASE InsertUser(c)
    BY <1>2, <1>3, <2>2 DEF InsertUser, PCs, TransactionPCs, CodeType
  <2>3. CASE InsertPasswordHash(c)
    BY <1>2, <2>3 DEF InsertPasswordHash, PCs, TransactionPCs
  <2>4. CASE Commit(c)
    BY <1>3, <2>4 DEF Commit, CodeType
  <2> QED
    BY <1>6, <2>1, <2>2, <2>3, <2>4 DEF RegisterStep
<1>7. ASSUME NEW c \in Calls, FindByLogin(c) PROVE AllServed'
  BY <1>3, <1>7 DEF FindByLogin, CodeType
<1>8. ASSUME NEW c \in Calls, PostOrderStep(c) PROVE AllServed'
  <2>1. CASE FindByID(c)
    BY <1>2, <1>3, <2>1 DEF FindByID, PCs, CodeType
  <2>2. CASE FindUserIDByAccrualID(c)
    BY <1>2, <1>3, <2>2 DEF FindUserIDByAccrualID, PCs, CodeType
  <2>3. CASE CreateOrder(c)
    BY <1>3, <2>3 DEF CreateOrder, CodeType
  <2> QED
    BY <1>8, <2>1, <2>2, <2>3 DEF PostOrderStep
<1>9. ASSUME NEW c \in Calls, FaultStep(c) PROVE AllServed'
  <2>1. CASE ExistsFails(c)
    BY <1>2, <2>1 DEF ExistsFails, PCs, TransactionPCs
  <2>2. CASE CommitUnknown(c)
    BY <1>4, <1>5, <2>2 DEF CommitUnknown
  <2>3. CASE CreateOrderUnknown(c)
    BY <1>4, <1>5, <2>3 DEF CreateOrderUnknown
  <2>4. ASSUME NEW r \in BOOLEAN, StatementFails(c, r) PROVE AllServed'
    BY <1>4, <1>5, <2>4 DEF StatementFails, TransactionPCs
  <2> QED
    BY <1>9, <2>1, <2>2, <2>3, <2>4 DEF FaultStep
<1>10. ASSUME NEW c \in Calls, NEW q \in Requests, NEW i, NEW where \in PCs \ {"idle", "done"},
              Calling(c, q, i, where)
       PROVE  AllServed'
  <2>1. q.kind # "none"
    BY DEF Requests, Registration, Authentication, Upload
  <2>2. Served(c)'
    BY <1>10, <2>1 DEF Calling, Goto, TypeOK, AllServed, Served
  <2> QED
    BY <1>10, <2>2 DEF Calling, Goto, TypeOK, AllServed, Served
<1>11. ASSUME NEW c \in Calls, Respond(c) PROVE AllServed'
  BY <1>11 DEF Respond, TypeOK, AllServed, Served, NoRequest
<1>12. CASE Crash
  BY <1>12 DEF Crash, AllServed, Served, NoRequest
<1>13. CASE UNCHANGED vars
  BY <1>13 DEF vars, callVars, AllServed, Served
<1>14. CASE CallStep
  <2>1. /\ \A l \in Logins, p \in Passwords : Registration(l, p) \in Requests
        /\ \A l \in Logins, p \in Passwords : Authentication(l, p) \in Requests
        /\ \A n \in Numbers : Upload(n) \in Requests
        /\ {"exists", "find_login", "find_user"} \subseteq PCs \ {"idle", "done"}
    BY DEF Requests, PCs
  <2> QED
    BY <1>6, <1>7, <1>8, <1>9, <1>10, <1>11, <1>14, <2>1
       DEF CallStep, CallRegister, CallLogin, CallPostOrder
<1> QED
  BY <1>12, <1>13, <1>14 DEF Next

-----------------------------------------------------------------------------

IInv ==
  TypeOK /\ PendingOK /\ LoginsHeld /\ SessionsGenuine /\ UploadAnswersTrue /\ AllServed

LEMMA Inductive == Spec => []IInv
<1>1. Init => IInv
  <2>1. Init => LoginsHeld /\ SessionsGenuine /\ UploadAnswersTrue /\ AllServed
    BY DEF Init, LoginsHeld, SessionsGenuine, UploadAnswersTrue, AllServed, Served, NoRequest
  <2> QED
    BY <2>1, InitTypeOK, InitPendingOK DEF IInv
<1>2. IInv /\ [Next]_vars => IInv'
  BY NextTypeOK, NextPendingOK, NextLoginsHeld, NextSessionsGenuine, NextUploads, NextAllServed
     DEF IInv
<1> QED
  BY <1>1, <1>2, PTL DEF Spec

(* Types, and which request a call serves where it stands, for any number  *)
(* of calls, retries and failures.                                         *)
THEOREM TypeCorrect == Spec => []TypeOK
<1>1. IInv => TypeOK
  BY DEF IInv
<1> QED
  BY <1>1, Inductive, PTL

(* Register never leaves two accounts for one login, committed or about to *)
(* be (user_repo.go:26-58 and unique_login).                               *)
THEOREM OneAccount == Spec => []OneAccountPerLogin
<1>1. IInv => OneAccountPerLogin
  BY HeldIsOne DEF IInv
<1> QED
  BY <1>1, Inductive, PTL

(* Nobody gets a cookie without the login and password of the account it   *)
(* is for (handlers.go:148-161, 220-234).                                  *)
THEOREM Genuine == Spec => []SessionsGenuine
<1>1. IInv => SessionsGenuine
  BY DEF IInv
<1> QED
  BY <1>1, Inductive, PTL

(* What PostOrder has answered about a number is so, and 202 was answered  *)
(* at most once (handlers.go:281-316).                                     *)
THEOREM UploadsAnswered == Spec => []UploadAnswersTrue
<1>1. IInv => UploadAnswersTrue
  BY DEF IInv
<1> QED
  BY <1>1, Inductive, PTL

-----------------------------------------------------------------------------
(* Handlers implements Registry, for any users, calls, retries, failures   *)
(* and crashes: every step is one step of Registry, or changes nothing     *)
(* that Registry speaks of.                                                *)

Same == UNCHANGED <<accounts, owner, sessions, req, me, reply>>

(* One step of Registry, on behalf of the call c.                          *)
Atomic(c) ==
  \/ Same
  \/ R!Register(c) \/ R!RegisterConflict(c) \/ R!Login(c)
  \/ R!Upload(c) \/ R!UploadKnown(c) \/ R!Fails(c) \/ R!Leaves(c)

LEMMA WaitsWhileServed ==
  ASSUME IInv, NEW c \in Calls, pc[c] \notin {"idle", "done"}
  PROVE  req[c] # R!NoRequest /\ reply[c] = 0
  BY DEF IInv, AllServed, Served, R!NoRequest

LEMMA FailsWith500 ==
  ASSUME IInv, NEW c \in Calls, pc[c] \notin {"idle", "done"}, Replies(c, 500),
         UNCHANGED <<accounts, owner, sessions, req, me>>
  PROVE  Atomic(c)
  BY WaitsWhileServed DEF Replies, Atomic, R!Fails, R!Answers

(* A call that gives up or tries again fails, or is not seen.              *)
LEMMA GivesUpUnseen ==
  ASSUME NEW c \in Calls, GivesUp(c)
  PROVE  UNCHANGED reply \/ Replies(c, 500)
  BY DEF GivesUp, Goto

LEMMA RetriesUnseen ==
  ASSUME NEW c \in Calls, Retries(c) \/ GivesUp(c)
  PROVE  UNCHANGED reply \/ Replies(c, 500)
  BY GivesUpUnseen DEF Retries

(* The commit of a registration, known or not, is where it takes effect.   *)
LEMMA CommitsMine ==
  ASSUME IInv, NEW c \in Calls, pc[c] = "commit", Commits(c)
  PROVE  /\ R!Waits(c, "register")
         /\ ~R!Taken(req[c].login)
         /\ accounts' = accounts \cup {R!Mine(c)}
<1>1. pending[c] = {Account(me[c], req[c].login, req[c].password)}
  BY DEF IInv, PendingOK
<1>2. \A a \in accounts : a.login # req[c].login
  <2>1. Account(me[c], req[c].login, req[c].password).login = req[c].login
    BY DEF Account
  <2>2. \A r \in pending[c] : \A a \in accounts : a.login # r.login
    BY DEF IInv, LoginsHeld
  <2> QED
    BY <1>1, <2>1, <2>2
<1>3. req[c].kind = "register"
  BY DEF IInv, TypeOK, RightKind, TransactionPCs
<1>4. reply[c] = 0
  BY WaitsWhileServed
<1> QED
  BY <1>1, <1>2, <1>3, <1>4
     DEF Commits, R!Waits, R!Taken, R!Mine, Account, R!Account

LEMMA RegisterAtomic ==
  ASSUME IInv, NEW c \in Calls, RegisterStep(c)
  PROVE  Atomic(c)
<1>1. CASE Exists(c)
  <2>1. CASE \E a \in accounts : a.login = req[c].login
    <3>1. R!Waits(c, "register")
      BY <1>1, WaitsWhileServed
         DEF Exists, IInv, TypeOK, RightKind, TransactionPCs, R!Waits
    <3> QED
      BY <1>1, <2>1, <3>1
         DEF Exists, Replies, Atomic, R!RegisterConflict, R!Taken, R!Answers
  <2>2. CASE ~ \E a \in accounts : a.login = req[c].login
    BY <1>1, <2>2 DEF Exists, Goto, Atomic, Same
  <2> QED
    BY <2>1, <2>2
<1>2. CASE InsertUser(c)
  <2>1. CASE UNCHANGED reply
    BY <1>2, <2>1 DEF InsertUser, Atomic, Same
  <2>2. CASE Replies(c, 500)
    BY <1>2, <2>2, FailsWith500 DEF InsertUser
  <2> QED
    BY <1>2, <2>1, <2>2 DEF InsertUser, Proceeds
<1>3. CASE InsertPasswordHash(c)
  BY <1>3 DEF InsertPasswordHash, Proceeds, Atomic, Same
<1>4. CASE Commit(c)
  <2>1. sessions' = sessions \cup {R!Mine(c)}
    BY <1>4 DEF Commit, Authenticated, Account, R!Mine, R!Account
  <2> QED
    BY <1>4, <2>1, CommitsMine DEF Commit, Replies, Atomic, R!Register, R!Answers
<1> QED
  BY <1>1, <1>2, <1>3, <1>4 DEF RegisterStep

LEMMA LoginAtomic ==
  ASSUME IInv, NEW c \in Calls, FindByLogin(c)
  PROVE  Atomic(c)
<1>1. pc[c] = "find_login" /\ UNCHANGED <<accounts, owner, req, me>>
  BY DEF FindByLogin
<1>2. CASE Replies(c, 500) /\ UNCHANGED sessions
  BY <1>1, <1>2, FailsWith500
<1>3. ASSUME NEW a \in accounts, HasLogin(a, req[c].login),
             \/ a.password = req[c].password /\ Replies(c, 200) /\ Authenticated(c, a.id)
             \/ a.password # req[c].password /\ Replies(c, 401) /\ UNCHANGED sessions
      PROVE  Atomic(c)
  <2>1. R!Waits(c, "login")
    BY <1>1, WaitsWhileServed DEF IInv, TypeOK, RightKind, R!Waits
  <2>2. a.password = req[c].password => Account(a.id, req[c].login, req[c].password) = a
    BY <1>3 DEF HasLogin, Account, IInv, TypeOK
  <2>3. R!Login(c)
    BY <1>1, <1>3, <2>1, <2>2
       DEF HasLogin, Authenticated, Replies, R!Login, R!Answers
  <2> QED
    BY <2>3 DEF Atomic
<1> QED
  BY <1>2, <1>3 DEF FindByLogin

LEMMA UploadWaits ==
  ASSUME IInv, NEW c \in Calls, pc[c] \in UploadPCs
  PROVE  R!Waits(c, "upload")
<1>1. reply[c] = 0
  BY WaitsWhileServed DEF UploadPCs
<1>2. req[c].kind = "upload"
  BY DEF IInv, TypeOK, RightKind
<1> QED
  BY <1>1, <1>2 DEF R!Waits

LEMMA PostOrderAtomic ==
  ASSUME IInv, NEW c \in Calls, PostOrderStep(c)
  PROVE  Atomic(c)
<1>1. R!Waits(c, "upload")
  BY UploadWaits DEF PostOrderStep, FindByID, FindUserIDByAccrualID, CreateOrder, UploadPCs
<1>2. CASE FindByID(c)
  <2>1. CASE UNCHANGED reply
    BY <1>2, <2>1 DEF FindByID, Atomic, Same
  <2>2. CASE Replies(c, 500)
    BY <1>2, <2>2, FailsWith500 DEF FindByID
  <2> QED
    BY <1>2, <2>1, <2>2 DEF FindByID, Goto
<1>3. CASE FindUserIDByAccrualID(c)
  <2>1. CASE UNCHANGED reply
    BY <1>3, <2>1 DEF FindUserIDByAccrualID, Atomic, Same
  <2>2. CASE ~UNCHANGED reply
    BY <1>1, <1>3, <2>2
       DEF FindUserIDByAccrualID, Goto, Replies, Atomic, R!UploadKnown, R!Answers
  <2> QED
    BY <2>1, <2>2
<1>4. CASE CreateOrder(c)
  <2>1. CASE owner[req[c].number] # NoId
    BY <1>4, <2>1, FailsWith500 DEF CreateOrder
  <2>2. CASE owner[req[c].number] = NoId
    BY <1>1, <1>4, <2>2
       DEF CreateOrder, Inserted, Replies, Atomic, R!Upload, R!Answers
  <2> QED
    BY <2>1, <2>2
<1> QED
  BY <1>2, <1>3, <1>4 DEF PostOrderStep

LEMMA FaultAtomic ==
  ASSUME IInv, NEW c \in Calls, FaultStep(c)
  PROVE  Atomic(c)
<1>1. CASE ExistsFails(c)
  BY <1>1 DEF ExistsFails, Goto, Atomic, Same
<1>2. CASE CommitUnknown(c)
  <2>1. UNCHANGED reply \/ Replies(c, 500)
    BY <1>2, RetriesUnseen DEF CommitUnknown
  <2>2. UNCHANGED <<owner, sessions, req, me>>
    BY <1>2 DEF CommitUnknown
  <2>3. R!Unconfirmed(c)
    BY <2>1, <2>2 DEF Replies, R!Unconfirmed, R!Answers
  <2> QED
    BY <1>2, <2>2, <2>3, CommitsMine DEF CommitUnknown, Atomic, R!Register
<1>3. CASE CreateOrderUnknown(c)
  <2>1. UNCHANGED reply \/ Replies(c, 500)
    BY <1>3, RetriesUnseen DEF CreateOrderUnknown
  <2>2. R!Unconfirmed(c)
    BY <1>3, <2>1 DEF CreateOrderUnknown, Replies, R!Unconfirmed, R!Answers
  <2>3. R!Waits(c, "upload")
    BY <1>3, UploadWaits DEF CreateOrderUnknown, UploadPCs
  <2> QED
    BY <1>3, <2>2, <2>3 DEF CreateOrderUnknown, Inserted, Atomic, R!Upload
<1>4. ASSUME NEW r \in BOOLEAN, StatementFails(c, r) PROVE Atomic(c)
  <2>1. UNCHANGED reply \/ Replies(c, 500)
    BY <1>4, RetriesUnseen, GivesUpUnseen DEF StatementFails
  <2>2. pc[c] \notin {"idle", "done"} /\ UNCHANGED <<accounts, owner, sessions, req, me>>
    BY <1>4 DEF StatementFails, TransactionPCs
  <2> QED
    BY <2>1, <2>2, FailsWith500 DEF Atomic, Same
<1> QED
  BY <1>1, <1>2, <1>3, <1>4 DEF FaultStep

LEMMA RespondAtomic ==
  ASSUME IInv, NEW c \in Calls, Respond(c)
  PROVE  Atomic(c)
<1>1. reply[c] # 0
  BY DEF Respond, IInv, AllServed, Served
<1> QED
  BY <1>1 DEF Respond, Atomic, R!Leaves, NoRequest, R!NoRequest

LEMMA AskAtomic ==
  ASSUME IInv, NEW c \in Calls, NEW q, NEW i, NEW where, Calling(c, q, i, where)
  PROVE  R!Asks(c, q, i)
<1>1. req[c] = R!NoRequest
  <2>1. req[c].kind = "none" /\ req[c] \in Requests \cup {NoRequest}
    BY DEF Calling, IInv, AllServed, Served, TypeOK
  <2> QED
    BY <2>1 DEF Requests, Registration, Authentication, Upload, NoRequest, R!NoRequest
<1> QED
  BY <1>1 DEF Calling, Goto, R!Asks

LEMMA StepAtomic == IInv /\ [Next]_vars => [R!Next]_<<accounts, owner, sessions, req, me, reply>>
<1> SUFFICES ASSUME IInv, [Next]_vars
             PROVE  R!Next \/ Same
  BY DEF Same
<1>1. ASSUME NEW c \in Calls, Atomic(c) PROVE R!Next \/ Same
  BY <1>1 DEF Atomic, R!Next
<1>2. ASSUME NEW c \in Calls, NEW l \in Logins, NEW p \in Passwords, NEW i \in Ids,
             CallRegister(c, l, p, i)
      PROVE  R!Next
  <2>1. R!AskToRegister(c, l, p, i)
    BY <1>2, AskAtomic DEF CallRegister, Fresh, Registration, R!AskToRegister
  <2> QED
    BY <2>1 DEF R!Next
<1>3. ASSUME NEW c \in Calls, NEW l \in Logins, NEW p \in Passwords, CallLogin(c, l, p)
      PROVE  R!Next
  <2>1. R!AskToLogin(c, l, p)
    BY <1>3, AskAtomic DEF CallLogin, Authentication, R!AskToLogin
  <2> QED
    BY <2>1 DEF R!Next
<1>4. ASSUME NEW c \in Calls, NEW s \in sessions, NEW n \in Numbers, CallPostOrder(c, s, n)
      PROVE  R!Next
  <2>1. R!AskToUpload(c, s, n)
    BY <1>4, AskAtomic DEF CallPostOrder, Upload, R!AskToUpload
  <2> QED
    BY <2>1 DEF R!Next
<1>5. CASE Crash
  <2>1. R!Dies
    BY <1>5 DEF Crash, R!Dies, NoRequest, R!NoRequest
  <2> QED
    BY <2>1 DEF R!Next
<1>6. CASE UNCHANGED vars
  BY <1>6 DEF vars, callVars, Same
<1> QED
  BY <1>1, <1>2, <1>3, <1>4, <1>5, <1>6, RegisterAtomic, LoginAtomic, PostOrderAtomic,
     FaultAtomic, RespondAtomic
     DEF Next, CallStep

(* Register, Login and PostOrder answer as if each of them were one step   *)
(* on the tables, whatever happens to their statements on the way.         *)
THEOREM Implements == Spec => ImplementsRegistry
<1>1. Init => R!Init
  BY DEF Init, R!Init, NoRequest, R!NoRequest
<1>2. IInv /\ [Next]_vars => [R!Next]_(R!registryVars)
  BY StepAtomic DEF R!registryVars
<1> QED
  BY <1>1, <1>2, Inductive, PTL DEF Spec, ImplementsRegistry, R!Spec

=============================================================================
