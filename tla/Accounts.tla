-------------------------------- MODULE Accounts --------------------------------
(***************************************************************************)
(* Verification codes and accounts: VerifyServer/server.js with redis.js   *)
(* and email.js, and the registrations and password resets of UserServer.  *)
(*                                                                         *)
(* A request from the gate is handled by a call of VerifyServer, where all *)
(* calls share one thread and interleave at each await, or by a thread of  *)
(* UserServer.  An action is one Redis command, one statement in MySQL or  *)
(* one mail.  The stored procedures are not in the repository: they are    *)
(* modelled from their use.                                                *)
(***************************************************************************)
EXTENDS Naturals, FiniteSets

CONSTANTS
    Emails, Passwords,
    VerifyCalls,        \* calls of GetVerifyCode under way at once
    Threads,            \* threads of UserServer
    None,
    MaxCodes,           \* bounds of the checked instances: codes made,
    MaxRequests,        \* registrations and resets,
    MaxFaults           \* failing commands, statements and mails

ASSUME AccountsAssumption ==
    /\ None \notin Emails \cup Passwords
    /\ MaxCodes \in Nat /\ MaxRequests \in Nat /\ MaxFaults \in Nat

VARIABLES
    code,       \* Redis, code_<email>: the code, or 0
    lasting,    \* Redis: the emails whose key has no time to live
    inbox,      \* email -> codes in mails that were sent
    codes,      \* number of codes made by uuidv4, which are 1, 2, ...
    madeFor,    \* history: code -> email
    verify,     \* call -> handler of GetVerifyCode with its local variables
    account,    \* MySQL: email -> password, or None
    setWith,    \* history: email -> code in the request that set the password
    registered, \* history: emails of the registrations answered with success
    user,       \* thread -> handler of RegisterUser or ResetPassword
    requests, faults

redis == <<code, lasting>>
mysql == <<account, setWith, registered>>
mails == <<inbox, codes, madeFor>>

vars == <<redis, mails, verify, mysql, user, requests, faults>>

Codes == 1..MaxCodes

IdleCall   == [pc |-> "idle", email |-> None, uniqueId |-> 0]
IdleThread == [pc |-> "idle", email |-> None, password |-> None, code |-> 0]

Init ==
    /\ code = [e \in Emails |-> 0] /\ lasting = {}
    /\ inbox = [e \in Emails |-> {}] /\ codes = 0
    /\ madeFor = [c \in Codes |-> None]
    /\ verify = [v \in VerifyCalls |-> IdleCall]
    /\ account \in [Emails -> Passwords \cup {None}]
    /\ setWith = [e \in Emails |-> 0] /\ registered = {}
    /\ user = [t \in Threads |-> IdleThread]
    /\ requests = 0 /\ faults = 0

Fault == faults < MaxFaults /\ faults' = faults + 1

-----------------------------------------------------------------------------
(* VerifyServer: GetVerifyCode                                             *)

Goto(v, where)   == verify' = [verify EXCEPT ![v].pc = where]
AnswerVerify(v)  == verify' = [verify EXCEPT ![v] = IdleCall]

Hold(v, where, c) == verify' = [verify EXCEPT ![v].pc = where, ![v].uniqueId = c]

(* /postVerifyCode at the gate, and the call it makes                      *)
PostVerifyCode(v, e) ==
    /\ verify[v].pc = "idle"
    /\ verify' = [verify EXCEPT ![v] = [pc |-> "get", email |-> e, uniqueId |-> 0]]
    /\ UNCHANGED <<redis, mails, mysql, user, requests, faults>>

(* A code that is there is sent once more, with the time it has left.      *)
FindCode(v) ==
    LET c == code[verify[v].email] IN
    /\ verify[v].pc = "get" /\ c # 0
    /\ Hold(v, "mail", c)
    /\ UNCHANGED <<redis, mails, mysql, user, requests, faults>>

(* No code; GetRedis answers null to a Redis error as well.                *)
MakeCode(v) ==
    /\ verify[v].pc = "get" /\ codes < MaxCodes
    /\ \/ code[verify[v].email] = 0 /\ UNCHANGED faults
       \/ Fault
    /\ codes' = codes + 1
    /\ madeFor' = [madeFor EXCEPT ![codes + 1] = verify[v].email]
    /\ Hold(v, "set", codes + 1)
    /\ UNCHANGED <<redis, inbox, mysql, user, requests>>

(* SET leaves the key without a time to live.                              *)
StoreCode(v) ==
    /\ code' = [code EXCEPT ![verify[v].email] = verify[v].uniqueId]
    /\ lasting' = lasting \cup {verify[v].email}

SetCode(v) ==
    /\ verify[v].pc = "set"
    /\ \/ StoreCode(v) /\ Goto(v, "expire") /\ UNCHANGED faults
       \/ Fault /\ AnswerVerify(v) /\ (StoreCode(v) \/ UNCHANGED redis)
    /\ UNCHANGED <<mails, mysql, user, requests>>

(* Mutant: the key is left as it is.                                       *)
StillLasting(v) == lasting

Limited(v) == lasting \ {verify[v].email}

(* EXPIRE gives the key, whoever has set it by now, ten minutes.           *)
SetExpire(v) ==
    /\ verify[v].pc = "expire"
    /\ \/ lasting' = Limited(v) /\ Goto(v, "mail") /\ UNCHANGED faults
       \/ Fault /\ AnswerVerify(v) /\ lasting' \in {lasting, Limited(v)}
    /\ UNCHANGED <<code, mails, mysql, user, requests>>

(* Mutants: unique_id is a variable of the module that the calls share;    *)
(* the mail has what Redis holds by now.                                   *)
SharedId(v) == codes
StoredId(v) == code[verify[v].email]

UniqueId(v) == verify[v].uniqueId

(* A mail that is refused ends the call with an exception.  Otherwise the  *)
(* answer carries the code too, and the gate returns it as verify_code: a  *)
(* second place to learn it from, but of no code that is not in the mail.  *)
SendMail(v) ==
    /\ verify[v].pc = "mail"
    /\ \/ /\ inbox' = [inbox EXCEPT ![verify[v].email] = @ \cup {UniqueId(v)}]
          /\ UNCHANGED faults
       \/ Fault /\ UNCHANGED inbox
    /\ AnswerVerify(v)
    /\ UNCHANGED <<redis, codes, madeFor, mysql, user, requests>>

(* Ten minutes later                                                       *)
Expire(e) ==
    /\ code[e] # 0 /\ e \notin lasting
    /\ code' = [code EXCEPT ![e] = 0]
    /\ UNCHANGED <<lasting, mails, verify, mysql, user, requests, faults>>

-----------------------------------------------------------------------------
(* UserServer: RegisterUser and ResetPassword                              *)

Proceed(t, where) == user' = [user EXCEPT ![t].pc = where]
AnswerUser(t)     == user' = [user EXCEPT ![t] = IdleThread]

(* /userRegister and /resetPassword, with the code of any mail, which are  *)
(* the codes of all answers too, or another                                *)
Request(t, handler, e, p, c) ==
    /\ user[t].pc = "idle" /\ requests < MaxRequests
    /\ requests' = requests + 1
    /\ user' = [user EXCEPT ![t] =
           [pc |-> handler, email |-> e, password |-> p, code |-> c]]
    /\ UNCHANGED <<redis, mails, verify, mysql, faults>>

(* VerifyEmailCode: a key that is there.  Mutant of RightCode: any code     *)
(* will do.                                                                *)
NotMissing(t) == code[user[t].email] # 0

(* ... and holds the code of the request                                   *)
RightCode(t) == NotMissing(t) /\ code[user[t].email] = user[t].code

(* Called by both handlers, it accepts the code ...                        *)
AcceptCode(t) ==
    /\ \/ user[t].pc = "register" /\ RightCode(t) /\ Proceed(t, "exists")
       \/ user[t].pc = "reset" /\ RightCode(t) /\ Proceed(t, "update")
    /\ UNCHANGED <<redis, mails, verify, mysql, requests, faults>>

(* ... or refuses it, as after a Redis error.                              *)
RefuseCode(t) ==
    /\ user[t].pc \in {"register", "reset"}
    /\ \/ ~RightCode(t) /\ UNCHANGED faults
       \/ Fault
    /\ AnswerUser(t)
    /\ UNCHANGED <<redis, mails, verify, mysql, requests>>

(* VerifyUser in RegisterUser: an account with this password is refused;   *)
(* one with another password, or an error, goes on to Insert.              *)
UserExists(t) ==
    /\ user[t].pc = "exists"
    /\ account[user[t].email] = user[t].password
    /\ AnswerUser(t)
    /\ UNCHANGED <<redis, mails, verify, mysql, requests, faults>>

UserNotVerified(t) ==
    /\ user[t].pc = "exists"
    /\ \/ account[user[t].email] # user[t].password /\ UNCHANGED faults
       \/ Fault
    /\ Proceed(t, "insert")
    /\ UNCHANGED <<redis, mails, verify, mysql, requests>>

SetPassword(t) ==
    LET e == user[t].email IN
    /\ account' = [account EXCEPT ![e] = user[t].password]
    /\ setWith' = [setWith EXCEPT ![e] = user[t].code]

(* Mutant: only an account that is there is written.                       *)
StoresOld(t) ==
    IF account[user[t].email] # None THEN SetPassword(t) ELSE UNCHANGED <<account, setWith>>

(* sp_insert_user adds no second account for an email, sp_update_user      *)
(* changes one that is there.                                              *)
Stores(t) ==
    LET there == account[user[t].email] # None IN
    IF there = (user[t].pc = "update") THEN SetPassword(t) ELSE UNCHANGED <<account, setWith>>

(* RegisterUser does not look at what Insert returns, not after an error   *)
(* either: the answer is a success.                                        *)
AnswerSuccess(t) ==
    registered' = IF user[t].pc = "insert" THEN registered \cup {user[t].email}
                                           ELSE registered

(* Insert and Update; after an error the statement may have been executed. *)
Store(t) ==
    /\ user[t].pc \in {"insert", "update"}
    /\ \/ Stores(t) /\ UNCHANGED faults
       \/ Fault /\ (Stores(t) \/ UNCHANGED <<account, setWith>>)
    /\ AnswerSuccess(t) /\ AnswerUser(t)
    /\ UNCHANGED <<redis, mails, verify, requests>>

-----------------------------------------------------------------------------
MailedCodes == UNION {inbox[e] : e \in Emails}

Next ==
    \/ \E v \in VerifyCalls :
         \/ \E e \in Emails : PostVerifyCode(v, e)
         \/ FindCode(v) \/ MakeCode(v) \/ SetCode(v) \/ SetExpire(v) \/ SendMail(v)
    \/ \E e \in Emails : Expire(e)
    \/ \E t \in Threads :
         \/ \E h \in {"register", "reset"}, e \in Emails, p \in Passwords,
               c \in MailedCodes \cup {0} : Request(t, h, e, p, c)
         \/ AcceptCode(t) \/ RefuseCode(t)
         \/ UserExists(t) \/ UserNotVerified(t) \/ Store(t)

Spec == Init /\ [][Next]_vars

-----------------------------------------------------------------------------
Pending ==
    [pc : {"get"}, email : Emails, uniqueId : {0}] \cup
    [pc : {"set", "expire", "mail"}, email : Emails, uniqueId : Codes]

Handling == [pc : {"register", "reset", "exists", "insert", "update"},
             email : Emails, password : Passwords, code : {0} \cup Codes]

(* Every variable has its type.                                            *)
TypeOK ==
    /\ code \in [Emails -> {0} \cup Codes] /\ lasting \subseteq Emails
    /\ inbox \in [Emails -> SUBSET Codes]
    /\ codes \in 0..MaxCodes /\ madeFor \in [Codes -> Emails \cup {None}]
    /\ verify \in [VerifyCalls -> Pending \cup {IdleCall}]
    /\ account \in [Emails -> Passwords \cup {None}]
    /\ setWith \in [Emails -> {0} \cup Codes] /\ registered \subseteq Emails
    /\ user \in [Threads -> Handling \cup {IdleThread}]
    /\ requests \in 0..MaxRequests /\ faults \in 0..MaxFaults

(* A password was set with a code that was made for the address of the     *)
(* account and was in a mail to it, though the code passes through two     *)
(* servers, may be replaced between its mail and the request, and may be   *)
(* gone between its check and the statement (VerifyEmailCode, RegisterUser, *)
(* ResetPassword).  Requests come with codes that somebody was mailed.     *)
OwnCodeOnly ==
    \A e \in Emails : setWith[e] # 0 =>
        madeFor[setWith[e]] = e /\ setWith[e] \in inbox[e]

(* A code without a time to live is one whose call is about to give it one:*)
(* SetRedisExpire, when no command has failed, leaves no code for ever,    *)
(* whatever other calls for the address do between its two commands.       *)
CodesExpire ==
    faults = 0 => \A e \in lasting :
        \E v \in VerifyCalls : verify[v].pc = "expire" /\ verify[v].email = e

(* Without failures the code in Redis is in a mail to its address or in    *)
(* the hands of the call that stored it and will mail it: two calls that   *)
(* both found none leave one of the mails right (GetVerifyCode).           *)
CurrentCodeIsMailed ==
    faults = 0 => \A e \in Emails : code[e] # 0 =>
        \/ code[e] \in inbox[e]
        \/ \E v \in VerifyCalls :
             /\ verify[v].pc \in {"expire", "mail"}
             /\ verify[v].email = e /\ verify[v].uniqueId = code[e]

(* Without failures whoever was told that the registration succeeded has   *)
(* an account, though VerifyUser and Insert are two statements, the answer *)
(* ignores the second, and another registration or a reset may come        *)
(* between them (MySQLManager::RegisterUser).  With a failure the answer   *)
(* is a success all the same, and there may be no account.                 *)
RegisteredHasAccount ==
    faults = 0 => \A e \in registered : account[e] # None
=============================================================================
