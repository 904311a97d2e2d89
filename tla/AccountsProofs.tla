----------------------------- MODULE AccountsProofs -----------------------------
(***************************************************************************)
(* Theorems about Accounts, for any addresses, passwords, calls, threads   *)
(* and bounds.                                                             *)
(***************************************************************************)
EXTENDS Accounts, TLAPS

CallActions(v) ==
    \/ \E e \in Emails : PostVerifyCode(v, e)
    \/ FindCode(v) \/ MakeCode(v) \/ SetCode(v) \/ SetExpire(v) \/ SendMail(v)

ThreadActions(t) ==
    \/ \E h \in {"register", "reset"}, e \in Emails, p \in Passwords,
          c \in MailedCodes \cup {0} : Request(t, h, e, p, c)
    \/ AcceptCode(t) \/ RefuseCode(t)
    \/ UserExists(t) \/ UserNotVerified(t) \/ Store(t)

-----------------------------------------------------------------------------
(* Calls and threads that are not idle hold what they were given.          *)
LEMMA BusyCall ==
    ASSUME TypeOK, NEW v \in VerifyCalls, verify[v].pc # "idle"
    PROVE  /\ verify[v] \in Pending
           /\ verify[v].pc \in {"get", "set", "expire", "mail"}
           /\ verify[v].email \in Emails
           /\ verify[v].pc # "get" => verify[v].uniqueId \in Codes
<1>1. verify[v] \in Pending
  BY DEF TypeOK, IdleCall
<1>2. QED
  BY <1>1 DEF Pending

LEMMA BusyThread ==
    ASSUME TypeOK, NEW t \in Threads, user[t].pc # "idle"
    PROVE  /\ user[t] \in Handling
           /\ user[t].pc \in {"register", "reset", "exists", "insert", "update"}
           /\ user[t].email \in Emails /\ user[t].password \in Passwords
           /\ user[t].code \in {0} \cup Codes
<1>1. user[t] \in Handling
  BY DEF TypeOK, IdleThread
<1>2. QED
  BY <1>1 DEF Handling

(* What a step writes into a call or a thread has the type.                *)
LEMMA GotoType ==
    ASSUME TypeOK, NEW v \in VerifyCalls, verify[v].pc \notin {"idle", "get"},
           NEW where \in {"set", "expire", "mail"}, Goto(v, where)
    PROVE  verify' \in [VerifyCalls -> Pending \cup {IdleCall}]
<1>1. [verify[v] EXCEPT !.pc = where] \in Pending
  BY BusyCall DEF Pending
<1>2. QED
  BY <1>1 DEF TypeOK, Goto

LEMMA HoldType ==
    ASSUME TypeOK, NEW v \in VerifyCalls, verify[v].pc # "idle",
           NEW where \in {"set", "expire", "mail"}, NEW c \in Codes, Hold(v, where, c)
    PROVE  verify' \in [VerifyCalls -> Pending \cup {IdleCall}]
<1>1. [verify[v] EXCEPT !.pc = where, !.uniqueId = c] \in Pending
  BY BusyCall DEF Pending
<1>2. QED
  BY <1>1 DEF TypeOK, Hold

LEMMA AnswerVerifyType ==
    ASSUME TypeOK, NEW v \in VerifyCalls, AnswerVerify(v)
    PROVE  verify' \in [VerifyCalls -> Pending \cup {IdleCall}]
BY DEF TypeOK, AnswerVerify

LEMMA ProceedType ==
    ASSUME TypeOK, NEW t \in Threads, user[t].pc # "idle",
           NEW where \in {"exists", "insert", "update"}, Proceed(t, where)
    PROVE  user' \in [Threads -> Handling \cup {IdleThread}]
<1>1. [user[t] EXCEPT !.pc = where] \in Handling
  BY BusyThread DEF Handling
<1>2. QED
  BY <1>1 DEF TypeOK, Proceed

LEMMA AnswerUserType ==
    ASSUME TypeOK, NEW t \in Threads, AnswerUser(t)
    PROVE  user' \in [Threads -> Handling \cup {IdleThread}]
BY DEF TypeOK, AnswerUser

LEMMA FaultType ==
    ASSUME TypeOK, UNCHANGED faults \/ Fault
    PROVE  faults' \in 0..MaxFaults
BY AccountsAssumption DEF TypeOK, Fault

-----------------------------------------------------------------------------
LEMMA TypeOKInit == Init => TypeOK
BY AccountsAssumption
   DEF Init, TypeOK, IdleCall, IdleThread, Codes

LEMMA TypeOKCall ==
    ASSUME TypeOK, NEW v \in VerifyCalls, CallActions(v)
    PROVE  TypeOK'
<1>1. ASSUME NEW e \in Emails, PostVerifyCode(v, e)
      PROVE  TypeOK'
  <2>1. [pc |-> "get", email |-> e, uniqueId |-> 0] \in Pending
    BY DEF Pending
  <2>2. QED
    BY <1>1, <2>1 DEF PostVerifyCode, TypeOK, redis, mails, mysql
<1>2. CASE FindCode(v)
  <2>1. verify' \in [VerifyCalls -> Pending \cup {IdleCall}]
    BY <1>2, BusyCall, HoldType DEF FindCode, TypeOK
  <2>2. QED
    BY <1>2, <2>1 DEF FindCode, TypeOK, redis, mails, mysql
<1>3. CASE MakeCode(v)
  <2>1. codes + 1 \in Codes /\ codes' \in 0..MaxCodes
    BY <1>3, AccountsAssumption DEF MakeCode, TypeOK, Codes
  <2>2. verify' \in [VerifyCalls -> Pending \cup {IdleCall}]
    BY <1>3, <2>1, HoldType DEF MakeCode
  <2>3. verify[v].email \in Emails
    BY <1>3, BusyCall DEF MakeCode
  <2>4. faults' \in 0..MaxFaults
    BY <1>3, FaultType DEF MakeCode
  <2>5. QED
    BY <1>3, <2>1, <2>2, <2>3, <2>4 DEF MakeCode, TypeOK, redis, mysql
<1>4. CASE SetCode(v)
  <2>1. verify' \in [VerifyCalls -> Pending \cup {IdleCall}]
    BY <1>4, GotoType, AnswerVerifyType DEF SetCode
  <2>2. code' \in [Emails -> {0} \cup Codes] /\ lasting' \subseteq Emails
    BY <1>4, BusyCall DEF SetCode, StoreCode, TypeOK, redis
  <2>3. faults' \in 0..MaxFaults
    BY <1>4, FaultType DEF SetCode
  <2>4. QED
    BY <1>4, <2>1, <2>2, <2>3 DEF SetCode, TypeOK, mails, mysql
<1>5. CASE SetExpire(v)
  <2>1. verify' \in [VerifyCalls -> Pending \cup {IdleCall}]
    BY <1>5, GotoType, AnswerVerifyType DEF SetExpire
  <2>2. faults' \in 0..MaxFaults
    BY <1>5, FaultType DEF SetExpire
  <2>3. lasting' \subseteq Emails
    BY <1>5 DEF SetExpire, Limited, TypeOK
  <2>4. QED
    BY <1>5, <2>1, <2>2, <2>3 DEF SetExpire, TypeOK, mails, mysql
<1>6. CASE SendMail(v)
  <2>1. UniqueId(v) \in Codes /\ verify[v].email \in Emails
    BY <1>6, BusyCall DEF SendMail, UniqueId
  <2>2. faults' \in 0..MaxFaults
    BY <1>6, FaultType DEF SendMail
  <2>3. verify' \in [VerifyCalls -> Pending \cup {IdleCall}]
    BY <1>6, AnswerVerifyType DEF SendMail
  <2>4. inbox' \in [Emails -> SUBSET Codes]
    BY <1>6, <2>1 DEF SendMail, TypeOK
  <2>5. QED
    BY <1>6, <2>2, <2>3, <2>4 DEF SendMail, TypeOK, redis, mysql
<1>7. QED
  BY <1>1, <1>2, <1>3, <1>4, <1>5, <1>6 DEF CallActions

LEMMA TypeOKExpire ==
    ASSUME TypeOK, NEW e \in Emails, Expire(e)
    PROVE  TypeOK'
BY DEF Expire, TypeOK, mails, mysql

LEMMA TypeOKThread ==
    ASSUME TypeOK, NEW t \in Threads, ThreadActions(t)
    PROVE  TypeOK'
<1>1. ASSUME NEW h \in {"register", "reset"}, NEW e \in Emails, NEW p \in Passwords,
             NEW c \in MailedCodes \cup {0}, Request(t, h, e, p, c)
      PROVE  TypeOK'
  <2>1. c \in {0} \cup Codes
    BY DEF MailedCodes, TypeOK
  <2>2. [pc |-> h, email |-> e, password |-> p, code |-> c] \in Handling
    BY <2>1 DEF Handling
  <2>3. requests' \in 0..MaxRequests
    BY <1>1, AccountsAssumption DEF Request, TypeOK
  <2>4. QED
    BY <1>1, <2>2, <2>3 DEF Request, TypeOK, redis, mails, mysql
<1>2. CASE AcceptCode(t)
  <2>1. user' \in [Threads -> Handling \cup {IdleThread}]
    BY <1>2, ProceedType DEF AcceptCode
  <2>2. QED
    BY <1>2, <2>1 DEF AcceptCode, TypeOK, redis, mails, mysql
<1>3. CASE RefuseCode(t)
  <2>1. user' \in [Threads -> Handling \cup {IdleThread}] /\ faults' \in 0..MaxFaults
    BY <1>3, AnswerUserType, FaultType DEF RefuseCode
  <2>2. QED
    BY <1>3, <2>1 DEF RefuseCode, TypeOK, redis, mails, mysql
<1>4. CASE UserExists(t)
  <2>1. user' \in [Threads -> Handling \cup {IdleThread}]
    BY <1>4, AnswerUserType DEF UserExists
  <2>2. QED
    BY <1>4, <2>1 DEF UserExists, TypeOK, redis, mails, mysql
<1>5. CASE UserNotVerified(t)
  <2>1. user' \in [Threads -> Handling \cup {IdleThread}] /\ faults' \in 0..MaxFaults
    BY <1>5, ProceedType, FaultType DEF UserNotVerified
  <2>2. QED
    BY <1>5, <2>1 DEF UserNotVerified, TypeOK, redis, mails, mysql
<1>6. CASE Store(t)
  <2>1. user' \in [Threads -> Handling \cup {IdleThread}] /\ faults' \in 0..MaxFaults
    BY <1>6, AnswerUserType, FaultType DEF Store
  <2>2. /\ account' \in [Emails -> Passwords \cup {None}]
        /\ setWith' \in [Emails -> {0} \cup Codes] /\ registered' \subseteq Emails
    <3>1. /\ user[t].email \in Emails /\ user[t].password \in Passwords
          /\ user[t].code \in {0} \cup Codes
      BY <1>6, BusyThread DEF Store
    <3>2. SetPassword(t) \/ UNCHANGED <<account, setWith>>
      BY <1>6 DEF Store, Stores
    <3>3. registered' \subseteq Emails
      BY <1>6, <3>1 DEF Store, AnswerSuccess, TypeOK
    <3>4. QED
      BY <3>1, <3>2, <3>3 DEF SetPassword, TypeOK
  <2>3. QED
    BY <1>6, <2>1, <2>2 DEF Store, TypeOK, redis, mails
<1>7. QED
  BY <1>1, <1>2, <1>3, <1>4, <1>5, <1>6 DEF ThreadActions

LEMMA NextSplits ==
    Next <=> \/ \E v \in VerifyCalls : CallActions(v)
             \/ \E e \in Emails : Expire(e)
             \/ \E t \in Threads : ThreadActions(t)
BY DEF Next, CallActions, ThreadActions

(* Every variable keeps its type; a code in a mail is one that was made.    *)
THEOREM AccountsTypeCorrect == Spec => []TypeOK
<1>1. ASSUME TypeOK, [Next]_vars
      PROVE  TypeOK'
  <2>1. CASE Next
    BY <1>1, <2>1, NextSplits, TypeOKCall, TypeOKExpire, TypeOKThread
  <2>2. CASE UNCHANGED vars
    BY <1>1, <2>2 DEF TypeOK, vars, redis, mails, mysql
  <2>3. QED
    BY <1>1, <2>1, <2>2
<1>2. QED
  BY TypeOKInit, <1>1, PTL DEF Spec

-----------------------------------------------------------------------------
(* Codes are made for one address.  Wherever a code gets to from there, it *)
(* goes with that address: in Redis, in the hands of a call, in those of a *)
(* thread once the code was accepted, and with the password.               *)
MadeFor(c, e) == c \in 1..codes /\ madeFor[c] = e

OwnCodes ==
    /\ \A e \in Emails : code[e] # 0 => MadeFor(code[e], e)
    /\ \A v \in VerifyCalls : verify[v].pc \in {"set", "expire", "mail"} =>
          MadeFor(verify[v].uniqueId, verify[v].email)
    /\ \A t \in Threads : user[t].pc \in {"exists", "insert", "update"} =>
          user[t].code # 0 /\ MadeFor(user[t].code, user[t].email)
    /\ \A e \in Emails : setWith[e] # 0 => MadeFor(setWith[e], e)

(* A step makes at most one code, and nothing changes for the others.      *)
LEMMA MadeForStays ==
    ASSUME TypeOK, NEW v \in VerifyCalls, MakeCode(v)
    PROVE  /\ codes + 1 \in 1..codes' /\ madeFor'[codes + 1] = verify[v].email
           /\ \A c \in 1..codes : c \in 1..codes' /\ madeFor'[c] = madeFor[c]
<1>1. codes \in Nat /\ MaxCodes \in Nat /\ codes < MaxCodes
  BY AccountsAssumption DEF MakeCode, TypeOK
<1>2. codes' = codes + 1 /\ madeFor' = [madeFor EXCEPT ![codes + 1] = verify[v].email]
  BY DEF MakeCode
<1>3. codes + 1 \in Codes /\ madeFor \in [Codes -> Emails \cup {None}]
  BY <1>1 DEF Codes, TypeOK
<1>4. ASSUME NEW c \in 1..codes
      PROVE  c \in 1..codes' /\ madeFor'[c] = madeFor[c]
  <2>1. c # codes + 1 /\ c \in 1..(codes + 1) /\ c \in Codes
    BY <1>1 DEF Codes
  <2>2. QED
    BY <2>1, <1>2, <1>3
<1>5. codes + 1 \in 1..(codes + 1)
  BY <1>1
<1>6. QED
  BY <1>2, <1>3, <1>4, <1>5

LEMMA OwnCodesCall ==
    ASSUME TypeOK, OwnCodes, NEW v \in VerifyCalls, CallActions(v)
    PROVE  OwnCodes'
<1>1. ASSUME NEW e \in Emails, PostVerifyCode(v, e)
      PROVE  OwnCodes'
  BY <1>1 DEF PostVerifyCode, OwnCodes, MadeFor, TypeOK, redis, mails, mysql
<1>2. CASE FindCode(v)
  <2>1. verify[v].email \in Emails /\ verify[v].pc # "idle"
    BY <1>2, BusyCall DEF FindCode
  <2>2. MadeFor(code[verify[v].email], verify[v].email)
    BY <1>2, <2>1 DEF FindCode, OwnCodes
  <2>3. \A w \in VerifyCalls : IF w = v
           THEN /\ verify'[w].uniqueId = code[verify[v].email]
                /\ verify'[w].email = verify[v].email
           ELSE verify'[w] = verify[w]
    BY <1>2, <2>1, BusyCall DEF FindCode, Hold, TypeOK, Pending
  <2>4. QED
    BY <1>2, <2>2, <2>3 DEF FindCode, OwnCodes, MadeFor, redis, mails, mysql
<1>3. CASE MakeCode(v)
  <2>1. \A w \in VerifyCalls : IF w = v
           THEN verify'[w].uniqueId = codes + 1 /\ verify'[w].email = verify[v].email
           ELSE verify'[w] = verify[w]
    BY <1>3, BusyCall DEF MakeCode, Hold, TypeOK, Pending
  <2>2. /\ codes + 1 \in 1..codes' /\ madeFor'[codes + 1] = verify[v].email
        /\ \A c \in 1..codes : c \in 1..codes' /\ madeFor'[c] = madeFor[c]
    BY <1>3, MadeForStays
  <2>3. UNCHANGED <<code, setWith, user>>
    BY <1>3 DEF MakeCode, redis, mysql
  <2>4. QED
    BY <2>1, <2>2, <2>3 DEF OwnCodes, MadeFor
<1>4. CASE SetCode(v)
  <2>1. \A w \in VerifyCalls : \/ verify'[w].pc = "idle"
                               \/ /\ verify[w].pc \in {"set", "expire", "mail"}
                                  /\ verify'[w].uniqueId = verify[w].uniqueId
                                  /\ verify'[w].email = verify[w].email
                               \/ verify'[w] = verify[w]
    BY <1>4, BusyCall DEF SetCode, Goto, AnswerVerify, IdleCall, TypeOK, Pending
  <2>2. \A e \in Emails : \/ code'[e] = code[e]
                          \/ code'[e] = verify[v].uniqueId /\ e = verify[v].email
    <3>1. StoreCode(v) \/ UNCHANGED code
      BY <1>4 DEF SetCode, redis
    <3>2. code \in [Emails -> {0} \cup Codes]
      BY DEF TypeOK
    <3>3. QED
      BY <3>1, <3>2 DEF StoreCode
  <2>3. QED
    BY <1>4, <2>1, <2>2 DEF SetCode, OwnCodes, MadeFor, mails, mysql
<1>5. CASE SetExpire(v)
  <2>1. \A w \in VerifyCalls : \/ verify'[w].pc = "idle"
                               \/ /\ verify[w].pc \in {"set", "expire", "mail"}
                                  /\ verify'[w].uniqueId = verify[w].uniqueId
                                  /\ verify'[w].email = verify[w].email
                               \/ verify'[w] = verify[w]
    BY <1>5, BusyCall DEF SetExpire, Goto, AnswerVerify, IdleCall, TypeOK, Pending
  <2>2. QED
    BY <1>5, <2>1 DEF SetExpire, OwnCodes, MadeFor, mails, mysql
<1>6. CASE SendMail(v)
  <2>1. \A w \in VerifyCalls : verify'[w].pc = "idle" \/ verify'[w] = verify[w]
    BY <1>6 DEF SendMail, AnswerVerify, IdleCall, TypeOK
  <2>2. QED
    BY <1>6, <2>1 DEF SendMail, OwnCodes, MadeFor, redis, mysql
<1>7. QED
  BY <1>1, <1>2, <1>3, <1>4, <1>5, <1>6 DEF CallActions

LEMMA OwnCodesThread ==
    ASSUME TypeOK, OwnCodes, NEW t \in Threads, ThreadActions(t)
    PROVE  OwnCodes'
<1>1. ASSUME NEW h \in {"register", "reset"}, NEW e \in Emails, NEW p \in Passwords,
             NEW c \in MailedCodes \cup {0}, Request(t, h, e, p, c)
      PROVE  OwnCodes'
  BY <1>1 DEF Request, OwnCodes, MadeFor, TypeOK, redis, mails, mysql
<1>2. CASE AcceptCode(t)
  <2>1. user[t].email \in Emails /\ user[t].pc # "idle" /\ RightCode(t)
    BY <1>2, BusyThread DEF AcceptCode
  <2>2. user[t].code # 0 /\ MadeFor(user[t].code, user[t].email)
    BY <2>1 DEF RightCode, NotMissing, OwnCodes
  <2>3. \A u \in Threads : IF u = t
           THEN user'[u].code = user[u].code /\ user'[u].email = user[u].email
           ELSE user'[u] = user[u]
    BY <1>2, <2>1, BusyThread DEF AcceptCode, Proceed, TypeOK, Handling
  <2>4. QED
    BY <1>2, <2>2, <2>3 DEF AcceptCode, OwnCodes, MadeFor, redis, mails, mysql
<1>3. CASE RefuseCode(t)
  BY <1>3 DEF RefuseCode, AnswerUser, IdleThread, OwnCodes, MadeFor, TypeOK, redis, mails, mysql
<1>4. CASE UserExists(t)
  BY <1>4 DEF UserExists, AnswerUser, IdleThread, OwnCodes, MadeFor, TypeOK, redis, mails, mysql
<1>5. CASE UserNotVerified(t)
  <2>1. \A u \in Threads : IF u = t
           THEN /\ user[u].pc = "exists"
                /\ user'[u].code = user[u].code /\ user'[u].email = user[u].email
           ELSE user'[u] = user[u]
    BY <1>5, BusyThread DEF UserNotVerified, Proceed, TypeOK, Handling
  <2>2. QED
    BY <1>5, <2>1 DEF UserNotVerified, OwnCodes, MadeFor, redis, mails, mysql
<1>6. CASE Store(t)
  <2>1. user[t].code # 0 /\ MadeFor(user[t].code, user[t].email)
    BY <1>6 DEF Store, OwnCodes
  <2>2. \A e \in Emails : \/ setWith'[e] = setWith[e]
                          \/ setWith'[e] = user[t].code /\ e = user[t].email
    BY <1>6 DEF Store, Stores, SetPassword, TypeOK, mysql
  <2>3. \A u \in Threads : user'[u].pc = "idle" \/ user'[u] = user[u]
    BY <1>6 DEF Store, AnswerUser, IdleThread, TypeOK
  <2>4. QED
    BY <1>6, <2>1, <2>2, <2>3 DEF Store, OwnCodes, MadeFor, redis, mails
<1>7. QED
  BY <1>1, <1>2, <1>3, <1>4, <1>5, <1>6 DEF ThreadActions

LEMMA OwnCodesInit == Init => OwnCodes
BY DEF Init, OwnCodes, IdleCall, IdleThread

-----------------------------------------------------------------------------
(* A code that somebody was mailed and that is right for an address was in *)
(* a mail to that address.                                                 *)
Mailed ==
    /\ \A e \in Emails : \A c \in inbox[e] : MadeFor(c, e)
    /\ \A t \in Threads : user[t].code \in MailedCodes \cup {0}
    /\ \A t \in Threads : user[t].pc \in {"exists", "insert", "update"} =>
          user[t].code \in inbox[user[t].email]
    /\ \A e \in Emails : setWith[e] # 0 => setWith[e] \in inbox[e]

LEMMA MailedCall ==
    ASSUME TypeOK, OwnCodes, Mailed, NEW v \in VerifyCalls, CallActions(v)
    PROVE  Mailed'
<1>1. user' = user /\ setWith' = setWith
  BY DEF CallActions, PostVerifyCode, FindCode, MakeCode, SetCode, SetExpire, SendMail, mysql
<1>2. \A e \in Emails : inbox[e] \subseteq inbox'[e]
  <2>1. CASE SendMail(v)
    BY <2>1 DEF SendMail, TypeOK
  <2>2. CASE ~SendMail(v)
    BY <2>2 DEF CallActions, PostVerifyCode, FindCode, MakeCode, SetCode, SetExpire, mails
  <2>3. QED
    BY <2>1, <2>2
<1>3. \A e \in Emails : \A c \in inbox'[e] : MadeFor(c, e)'
  <2>1. CASE SendMail(v)
    <3>1. verify[v].pc = "mail" /\ MadeFor(verify[v].uniqueId, verify[v].email)
      BY <2>1 DEF SendMail, OwnCodes
    <3>2. \A e \in Emails : \A c \in inbox'[e] :
             c \in inbox[e] \/ (c = verify[v].uniqueId /\ e = verify[v].email)
      <4>1. \/ inbox' = inbox
            \/ inbox' = [inbox EXCEPT ![verify[v].email] = @ \cup {verify[v].uniqueId}]
        BY <2>1 DEF SendMail, UniqueId
      <4>2. inbox \in [Emails -> SUBSET Codes]
        BY DEF TypeOK
      <4>3. QED
        BY <4>1, <4>2
    <3>3. codes' = codes /\ madeFor' = madeFor
      BY <2>1 DEF SendMail
    <3>4. QED
      BY <3>1, <3>2, <3>3 DEF Mailed, MadeFor
  <2>2. CASE MakeCode(v)
    <3>1. inbox' = inbox
      BY <2>2 DEF MakeCode
    <3>2. QED
      BY <2>2, <3>1, MadeForStays DEF Mailed, MadeFor
  <2>3. CASE ~SendMail(v) /\ ~MakeCode(v)
    <3>1. inbox' = inbox /\ codes' = codes /\ madeFor' = madeFor
      BY <2>3 DEF CallActions, PostVerifyCode, FindCode, SetCode, SetExpire, mails
    <3>2. QED
      BY <3>1 DEF Mailed, MadeFor
  <2>4. QED
    BY <2>1, <2>2, <2>3
<1>4. ASSUME NEW t \in Threads PROVE user'[t].code \in MailedCodes' \cup {0}
  BY <1>1, <1>2 DEF Mailed, MailedCodes
<1>5. ASSUME NEW t \in Threads, user'[t].pc \in {"exists", "insert", "update"}
      PROVE  user'[t].code \in inbox'[user'[t].email]
  <2>1. user[t].email \in Emails
    BY <1>1, <1>5, BusyThread
  <2>2. QED
    BY <1>1, <1>2, <1>5, <2>1 DEF Mailed
<1>6. QED
  BY <1>1, <1>2, <1>3, <1>4, <1>5 DEF Mailed

LEMMA MailedThread ==
    ASSUME TypeOK, OwnCodes, Mailed, NEW t \in Threads, ThreadActions(t)
    PROVE  Mailed'
<1>1. inbox' = inbox /\ codes' = codes /\ madeFor' = madeFor /\ MailedCodes' = MailedCodes
  BY DEF ThreadActions, Request, AcceptCode, RefuseCode, UserExists, UserNotVerified, Store,
         mails, MailedCodes
<1>2. ASSUME NEW h \in {"register", "reset"}, NEW e \in Emails, NEW p \in Passwords,
             NEW c \in MailedCodes \cup {0}, Request(t, h, e, p, c)
      PROVE  Mailed'
  BY <1>1, <1>2 DEF Request, Mailed, MadeFor, TypeOK, mysql
<1>3. CASE AcceptCode(t)
  <2>1. user[t].email \in Emails /\ user[t].pc # "idle" /\ RightCode(t)
    BY <1>3, BusyThread DEF AcceptCode
  <2>2. user[t].code # 0 /\ MadeFor(user[t].code, user[t].email)
    BY <2>1 DEF RightCode, NotMissing, OwnCodes
  <2>3. PICK f \in Emails : user[t].code \in inbox[f]
    BY <2>2 DEF Mailed, MailedCodes
  <2>4. user[t].code \in inbox[user[t].email]
    BY <2>2, <2>3 DEF Mailed, MadeFor
  <2>5. \A u \in Threads : IF u = t
           THEN user'[u].code = user[u].code /\ user'[u].email = user[u].email
           ELSE user'[u] = user[u]
    BY <1>3, <2>1, BusyThread DEF AcceptCode, Proceed, TypeOK, Handling
  <2>6. QED
    BY <1>1, <1>3, <2>4, <2>5 DEF AcceptCode, Mailed, MadeFor, mysql
<1>4. CASE RefuseCode(t) \/ UserExists(t)
  BY <1>1, <1>4 DEF RefuseCode, UserExists, AnswerUser, IdleThread, Mailed, MadeFor, TypeOK, mysql
<1>5. CASE UserNotVerified(t)
  <2>1. \A u \in Threads : IF u = t
           THEN /\ user[u].pc = "exists"
                /\ user'[u].code = user[u].code /\ user'[u].email = user[u].email
           ELSE user'[u] = user[u]
    BY <1>5, BusyThread DEF UserNotVerified, Proceed, TypeOK, Handling
  <2>2. QED
    BY <1>1, <1>5, <2>1 DEF UserNotVerified, Mailed, MadeFor, mysql
<1>6. CASE Store(t)
  <2>1. user[t].code \in inbox[user[t].email]
    BY <1>6 DEF Store, Mailed
  <2>2. \A e \in Emails : \/ setWith'[e] = setWith[e]
                          \/ setWith'[e] = user[t].code /\ e = user[t].email
    BY <1>6 DEF Store, Stores, SetPassword, TypeOK, mysql
  <2>3. \A u \in Threads : \/ user'[u].pc = "idle" /\ user'[u].code = 0
                           \/ user'[u] = user[u]
    BY <1>6 DEF Store, AnswerUser, IdleThread, TypeOK
  <2>4. QED
    BY <1>1, <2>1, <2>2, <2>3 DEF Mailed, MadeFor
<1>7. QED
  BY <1>2, <1>3, <1>4, <1>5, <1>6 DEF ThreadActions

LEMMA MailedInit == Init => Mailed
BY DEF Init, Mailed, IdleThread

(* No account gets a password on the strength of another address's code,   *)
(* nor of one that was not mailed to it, however the calls of the two      *)
(* servers interleave and whatever fails.                                  *)
THEOREM PasswordsNeedOwnCodes == Spec => []OwnCodeOnly
<1>1. ASSUME TypeOK, OwnCodes, Mailed, [Next]_vars
      PROVE  OwnCodes' /\ Mailed'
  <2>1. ASSUME NEW e \in Emails, Expire(e) PROVE OwnCodes' /\ Mailed'
    <3>1. OwnCodes'
      BY <1>1, <2>1 DEF Expire, OwnCodes, MadeFor, TypeOK, mails, mysql
    <3>2. Mailed'
      BY <1>1, <2>1 DEF Expire, Mailed, MadeFor, MailedCodes, mails, mysql
    <3>3. QED
      BY <3>1, <3>2
  <2>2. CASE Next
    BY <1>1, <2>1, <2>2, NextSplits, OwnCodesCall, OwnCodesThread, MailedCall, MailedThread
  <2>3. CASE UNCHANGED vars
    BY <1>1, <2>3 DEF OwnCodes, Mailed, MadeFor, MailedCodes, vars, redis, mails, mysql
  <2>4. QED
    BY <1>1, <2>2, <2>3
<1>2. OwnCodes /\ Mailed => OwnCodeOnly
  BY DEF OwnCodes, Mailed, OwnCodeOnly, MadeFor
<1>3. QED
  BY OwnCodesInit, MailedInit, AccountsTypeCorrect, <1>1, <1>2, PTL DEF Spec

-----------------------------------------------------------------------------
(* A step that leaves faults at 0 is one of these: nothing failed.         *)
LEMMA FaultCounts ==
    ASSUME TypeOK, Fault
    PROVE  faults' # 0
BY DEF TypeOK, Fault

LEMMA FaultsStay ==
    ASSUME TypeOK, [Next]_vars, faults' = 0
    PROVE  faults = 0 /\ ~Fault
<1>1. ~Fault
  BY FaultCounts
<1>2. faults' = faults
  BY <1>1 DEF Next, vars, PostVerifyCode, FindCode, MakeCode, SetCode, SetExpire,
              SendMail, Expire, Request, AcceptCode, RefuseCode, UserExists,
              UserNotVerified, Store
<1>3. QED
  BY <1>1, <1>2

(* Without failures, each step does one of these to the codes in Redis and *)
(* to the calls that have something left to do about them.                 *)
Step(v) ==
    \/ /\ verify[v].pc \notin {"expire", "mail"}
       /\ \A w \in VerifyCalls \ {v} : verify'[w] = verify[w]
       /\ UNCHANGED <<redis, inbox>>
    \/ SetCode(v) \/ SetExpire(v) \/ SendMail(v)

LEMMA StepKinds ==
    ASSUME TypeOK, [Next]_vars
    PROVE  \/ \E v \in VerifyCalls : Step(v)
           \/ \E e \in Emails : Expire(e)
           \/ UNCHANGED <<redis, inbox, verify>>
<1>1. ASSUME NEW v \in VerifyCalls, CallActions(v)
      PROVE  Step(v)
  <2>1. ASSUME NEW e \in Emails, PostVerifyCode(v, e) PROVE Step(v)
    BY <2>1 DEF PostVerifyCode, Step, TypeOK, mails
  <2>2. CASE FindCode(v)
    BY <2>2 DEF FindCode, Hold, Step, TypeOK, mails
  <2>3. CASE MakeCode(v)
    BY <2>3 DEF MakeCode, Hold, Step, TypeOK
  <2>4. QED
    BY <1>1, <2>1, <2>2, <2>3 DEF CallActions, Step
<1>2. ASSUME NEW t \in Threads, ThreadActions(t)
      PROVE  UNCHANGED <<redis, inbox, verify>>
  BY <1>2 DEF ThreadActions, Request, AcceptCode, RefuseCode, UserExists,
              UserNotVerified, Store, mails
<1>3. CASE UNCHANGED vars
  BY <1>3 DEF vars, mails
<1>4. QED
  BY <1>1, <1>2, <1>3, NextSplits

(* No code stays without a time to live unless a command failed.           *)
THEOREM CodesAreLimited == Spec => []CodesExpire
<1>1. Init => CodesExpire
  BY DEF Init, CodesExpire
<1>2. ASSUME TypeOK, CodesExpire, [Next]_vars
      PROVE  CodesExpire'
  <2>1. SUFFICES ASSUME faults' = 0, NEW e \in lasting'
                 PROVE  \E v \in VerifyCalls :
                           verify'[v].pc = "expire" /\ verify'[v].email = e
    BY DEF CodesExpire
  <2>2. ~Fault /\ \A f \in lasting : \E v \in VerifyCalls :
                     verify[v].pc = "expire" /\ verify[v].email = f
    BY <1>2, <2>1, FaultsStay DEF CodesExpire
  <2>3. ASSUME NEW v \in VerifyCalls, Step(v)
        PROVE  \E w \in VerifyCalls : verify'[w].pc = "expire" /\ verify'[w].email = e
    <3>1. CASE /\ verify[v].pc \notin {"expire", "mail"}
               /\ \A w \in VerifyCalls \ {v} : verify'[w] = verify[w]
               /\ UNCHANGED <<redis, inbox>>
      <4>1. PICK w \in VerifyCalls : verify[w].pc = "expire" /\ verify[w].email = e
        BY <2>1, <2>2, <3>1 DEF redis
      <4>2. QED
        BY <3>1, <4>1
    <3>2. CASE SetCode(v)
      <4>1. /\ lasting' = lasting \cup {verify[v].email}
            /\ verify' = [verify EXCEPT ![v].pc = "expire"]
            /\ verify[v].pc = "set"
        BY <2>2, <3>2 DEF SetCode, StoreCode, Goto
      <4>2. verify'[v].pc = "expire" /\ verify'[v].email = verify[v].email
        BY <1>2, <4>1, BusyCall DEF TypeOK, Pending
      <4>3. CASE e = verify[v].email
        BY <4>2, <4>3
      <4>4. CASE e \in lasting
        <5>1. PICK w \in VerifyCalls : verify[w].pc = "expire" /\ verify[w].email = e
          BY <2>2, <4>4
        <5>2. verify'[w] = verify[w]
          BY <1>2, <4>1, <5>1 DEF TypeOK
        <5>3. QED
          BY <5>1, <5>2
      <4>5. QED
        BY <2>1, <4>1, <4>3, <4>4
    <3>3. CASE SetExpire(v)
      <4>1. /\ lasting' = lasting \ {verify[v].email}
            /\ verify' = [verify EXCEPT ![v].pc = "mail"]
        BY <2>2, <3>3 DEF SetExpire, Limited, Goto
      <4>2. PICK w \in VerifyCalls : verify[w].pc = "expire" /\ verify[w].email = e
        BY <2>1, <2>2, <4>1
      <4>3. verify'[w] = verify[w]
        BY <1>2, <2>1, <4>1, <4>2 DEF TypeOK
      <4>4. QED
        BY <4>2, <4>3
    <3>4. CASE SendMail(v)
      <4>1. /\ lasting' = lasting /\ verify[v].pc = "mail"
            /\ verify' = [verify EXCEPT ![v] = IdleCall]
        BY <3>4 DEF SendMail, AnswerVerify, redis
      <4>2. PICK w \in VerifyCalls : verify[w].pc = "expire" /\ verify[w].email = e
        BY <2>1, <2>2, <4>1
      <4>3. verify'[w] = verify[w]
        BY <1>2, <4>1, <4>2 DEF TypeOK
      <4>4. QED
        BY <4>2, <4>3
    <3>5. QED
      BY <2>3, <3>1, <3>2, <3>3, <3>4 DEF Step
  <2>4. CASE UNCHANGED <<redis, inbox, verify>> \/ \E f \in Emails : Expire(f)
    BY <2>1, <2>2, <2>4 DEF redis, Expire
  <2>5. QED
    BY <1>2, <2>3, <2>4, StepKinds
<1>3. QED
  BY AccountsTypeCorrect, <1>1, <1>2, PTL DEF Spec

-----------------------------------------------------------------------------
(* A call that has the code of e and is still to mail it                   *)
Mailing(w, e) ==
    /\ verify[w].pc \in {"expire", "mail"}
    /\ verify[w].email = e /\ verify[w].uniqueId = code[e]

(* Of the calls that found no code, the one that stored last mails it.      *)
THEOREM CodesAreMailed == Spec => []CurrentCodeIsMailed
<1>1. Init => CurrentCodeIsMailed
  BY DEF Init, CurrentCodeIsMailed
<1>2. ASSUME TypeOK, CurrentCodeIsMailed, [Next]_vars
      PROVE  CurrentCodeIsMailed'
  <2>1. SUFFICES ASSUME faults' = 0, NEW e \in Emails, code'[e] # 0
                 PROVE  \/ code'[e] \in inbox'[e]
                        \/ \E w \in VerifyCalls :
                             /\ verify'[w].pc \in {"expire", "mail"}
                             /\ verify'[w].email = e
                             /\ verify'[w].uniqueId = code'[e]
    BY DEF CurrentCodeIsMailed
  <2>2. /\ ~Fault
        /\ code[e] # 0 =>
             \/ code[e] \in inbox[e]
             \/ \E w \in VerifyCalls : Mailing(w, e)
    BY <1>2, <2>1, FaultsStay DEF CurrentCodeIsMailed, Mailing
  <2>3. ASSUME NEW v \in VerifyCalls, Step(v)
        PROVE  \/ code'[e] \in inbox'[e]
               \/ \E w \in VerifyCalls :
                    /\ verify'[w].pc \in {"expire", "mail"}
                    /\ verify'[w].email = e
                    /\ verify'[w].uniqueId = code'[e]
    <3>1. CASE /\ verify[v].pc \notin {"expire", "mail"}
               /\ \A w \in VerifyCalls \ {v} : verify'[w] = verify[w]
               /\ UNCHANGED <<redis, inbox>>
      BY <2>1, <2>2, <3>1 DEF redis, Mailing
    <3>2. CASE SetCode(v)
      <4>1. /\ code' = [code EXCEPT ![verify[v].email] = verify[v].uniqueId]
            /\ verify' = [verify EXCEPT ![v].pc = "expire"]
            /\ verify[v].pc = "set" /\ inbox' = inbox
        BY <2>2, <3>2 DEF SetCode, StoreCode, Goto, mails
      <4>2. /\ verify'[v].pc = "expire" /\ verify'[v].email = verify[v].email
            /\ verify'[v].uniqueId = verify[v].uniqueId
        BY <1>2, <4>1, BusyCall DEF TypeOK, Pending
      <4>3. CASE e = verify[v].email
        BY <1>2, <4>1, <4>2, <4>3 DEF TypeOK
      <4>4. CASE e # verify[v].email
        <5>1. code'[e] = code[e]
          BY <1>2, <4>1, <4>4 DEF TypeOK
        <5>2. \A w \in VerifyCalls : Mailing(w, e) => verify'[w] = verify[w]
          BY <1>2, <4>1 DEF Mailing, TypeOK
        <5>3. QED
          BY <2>1, <2>2, <4>1, <5>1, <5>2 DEF Mailing
      <4>5. QED
        BY <4>3, <4>4
    <3>3. CASE SetExpire(v)
      <4>1. /\ verify' = [verify EXCEPT ![v].pc = "mail"]
            /\ verify[v].pc = "expire" /\ UNCHANGED <<code, inbox>>
        BY <2>2, <3>3 DEF SetExpire, Goto, mails
      <4>2. \A w \in VerifyCalls : Mailing(w, e) =>
                /\ verify'[w].pc \in {"expire", "mail"}
                /\ verify'[w].email = verify[w].email
                /\ verify'[w].uniqueId = verify[w].uniqueId
        BY <1>2, <4>1, BusyCall DEF Mailing, TypeOK, Pending
      <4>3. QED
        BY <2>1, <2>2, <4>1, <4>2 DEF Mailing
    <3>4. CASE SendMail(v)
      <4>1. /\ inbox' = [inbox EXCEPT ![verify[v].email] = @ \cup {verify[v].uniqueId}]
            /\ verify' = [verify EXCEPT ![v] = IdleCall]
            /\ code' = code
        BY <2>2, <3>4 DEF SendMail, UniqueId, AnswerVerify, redis
      <4>2. /\ inbox[e] \subseteq inbox'[e]
            /\ e = verify[v].email => verify[v].uniqueId \in inbox'[e]
        BY <1>2, <4>1 DEF TypeOK
      <4>3. \A w \in VerifyCalls : w = v \/ verify'[w] = verify[w]
        BY <1>2, <4>1 DEF TypeOK
      <4>4. QED
        BY <2>1, <2>2, <4>1, <4>2, <4>3 DEF Mailing
    <3>5. QED
      BY <2>3, <3>1, <3>2, <3>3, <3>4 DEF Step
  <2>4. CASE UNCHANGED <<redis, inbox, verify>>
    BY <2>1, <2>2, <2>4 DEF redis, Mailing
  <2>5. ASSUME NEW f \in Emails, Expire(f)
        PROVE  /\ code'[e] = code[e]
               /\ UNCHANGED <<inbox, verify>>
    BY <1>2, <2>1, <2>5 DEF Expire, TypeOK, mails
  <2>6. QED
    BY <1>2, <2>1, <2>2, <2>3, <2>4, <2>5, StepKinds DEF Mailing
<1>3. QED
  BY AccountsTypeCorrect, <1>1, <1>2, PTL DEF Spec

-----------------------------------------------------------------------------
(* What a step can do to the accounts                                      *)
LEMMA StoreOnly ==
    ASSUME [Next]_vars
    PROVE  (\E t \in Threads : Store(t)) \/ UNCHANGED <<account, registered>>
<1>1. ASSUME NEW v \in VerifyCalls, CallActions(v) PROVE UNCHANGED <<account, registered>>
  BY <1>1 DEF CallActions, PostVerifyCode, FindCode, MakeCode, SetCode, SetExpire,
              SendMail, mysql
<1>2. ASSUME NEW t \in Threads, ThreadActions(t)
      PROVE  Store(t) \/ UNCHANGED <<account, registered>>
  BY <1>2 DEF ThreadActions, Request, AcceptCode, RefuseCode, UserExists,
              UserNotVerified, mysql
<1>3. QED
  BY <1>1, <1>2, NextSplits DEF Expire, vars, mysql

(* No interleaving of registrations and resets answers a registration with *)
(* a success that leaves the address without an account.                   *)
THEOREM SuccessMeansAccount == Spec => []RegisteredHasAccount
<1>1. Init => RegisteredHasAccount
  BY DEF Init, RegisteredHasAccount
<1>2. ASSUME TypeOK, RegisteredHasAccount, [Next]_vars
      PROVE  RegisteredHasAccount'
  <2>1. SUFFICES ASSUME faults' = 0, NEW e \in registered' PROVE account'[e] # None
    BY DEF RegisteredHasAccount
  <2>2. ~Fault /\ \A f \in registered : account[f] # None
    BY <1>2, <2>1, FaultsStay DEF RegisteredHasAccount
  <2>3. CASE UNCHANGED <<account, registered>>
    BY <2>1, <2>2, <2>3
  <2>4. ASSUME NEW t \in Threads, Store(t) PROVE account'[e] # None
    <3>1. /\ user[t].email \in Emails /\ user[t].password \in Passwords
          /\ user[t].pc \in {"insert", "update"}
      BY <1>2, <2>4, BusyThread DEF Store
    <3>2. user[t].password # None
      BY <3>1, AccountsAssumption
    <3>3. Stores(t)
      BY <2>2, <2>4 DEF Store
    <3>4. e \in Emails /\ (e \in registered \/ (e = user[t].email /\ user[t].pc = "insert"))
      BY <1>2, <2>1, <2>4, <3>1 DEF Store, AnswerSuccess, TypeOK
    <3>5. CASE SetPassword(t)
      BY <1>2, <2>2, <3>1, <3>2, <3>4, <3>5 DEF SetPassword, TypeOK
    <3>6. CASE UNCHANGED <<account, setWith>> /\ ~SetPassword(t)
      BY <2>2, <3>1, <3>3, <3>4, <3>6 DEF Stores
    <3>7. QED
      BY <3>3, <3>5, <3>6 DEF Stores
  <2>5. QED
    BY <1>2, <2>3, <2>4, StoreOnly
<1>3. QED
  BY AccountsTypeCorrect, <1>1, <1>2, PTL DEF Spec
=============================================================================
