------------------------- MODULE AuthSessionsProofs -------------------------
(***************************************************************************)
(* Proofs about AuthSessions, for any names, addresses and clients, any    *)
(* limits and lifetime, and any number of sessions, requests and mishaps.  *)
(***************************************************************************)
EXTENDS AuthSessions, FiniteSetTheorems, SequenceTheorems, TLAPS

Ops == {"register", "login", "use"} \cup Leaving
Registering == {"first", "name", "email", "insert"}
Loging == {"password", "user", "session"}
Signed == {"find", "expiry", "owner", "delete", "passed"}
Pcs == {"idle"} \cup Registering \cup Loging \cup Signed
Reasons == {"logout", "expired", "inactive"}

Requests ==
    [op : Ops \cup {None}, pc : Pcs, name : Names \cup {None},
     email : Emails \cup {<<>>, None}, role : {"admin", "user", None},
     tok : Tokens \cup {None}, earlier : SUBSET Names, barred : SUBSET Reasons]

\* What a request carries at each of its points.
WellFormed(q) ==
    /\ q \in Requests
    /\ q.pc \in Registering => q.op = "register" /\ q.name \in Names /\ q.email \in Emails
    /\ q.pc \in Registering \ {"first"} => q.role \in {"admin", "user"}
    /\ q.pc \in Loging => q.op = "login" /\ q.name \in Names
    /\ q.pc \in Signed => q.op \in {"use"} \cup Leaving /\ q.tok \in Tokens
    /\ q.pc = "delete" => q.op \in Leaving

Tables ==
    /\ account \in [Names -> Account \cup {None}]
    /\ token \in [Tokens -> Session \cup {None}]
    /\ rows \subseteq Issued /\ answered \subseteq Issued /\ ended \subseteq answered
    /\ clock \in 0..MaxClock

Limiter ==
    /\ attempts \in [Keys -> [count : Nat, start : Nat] \cup {None}]
    /\ \A key \in Keys : /\ attempts[key] \in Entries(key) \cup {None}
                         /\ denied[key] \in 0..MaxClock \cup {None}
    /\ denied \in [Keys -> 0..MaxClock \cup {None}]
    /\ let_in \in [Keys -> Seq(0..MaxClock)]
    /\ begun \in 0..MaxRequests /\ mishaps \in 0..MaxMishaps

RequestsWell == req \in [Reqs -> Requests] /\ \A r \in Reqs : WellFormed(req[r])

\* What is referred to is there, and stays there.
Refers ==
    /\ \A r \in Reqs : /\ req[r].tok # None => token[req[r].tok] # None
                       /\ req[r].pc \in {"user", "session"} => Exists(req[r].name)
    /\ \A t \in Tokens : token[t] # None => Exists(token[t].name)

TypeInv == Tables /\ Limiter /\ RequestsWell /\ Refers

LEMMA Numbers ==
    /\ MaxClock \in Nat /\ Lifetime \in Nat /\ Lifetime > 0
    /\ MaxTokens \in Nat /\ Tokens \subseteq Nat /\ None \notin Tokens
    /\ MaxRequests \in Nat /\ MaxMishaps \in Nat /\ Window \in Nat
    /\ LoginMax \in Nat /\ LoginMax > 0 /\ RegisterMax \in Nat /\ RegisterMax > 0
BY BoundAssumption, NoneAssumption DEF Tokens

LEMMA Normal ==
    /\ \A name \in RawNames : normalize_username(name) \in Names \cup {None}
    /\ \A email \in RawEmails : normalize_email(email) \in Emails \cup {None}
    /\ None \notin Names /\ None \notin Emails
BY DEF Names, Emails

LEMMA RequestWell ==
    ASSUME NEW op, NEW pc, NEW name, NEW email, NEW tok, NEW earlier, NEW barred,
           op \in Ops \cup {None}, pc \in Pcs, name \in Names \cup {None},
           email \in Emails \cup {<<>>, None}, tok \in Tokens \cup {None},
           earlier \in SUBSET Names, barred \in SUBSET Reasons
    PROVE  Request(op, pc, name, email, tok, earlier, barred) \in Requests
BY DEF Request, Requests

LEMMA IdleWell == WellFormed(Idle) /\ Idle.tok = None /\ Idle.pc = "idle" /\ Idle.op = None
                  /\ Idle.barred = {} /\ Idle.earlier = {}
<1>1. Idle.tok = None /\ Idle.pc = "idle" /\ Idle.op = None /\ Idle.barred = {}
      /\ Idle.earlier = {}
  BY DEF Idle, Request
<1>2. Idle \in Requests
  <2>1. /\ None \in Ops \cup {None} /\ "idle" \in Pcs /\ None \in Names \cup {None}
        /\ None \in Emails \cup {<<>>, None} /\ None \in Tokens \cup {None}
    BY DEF Pcs
  <2>2. {} \in SUBSET Names /\ {} \in SUBSET Reasons
    OBVIOUS
  <2> QED
    BY <2>1, <2>2, RequestWell DEF Idle
<1> QED
  BY <1>1, <1>2 DEF WellFormed, Registering, Loging, Signed

LEMMA ReplaceWell ==
    ASSUME RequestsWell, NEW r \in Reqs, NEW q, WellFormed(q),
           req' = [req EXCEPT ![r] = q]
    PROVE  RequestsWell'
<1>1. q \in Requests
  BY DEF WellFormed
<1>2. req' \in [Reqs -> Requests]
  BY <1>1 DEF RequestsWell
<1>3. ASSUME NEW x \in Reqs PROVE WellFormed(req'[x])
  <2>1. req'[x] = IF x = r THEN q ELSE req[x]
    BY DEF RequestsWell
  <2> QED
    BY <2>1 DEF RequestsWell
<1> QED
  BY <1>2, <1>3 DEF RequestsWell

LEMMA FinishWell ==
    ASSUME RequestsWell, NEW r \in Reqs, Finish(r)
    PROVE  RequestsWell' /\ req'[r] = Idle
BY IdleWell, ReplaceWell DEF Finish, RequestsWell

\* From one point to the next, with everything else kept.
Following ==
    {<<"name", "email">>, <<"email", "insert">>, <<"password", "user">>,
     <<"user", "session">>, <<"find", "expiry">>, <<"expiry", "owner">>,
     <<"owner", "passed">>}

LEMMA GotoFields ==
    ASSUME RequestsWell, NEW r \in Reqs, NEW pc, Goto(r, pc)
    PROVE  /\ req'[r].pc = pc /\ req'[r].op = req[r].op /\ req'[r].name = req[r].name
           /\ req'[r].email = req[r].email /\ req'[r].role = req[r].role
           /\ req'[r].tok = req[r].tok /\ req'[r].earlier = req[r].earlier
           /\ req'[r].barred = req[r].barred
           /\ (pc \in Pcs => req'[r] \in Requests)
<1>1. req[r] \in Requests /\ req'[r] = [req[r] EXCEPT !.pc = pc]
  BY DEF Goto, RequestsWell
<1> QED
  BY <1>1 DEF Requests

LEMMA GotoWell ==
    ASSUME RequestsWell, NEW r \in Reqs, NEW pc, Goto(r, pc),
           \/ <<req[r].pc, pc>> \in Following
           \/ req[r].pc = "owner" /\ pc = "delete" /\ req[r].op \in Leaving
    PROVE  RequestsWell'
<1> DEFINE q == [req[r] EXCEPT !.pc = pc]
<1>1. WellFormed(req[r])
  BY DEF RequestsWell
<1>2. /\ q.pc = pc /\ q.op = req[r].op /\ q.name = req[r].name
      /\ q.email = req[r].email /\ q.role = req[r].role /\ q.tok = req[r].tok
      /\ (pc \in Pcs => q \in Requests)
  BY <1>1 DEF Requests, WellFormed
<1>3. \/ req[r].pc \in Registering \ {"first"} /\ pc \in Registering \ {"first"}
      \/ req[r].pc \in Loging /\ pc \in Loging
      \/ /\ req[r].pc \in Signed /\ pc \in Signed
         /\ pc = "delete" => req[r].op \in Leaving
  BY DEF Following, Registering, Loging, Signed
<1>4. pc \in Pcs
  BY <1>3 DEF Pcs
<1>5. req' = [req EXCEPT ![r] = q]
  BY DEF Goto
<1> HIDE DEF q
<1>6. WellFormed(q)
  BY <1>1, <1>2, <1>3, <1>4 DEF WellFormed, Registering, Loging, Signed
<1> QED
  BY <1>5, <1>6, ReplaceWell

LEMMA BarredType == \A t : Barred(t) \in SUBSET Reasons
BY DEF Barred, Reasons

LEMMA EnterWell ==
    ASSUME RequestsWell, NEW r \in Reqs, NEW via, NEW key, NEW request,
           request.name # None /\ request.email # None => WellFormed(request),
           Enter(r, via, key, request)
    PROVE  RequestsWell'
<1>1. CASE req' = req
  BY <1>1 DEF RequestsWell, WellFormed
<1>2. CASE req' # req
  <2>1. request.name # None /\ request.email # None /\ req' = [req EXCEPT ![r] = request]
    BY <1>2 DEF Enter
  <2> QED
    BY <2>1, ReplaceWell
<1> QED
  BY <1>1, <1>2

LEMMA BeginWell ==
    ASSUME TypeInv, NEW r \in Reqs, Begin(r)
    PROVE  RequestsWell'
<1>1. RequestsWell
  BY DEF TypeInv
<1>2. /\ None \in Tokens \cup {None} /\ None \in Names \cup {None}
      /\ None \in Emails \cup {<<>>, None} /\ <<>> \in Emails \cup {<<>>, None}
      /\ {} \in SUBSET Names /\ {} \in SUBSET Reasons
      /\ {n \in Names : Exists(n)} \in SUBSET Names
      /\ {"first", "password", "find"} \subseteq Pcs
  BY DEF Pcs, Registering, Loging, Signed
<1>3. ASSUME NEW via, NEW name \in RawNames, NEW email \in RawEmails,
             BeginRegister(r, via, name, email)
      PROVE  RequestsWell'
  <2> DEFINE n == normalize_username(name)
             e == normalize_email(email)
             s == {x \in Names : Exists(x)}
             q == Request("register", "first", n, e, None, s, {})
  <2>1. n \in Names \cup {None} /\ e \in Emails \cup {None}
    BY Normal
  <2>2. Enter(r, via, "register", q)
    BY <1>3 DEF BeginRegister
  <2>3. s \in SUBSET Names
    OBVIOUS
  <2> HIDE DEF n, e, s
  <2>4. /\ q.op = "register" /\ q.pc = "first" /\ q.name = n /\ q.email = e
    BY DEF Request
  <2>5. q \in Requests
    <3>1. "register" \in Ops \cup {None} /\ e \in Emails \cup {<<>>, None} /\ "first" \in Pcs
      BY <1>2, <2>1 DEF Ops
    <3> QED
      BY <1>2, <2>1, <2>3, <3>1, RequestWell, Zenon
  <2> HIDE DEF q
  <2>6. q.name # None /\ q.email # None => WellFormed(q)
    BY <2>1, <2>4, <2>5 DEF WellFormed, Registering, Loging, Signed
  <2> QED
    BY <1>1, <2>2, <2>6, EnterWell
<1>4. ASSUME NEW via, NEW name \in RawNames, BeginLogin(r, via, name)
      PROVE  RequestsWell'
  <2> DEFINE n == normalize_username(name)
             q == Request("login", "password", n, <<>>, None, {}, {})
  <2>1. n \in Names \cup {None}
    BY Normal
  <2>2. Enter(r, via, "login", q)
    BY <1>4 DEF BeginLogin
  <2> HIDE DEF n
  <2>3. q.op = "login" /\ q.pc = "password" /\ q.name = n
    BY DEF Request
  <2>4. q \in Requests
    <3>1. "login" \in Ops \cup {None} /\ "password" \in Pcs
      BY <1>2 DEF Ops
    <3> QED
      BY <1>2, <2>1, <3>1, RequestWell, Zenon
  <2> HIDE DEF q
  <2>5. q.name # None /\ q.email # None => WellFormed(q)
    BY <2>1, <2>3, <2>4 DEF WellFormed, Registering, Loging, Signed
  <2> QED
    BY <1>1, <2>2, <2>5, EnterWell
<1>5. ASSUME NEW op \in {"use", "logout", "logout_submit"}, NEW t \in Issued, BeginSigned(r, op, t)
      PROVE  RequestsWell'
  <2> DEFINE b == Barred(t)
             q == Request(op, "find", None, None, t, {}, b)
  <2>1. b \in SUBSET Reasons /\ t \in Tokens
    BY BarredType DEF Issued
  <2>2. req' = [req EXCEPT ![r] = q]
    BY <1>5 DEF BeginSigned
  <2> HIDE DEF b
  <2>3. q.op = op /\ q.pc = "find" /\ q.tok = t
    BY DEF Request
  <2>4. q \in Requests
    <3>1. op \in Ops \cup {None} /\ "find" \in Pcs /\ t \in Tokens \cup {None}
      BY <1>2, <2>1 DEF Ops, Leaving
    <3> QED
      BY <1>2, <2>1, <3>1, RequestWell, Zenon
  <2> HIDE DEF q
  <2>5. WellFormed(q)
    BY <2>1, <2>3, <2>4 DEF WellFormed, Registering, Loging, Signed, Leaving
  <2> QED
    BY <1>1, <2>2, <2>5, ReplaceWell
<1> QED
  BY <1>3, <1>4, <1>5 DEF Begin

LEMMA MovesWell ==
    ASSUME TypeInv, NEW r \in Reqs, Handle(r) \/ Fail(r), ~Begin(r)
    PROVE  RequestsWell'
<1>1. RequestsWell /\ WellFormed(req[r])
  BY DEF TypeInv, RequestsWell
<1>2. CASE Finish(r)
  BY <1>1, <1>2, FinishWell
<1>3. CASE CheckFirst(r)
  <2> DEFINE role == IF is_first_user THEN "admin" ELSE "user"
             q == [req[r] EXCEPT !.role = role, !.pc = "name"]
  <2>1. req' = [req EXCEPT ![r].role = role, ![r].pc = "name"] /\ req[r].pc = "first"
    BY <1>3 DEF CheckFirst, At
  <2>2. role \in {"admin", "user"}
    OBVIOUS
  <2> HIDE DEF role
  <2>3. req' = [req EXCEPT ![r] = q]
    BY <1>1, <2>1 DEF RequestsWell
  <2>4. /\ q.pc = "name" /\ q.op = req[r].op /\ q.name = req[r].name
        /\ q.email = req[r].email /\ q.role = role /\ q \in Requests
    <3>1. "name" \in Pcs
      BY DEF Pcs, Registering
    <3> QED
      BY <1>1, <2>2, <3>1 DEF Requests, WellFormed
  <2> HIDE DEF q
  <2>5. WellFormed(q)
    BY <1>1, <2>1, <2>2, <2>4 DEF WellFormed, Registering, Loging, Signed
  <2> QED
    BY <1>1, <2>3, <2>5, ReplaceWell
<1>4. CASE ~Finish(r) /\ ~CheckFirst(r)
  <2>1. \/ FindName(r) \/ FindEmail(r) \/ VerifyPassword(r) \/ CheckActive(r)
        \/ FindSession(r) \/ CheckExpiry(r) \/ LoadUser(r)
    BY <1>4 DEF Handle, InsertUser, CreateSession, DeleteSession, Pass, Fail
  <2>2. CASE LoadUser(r)
    BY <1>1, <1>4, <2>2, GotoWell DEF LoadUser, At, Following
  <2>3. CASE FindName(r) \/ FindEmail(r) \/ VerifyPassword(r) \/ CheckActive(r)
             \/ FindSession(r) \/ CheckExpiry(r)
    BY <1>1, <1>4, <2>3, GotoWell
       DEF FindName, FindEmail, VerifyPassword, CheckActive, FindSession, CheckExpiry, At,
           Following
  <2> QED
    BY <2>1, <2>2, <2>3
<1> QED
  BY <1>2, <1>3, <1>4

LEMMA WorldWell ==
    ASSUME TypeInv, Prune \/ Tick \/ Crash \/ (\E n \in Names : SetActive(n))
    PROVE  RequestsWell'
<1>1. RequestsWell
  BY DEF TypeInv
<1>2. CASE Prune \/ Tick
  BY <1>1, <1>2 DEF Prune, Tick, RequestsWell, WellFormed
<1>3. CASE Crash
  <2>1. Idle \in Requests
    BY IdleWell DEF WellFormed
  <2> QED
    BY <1>3, <2>1, IdleWell DEF Crash, RequestsWell
<1>4. ASSUME NEW n \in Names, SetActive(n)
      PROVE  RequestsWell'
  <2>1. ASSUME NEW r \in Reqs
        PROVE  req'[r] \in Requests /\ WellFormed(req'[r])
    <3> DEFINE b == req[r].barred \ {"inactive"}
               q == [req[r] EXCEPT !.barred = b]
    <3>1. WellFormed(req[r]) /\ req[r] \in Requests
      BY <1>1 DEF RequestsWell
    <3>2. req'[r] = req[r] \/ req'[r] = q
      BY <1>4 DEF SetActive
    <3>3. b \in SUBSET Reasons
      BY <3>1 DEF Requests
    <3> HIDE DEF b
    <3>4. /\ q.pc = req[r].pc /\ q.op = req[r].op /\ q.name = req[r].name
          /\ q.email = req[r].email /\ q.role = req[r].role /\ q.tok = req[r].tok
          /\ q \in Requests
      BY <3>1, <3>3 DEF Requests
    <3> HIDE DEF q
    <3> QED
      BY <3>1, <3>2, <3>4 DEF WellFormed
  <2>2. DOMAIN req' = Reqs /\ req' = [x \in Reqs |-> req'[x]]
    BY <1>4 DEF SetActive
  <2> QED
    BY <2>1, <2>2 DEF RequestsWell
<1> QED
  BY <1>2, <1>3, <1>4

(***************************************************************************)
(* The tables.  Accounts and tokens are only ever added; an account keeps  *)
(* its role.                                                               *)
(***************************************************************************)
LEMMA TablesKept ==
    ASSUME Tables, UNCHANGED <<account, token, rows, logouts, clock>>
    PROVE  Tables'
BY DEF Tables, Issued, logouts

\* Who asks to leave has a token, and what is answered about it adds to the
\* history.
LEMMA AnswersOK ==
    ASSUME TypeInv, NEW r \in Reqs, Handle(r) \/ Fail(r)
    PROVE  answered' \subseteq Issued /\ ended' \subseteq answered' /\ ended \subseteq ended'
<1>1. answered \subseteq Issued /\ ended \subseteq answered
  BY DEF TypeInv, Tables
<1>2. req[r].pc \in Signed => req[r].tok \in Issued
  BY Numbers DEF TypeInv, RequestsWell, WellFormed, Refers, Issued
<1>3. CASE ~At(r, "idle") /\ (AnswerGone(r) \/ AnswerLeft(r))
  <2>1. Dismissed(r) \subseteq Issued
    <3>1. CASE req[r].op = "logout_submit"
      <4>1. req[r].pc # "idle"
        BY <1>3 DEF At
      <4> QED
        BY <1>2, <3>1, <4>1
           DEF TypeInv, RequestsWell, WellFormed, Requests, Pcs, Dismissed
    <3>2. CASE req[r].op # "logout_submit"
      BY <3>2 DEF Dismissed
    <3> QED
      BY <3>1, <3>2
  <2> QED
    BY <1>1, <1>3, <2>1 DEF AnswerGone, AnswerLeft
<1>4. CASE DeleteSession(r)
  BY <1>1, <1>2, <1>4 DEF DeleteSession, At, Signed
<1>5. CASE UNCHANGED logouts
  BY <1>1, <1>5 DEF logouts
<1>6. \/ ~At(r, "idle") /\ (AnswerGone(r) \/ AnswerLeft(r))
      \/ DeleteSession(r) \/ UNCHANGED logouts
  BY DEF At, Handle, Fail, Begin, CheckFirst, FindName, FindEmail, InsertUser, VerifyPassword,
         CheckActive, CreateSession, FindSession, CheckExpiry, LoadUser, Pass, OnlyReq
<1> QED
  BY <1>3, <1>4, <1>5, <1>6

LEMMA InsertTables ==
    ASSUME TypeInv, NEW r \in Reqs, InsertUser(r)
    PROVE  Tables'
<1> DEFINE a == [email |-> req[r].email, role |-> req[r].role, active |-> TRUE]
<1>1. /\ req[r].name \in Names /\ req[r].email \in Emails
      /\ req[r].role \in {"admin", "user"}
  BY DEF TypeInv, RequestsWell, WellFormed, InsertUser, At, Registering
<1>2. a \in Account
  BY <1>1 DEF Account
<1>3. account' = account \/ account' = [account EXCEPT ![req[r].name] = a]
  BY DEF InsertUser
<1> HIDE DEF a
<1>4. account' \in [Names -> Account \cup {None}]
  BY <1>1, <1>2, <1>3 DEF TypeInv, Tables
<1> QED
  BY <1>4 DEF InsertUser, TypeInv, Tables, Issued, logouts

LEMMA CreateTables ==
    ASSUME TypeInv, NEW r \in Reqs, CreateSession(r)
    PROVE  Tables'
<1>1. PICK t \in Tokens \ Issued :
        /\ token' = [token EXCEPT ![t] = [name |-> req[r].name, exp |-> clock + Lifetime]]
        /\ rows' = rows \cup {t}
  BY DEF CreateSession
<1> DEFINE s == [name |-> req[r].name, exp |-> clock + Lifetime]
<1>2. s \in Session
  <2>1. req[r].name \in Names
    BY DEF TypeInv, RequestsWell, WellFormed, CreateSession, At, Loging
  <2>2. clock + Lifetime \in 0..MaxClock + Lifetime
    BY Numbers DEF TypeInv, Tables
  <2> QED
    BY <2>1, <2>2 DEF Session
<1> HIDE DEF s
<1>3. token' = [token EXCEPT ![t] = s]
  BY <1>1 DEF s
<1>4. token' \in [Tokens -> Session \cup {None}] /\ token'[t] # None
  BY <1>2, <1>3, NoneAssumption DEF TypeInv, Tables
<1>5. Issued \subseteq Issued' /\ t \in Issued'
  BY <1>3, <1>4 DEF Issued, TypeInv, Tables
<1> QED
  BY <1>1, <1>4, <1>5 DEF CreateSession, TypeInv, Tables, logouts

LEMMA ActiveTables ==
    ASSUME TypeInv, NEW n \in Names, SetActive(n)
    PROVE  Tables'
<1> DEFINE b == ~account[n].active
           a == [email |-> account[n].email, role |-> account[n].role, active |-> b]
<1>1. account[n] \in Account
  BY DEF SetActive, Exists, TypeInv, Tables
<1>2. account[n].email \in Emails /\ account[n].role \in {"admin", "user"} /\ b \in BOOLEAN
  BY <1>1 DEF Account
<1>3. account' = [account EXCEPT ![n] = a]
  BY DEF SetActive
<1> HIDE DEF b
<1>4. a \in Account
  BY <1>2 DEF Account
<1> HIDE DEF a
<1>5. account' \in [Names -> Account \cup {None}]
  BY <1>3, <1>4 DEF TypeInv, Tables
<1> QED
  BY <1>5 DEF SetActive, TypeInv, Tables, Issued, logouts

LEMMA TablesStep ==
    ASSUME TypeInv, [Next]_vars
    PROVE  Tables'
<1>1. Tables
  BY DEF TypeInv
<1>2. CASE UNCHANGED vars
  BY <1>1, <1>2, TablesKept DEF vars
<1>3. ASSUME NEW r \in Reqs, Handle(r) \/ Fail(r)
      PROVE  Tables'
  <2>1. CASE InsertUser(r)
    BY <2>1, InsertTables
  <2>2. CASE CreateSession(r)
    BY <2>2, CreateTables
  <2>3. CASE UNCHANGED <<account, token, clock>> /\ rows' \subseteq rows
    BY <1>1, <1>3, <2>3, AnswersOK DEF Tables, Issued
  <2> QED
    BY <1>3, <2>1, <2>2, <2>3
       DEF Handle, Begin, CheckFirst, FindName, FindEmail, VerifyPassword, CheckActive,
           FindSession, CheckExpiry, LoadUser, DeleteSession, Pass, Fail, OnlyReq
<1>4. CASE Prune
  BY <1>1, <1>4 DEF Prune, delete_expired, Tables, Issued, logouts
<1>5. CASE Tick
  BY <1>1, <1>5, Numbers DEF Tick, Tables, Issued, logouts
<1>6. CASE Crash
  BY <1>1, <1>6, TablesKept DEF Crash
<1>7. CASE \E n \in Names : SetActive(n)
  BY <1>7, ActiveTables
<1> QED
  BY <1>2, <1>3, <1>4, <1>5, <1>6, <1>7 DEF Next

LEMMA EntryType ==
    ASSUME TypeInv, NEW key \in Keys
    PROVE  Entry(key) \in Entries(key) /\ Entry(key) \in [count : Nat, start : Nat]
<1>1. max_attempts[key] \in Nat /\ max_attempts[key] > 0
  BY Numbers DEF Keys, max_attempts
<1>2. clock \in 0..MaxClock /\ MaxClock \in Nat
  BY Numbers DEF TypeInv, Tables
<1>3. CASE attempts[key] = None \/ Elapsed(key)
  <2>1. Entry(key) = [count |-> 1, start |-> clock]
    BY <1>3 DEF Entry
  <2> QED
    BY <1>1, <1>2, <2>1 DEF Entries
<1>4. CASE ~(attempts[key] = None \/ Elapsed(key))
  <2>1. attempts[key] \in Entries(key)
    BY <1>4 DEF TypeInv, Limiter
  <2>2. attempts[key].count \in 1..max_attempts[key] /\ attempts[key].start \in 0..MaxClock
    BY <2>1 DEF Entries
  <2>3. CASE Admits(key)
    <3>1. attempts[key].count < max_attempts[key]
      BY <1>4, <2>3 DEF Admits
    <3>2. Entry(key) = [count |-> attempts[key].count + 1, start |-> attempts[key].start]
      BY <1>4, <2>3 DEF Entry
    <3> QED
      BY <1>1, <1>2, <2>2, <3>1, <3>2 DEF Entries
  <2>4. CASE ~Admits(key)
    <3>1. Entry(key) = attempts[key]
      BY <1>4, <2>4 DEF Entry
    <3> QED
      BY <1>1, <1>2, <2>1, <3>1 DEF Entries
  <2> QED
    BY <2>3, <2>4
<1> QED
  BY <1>3, <1>4

LEMMA LimiterKept ==
    ASSUME Limiter, UNCHANGED <<attempts, denied, let_in>>, begun' \in 0..MaxRequests,
           mishaps' \in 0..MaxMishaps
    PROVE  Limiter'
BY DEF Limiter, Entries

LEMMA CheckLimiter ==
    ASSUME TypeInv, NEW key \in Keys, check(key), begun' \in 0..MaxRequests,
           mishaps' = mishaps
    PROVE  Limiter'
<1> DEFINE e == Entry(key)
<1>1. e \in Entries(key) /\ e \in [count : Nat, start : Nat]
  BY EntryType
<1>2. attempts' = [attempts EXCEPT ![key] = e]
  BY DEF check
<1> HIDE DEF e
<1>3. denied' = denied \/ denied' = [denied EXCEPT ![key] = clock]
  BY DEF check
<1>4. clock \in 0..MaxClock
  BY DEF TypeInv, Tables
<1>5. attempts' \in [Keys -> [count : Nat, start : Nat] \cup {None}]
  BY <1>1, <1>2 DEF TypeInv, Limiter
<1>6. denied' \in [Keys -> 0..MaxClock \cup {None}]
  BY <1>3, <1>4 DEF TypeInv, Limiter
<1>8. let_in' \in [Keys -> Seq(0..MaxClock)]
  <2>1. let_in' = let_in \/ let_in' = [let_in EXCEPT ![key] = Append(let_in[key], clock)]
    BY DEF check
  <2>2. Append(let_in[key], clock) \in Seq(0..MaxClock)
    BY <1>4 DEF TypeInv, Limiter
  <2> QED
    BY <2>1, <2>2 DEF TypeInv, Limiter
<1>7. ASSUME NEW k \in Keys
      PROVE  attempts'[k] \in Entries(k) \cup {None}
  <2>1. attempts'[k] = IF k = key THEN e ELSE attempts[k]
    BY <1>2 DEF TypeInv, Limiter
  <2> QED
    BY <1>1, <2>1 DEF TypeInv, Limiter
<1> QED
  BY <1>5, <1>6, <1>7, <1>8 DEF TypeInv, Limiter, Entries

LEMMA LimiterStep ==
    ASSUME TypeInv, [Next]_vars
    PROVE  Limiter'
<1>1. Limiter /\ begun \in 0..MaxRequests /\ mishaps \in 0..MaxMishaps
  BY DEF TypeInv, Limiter
<1>2. CASE UNCHANGED vars
  BY <1>1, <1>2, LimiterKept DEF vars, bounds
<1>3. ASSUME NEW r \in Reqs, Begin(r)
      PROVE  Limiter'
  <2>1. begun' \in 0..MaxRequests /\ mishaps' = mishaps
    BY <1>1, <1>3, Numbers DEF Begin
  <2>2. \/ UNCHANGED <<attempts, denied, let_in>>
        \/ \E key \in Keys : check(key)
    BY <1>3 DEF Begin, BeginRegister, BeginLogin, BeginSigned, Enter, Keys
  <2> QED
    BY <1>1, <2>1, <2>2, LimiterKept, CheckLimiter
<1>4. ASSUME NEW r \in Reqs, Handle(r), ~Begin(r)
      PROVE  Limiter'
  <2>1. UNCHANGED <<attempts, denied, let_in, begun, mishaps>>
    BY <1>4
       DEF Handle, CheckFirst, FindName, FindEmail, InsertUser, VerifyPassword, CheckActive,
           CreateSession, FindSession, CheckExpiry, LoadUser, DeleteSession, Pass, OnlyReq,
           bounds
  <2> QED
    BY <1>1, <2>1, LimiterKept
<1>5. CASE Prune \/ Tick \/ (\E n \in Names : SetActive(n)) \/ \E r \in Reqs : Fail(r)
  <2>1. UNCHANGED <<attempts, denied, let_in, begun>>
    BY <1>5 DEF Prune, Tick, SetActive, Fail, bounds
  <2>2. mishaps' \in 0..MaxMishaps
    BY <1>1, <1>5, Numbers DEF Prune, Tick, SetActive, Fail, Mishap, bounds
  <2> QED
    BY <1>1, <2>1, <2>2, LimiterKept
<1>6. CASE Crash
  <2>1. begun' \in 0..MaxRequests /\ mishaps' \in 0..MaxMishaps
    BY <1>1, <1>6, Numbers DEF Crash, Mishap
  <2>2. attempts' = Unlimited /\ denied' = Unlimited /\ let_in' = NobodyLetIn
    BY <1>6 DEF Crash
  <2> QED
    BY <2>1, <2>2 DEF Limiter, Unlimited, NobodyLetIn, Entries
<1> QED
  BY <1>2, <1>3, <1>4, <1>5, <1>6 DEF Next

(***************************************************************************)
(* One step of a request, of another one, and of the rest.                 *)
(***************************************************************************)
LEMMA Grow ==
    ASSUME TypeInv, [Next]_vars
    PROVE  /\ \A n \in Names : Exists(n) =>
                 account'[n] # None /\ account'[n].role = account[n].role
           /\ \A t \in Tokens : token[t] # None => token'[t] = token[t]
           /\ clock <= clock' /\ ended \subseteq ended'
<1> DEFINE Kept == UNCHANGED <<account, token, clock>>
<1>1. clock \in Int
  BY DEF TypeInv, Tables
<1>10. ended \subseteq ended'
  <2>1. CASE \E r \in Reqs : Handle(r) \/ Fail(r)
    BY <2>1, AnswersOK
  <2>2. CASE UNCHANGED logouts
    BY <2>2 DEF logouts
  <2> QED
    BY <2>1, <2>2 DEF Next, vars, Prune, Tick, Crash, SetActive
<1>2. CASE Kept
  BY <1>1, <1>2, <1>10 DEF Exists
<1>3. CASE \E r \in Reqs : InsertUser(r)
  BY <1>1, <1>3, <1>10 DEF InsertUser, Exists, TypeInv, Tables
<1>4. CASE \E r \in Reqs : CreateSession(r)
  BY <1>1, <1>4, <1>10 DEF Exists, CreateSession, Issued, TypeInv, Tables
<1>6. CASE Tick
  BY <1>1, <1>6, <1>10 DEF Tick, Exists
<1>7. ASSUME NEW n \in Names, SetActive(n)
      PROVE  \A m \in Names : Exists(m) =>
                account'[m] # None /\ account'[m].role = account[m].role
  <2> DEFINE a == [email |-> account[n].email, role |-> account[n].role,
                   active |-> ~account[n].active]
  <2>1. account' = [account EXCEPT ![n] = a] /\ a.role = account[n].role
    BY <1>7 DEF SetActive
  <2>2. account' \in [Names -> Account \cup {None}] /\ account'[n] = a
    BY <1>7, <2>1, ActiveTables DEF Tables, TypeInv
  <2>3. a \in Account
    BY <1>7 DEF SetActive, Exists, TypeInv, Tables, Account
  <2> HIDE DEF a
  <2> QED
    BY <2>1, <2>2, <2>3, NoneAssumption DEF Exists, TypeInv, Tables
<1>8. CASE \E n \in Names : SetActive(n)
  <2>1. PICK n \in Names : SetActive(n)
    BY <1>8
  <2>2. UNCHANGED <<token, clock>>
    BY <2>1 DEF SetActive
  <2>3. \A m \in Names : Exists(m) =>
            account'[m] # None /\ account'[m].role = account[m].role
    BY <1>7, <2>1, Zenon
  <2> QED
    BY <1>1, <1>10, <2>2, <2>3
<1>9. Kept \/ Tick \/ (\E n \in Names : SetActive(n))
      \/ \E r \in Reqs : InsertUser(r) \/ CreateSession(r)
  BY ZenonT(40) DEF Next, vars, Handle, Begin, CheckFirst, FindName, FindEmail, VerifyPassword,
         CheckActive, FindSession, CheckExpiry, LoadUser, DeleteSession, Pass, Fail, OnlyReq,
         Prune, Crash
<1> QED
  BY <1>2, <1>3, <1>4, <1>6, <1>8, <1>9

LEMMA OthersKept ==
    ASSUME TypeInv, NEW x \in Reqs, Handle(x) \/ Fail(x), NEW r \in Reqs, r # x
    PROVE  req'[r] = req[r]
<1>1. req \in [Reqs -> Requests]
  BY DEF TypeInv, RequestsWell
<1>2. \A pc : Goto(x, pc) => req'[r] = req[r]
  BY <1>1 DEF Goto
<1>3. Finish(x) => req'[r] = req[r]
  BY <1>1 DEF Finish
<1>4. CASE Begin(x)
  BY <1>1, <1>4 DEF Begin, BeginRegister, BeginLogin, BeginSigned, Enter
<1>5. CASE CheckFirst(x)
  BY <1>1, <1>5 DEF CheckFirst
<1> QED
  BY <1>2, <1>3, <1>4, <1>5
     DEF Handle, Fail, FindName, FindEmail, InsertUser, VerifyPassword, CheckActive,
         CreateSession, FindSession, CheckExpiry, LoadUser, DeleteSession, Pass

Move(r, from, to) == req[r].pc = from /\ Goto(r, to)

\* What a request does between its beginning and its end.
LEMMA Moves ==
    ASSUME NEW r \in Reqs, Handle(r) \/ Fail(r)
    PROVE  \/ Begin(r) \/ CheckFirst(r) \/ Finish(r)
           \/ /\ UNCHANGED <<account, token, rows, clock, ended>>
              /\ \/ Move(r, "name", "email") \/ Move(r, "email", "insert")
                 \/ Move(r, "password", "user") /\ Exists(req[r].name)
                 \/ Move(r, "user", "session")
                 \/ Move(r, "find", "expiry") /\ req[r].tok \in rows
                 \/ Move(r, "expiry", "owner") /\ ~is_expired(req[r].tok)
                 \/ /\ Move(r, "owner", "delete") \/ Move(r, "owner", "passed")
                    /\ account[token[req[r].tok].name].active
BY DEF Handle, Fail, FindName, FindEmail, InsertUser, VerifyPassword, CheckActive,
       CreateSession, FindSession, CheckExpiry, LoadUser, DeleteSession, Pass, OnlyReq,
       Move, At, logouts

LEMMA BeginFields ==
    ASSUME TypeInv, NEW r \in Reqs, Begin(r)
    PROVE  /\ UNCHANGED <<account, token, rows, clock, ended>>
           /\ \/ req'[r] = req[r]
              \/ /\ req'[r].pc = "first" /\ req'[r].tok = None /\ req'[r].barred = {}
                 /\ req'[r].earlier = {n \in Names : Exists(n)}
              \/ /\ req'[r].pc = "password" /\ req'[r].tok = None /\ req'[r].barred = {}
                 /\ req'[r].earlier = {}
              \/ /\ req'[r].pc = "find" /\ req'[r].tok \in Issued
                 /\ req'[r].barred = Barred(req'[r].tok) /\ req'[r].earlier = {}
<1>1. UNCHANGED <<account, token, rows, clock, ended>> /\ req \in [Reqs -> Requests]
  BY DEF Begin, TypeInv, RequestsWell, logouts
<1>2. ASSUME NEW via, NEW key, NEW request, Enter(r, via, key, request)
      PROVE  req'[r] = req[r] \/ req'[r] = request
  BY <1>1, <1>2 DEF Enter
<1>3. ASSUME NEW via, NEW name, NEW email, BeginRegister(r, via, name, email),
             req'[r] # req[r]
      PROVE  /\ req'[r].pc = "first" /\ req'[r].tok = None /\ req'[r].barred = {}
             /\ req'[r].earlier = {n \in Names : Exists(n)}
  <2>1. req'[r] = Request("register", "first", normalize_username(name),
                          normalize_email(email), None, {n \in Names : Exists(n)}, {})
    BY <1>2, <1>3 DEF BeginRegister
  <2> QED
    BY <2>1 DEF Request
<1>4. ASSUME NEW via, NEW name, BeginLogin(r, via, name), req'[r] # req[r]
      PROVE  /\ req'[r].pc = "password" /\ req'[r].tok = None /\ req'[r].barred = {}
             /\ req'[r].earlier = {}
  <2>1. req'[r] = Request("login", "password", normalize_username(name), <<>>, None, {}, {})
    BY <1>2, <1>4 DEF BeginLogin
  <2> QED
    BY <2>1 DEF Request
<1>5. ASSUME NEW op, NEW t \in Issued, BeginSigned(r, op, t)
      PROVE  /\ req'[r].pc = "find" /\ req'[r].tok \in Issued
             /\ req'[r].barred = Barred(req'[r].tok) /\ req'[r].earlier = {}
  <2>1. req'[r] = Request(op, "find", None, None, t, {}, Barred(t))
    BY <1>1, <1>5 DEF BeginSigned
  <2>2. /\ req'[r].pc = "find" /\ req'[r].tok = t /\ req'[r].barred = Barred(t)
        /\ req'[r].earlier = {}
    BY <2>1 DEF Request
  <2> QED
    BY <1>5, <2>2
<1> QED
  BY <1>1, <1>3, <1>4, <1>5 DEF Begin

LEMMA FirstFields ==
    ASSUME TypeInv, NEW r \in Reqs, CheckFirst(r)
    PROVE  /\ UNCHANGED <<account, token, rows, clock, ended>>
           /\ req[r].pc = "first" /\ req'[r].pc = "name"
           /\ req'[r].role = IF is_first_user THEN "admin" ELSE "user"
           /\ req'[r].tok = req[r].tok /\ req'[r].barred = req[r].barred
           /\ req'[r].earlier = req[r].earlier
<1> DEFINE role == IF is_first_user THEN "admin" ELSE "user"
<1>1. req' = [req EXCEPT ![r].role = role, ![r].pc = "name"] /\ req[r] \in Requests
  BY DEF CheckFirst, TypeInv, RequestsWell
<1> HIDE DEF role
<1> DEFINE q == [req[r] EXCEPT !.role = role, !.pc = "name"]
<1>2. req'[r] = q
  BY <1>1 DEF TypeInv, RequestsWell
<1>3. /\ q.pc = "name" /\ q.role = role /\ q.tok = req[r].tok
      /\ q.barred = req[r].barred /\ q.earlier = req[r].earlier
  BY <1>1 DEF Requests
<1> HIDE DEF q
<1> QED
  BY <1>2, <1>3 DEF role, CheckFirst, At, OnlyReq, logouts

\* SetActive changes no request but for what it is barred for.
LEMMA ActiveFields ==
    ASSUME TypeInv, NEW n \in Names, SetActive(n), NEW r \in Reqs
    PROVE  /\ req'[r].pc = req[r].pc /\ req'[r].tok = req[r].tok
           /\ req'[r].name = req[r].name /\ req'[r].role = req[r].role
           /\ req'[r].earlier = req[r].earlier
           /\ req'[r].barred = IF req[r].tok # None /\ token[req[r].tok].name = n
                               THEN req[r].barred \ {"inactive"} ELSE req[r].barred
<1> DEFINE b == req[r].barred \ {"inactive"}
           q == [req[r] EXCEPT !.barred = b]
<1>1. req[r] \in Requests
  BY DEF TypeInv, RequestsWell
<1>2. req'[r] = IF req[r].tok # None /\ token[req[r].tok].name = n THEN q ELSE req[r]
  BY DEF SetActive
<1> HIDE DEF b
<1>3. /\ q.pc = req[r].pc /\ q.tok = req[r].tok /\ q.name = req[r].name
      /\ q.role = req[r].role /\ q.earlier = req[r].earlier /\ q.barred = b
  BY <1>1 DEF Requests
<1> HIDE DEF q
<1> QED
  BY <1>2, <1>3 DEF b

RefersTo(q, a, k) ==
    /\ q.tok # None => k[q.tok] # None
    /\ q.pc \in {"user", "session"} => a[q.name] # None

LEMMA RefersStep ==
    ASSUME TypeInv, [Next]_vars
    PROVE  Refers'
<1>1. /\ \A n \in Names : account[n] # None => account'[n] # None
      /\ \A t \in Tokens : token[t] # None => token'[t] = token[t]
  BY Grow DEF Exists
<1>2. \A r \in Reqs : /\ req[r].tok \in Tokens \cup {None}
                      /\ req[r].pc \in {"user", "session"} => req[r].name \in Names
                      /\ RefersTo(req[r], account, token)
  BY DEF TypeInv, RequestsWell, WellFormed, Requests, Refers, RefersTo, Exists, Loging
<1>3. ASSUME NEW r \in Reqs, req'[r].tok = req[r].tok, req'[r].name = req[r].name,
             req'[r].pc = req[r].pc
      PROVE  RefersTo(req'[r], account', token')
  BY <1>1, <1>2, <1>3 DEF RefersTo
<1>4. ASSUME NEW r \in Reqs, req'[r] = Idle
      PROVE  RefersTo(req'[r], account', token')
  BY <1>4, IdleWell DEF RefersTo
<1>5. ASSUME NEW r \in Reqs, Handle(r) \/ Fail(r)
      PROVE  RefersTo(req'[r], account', token')
  <2>1. CASE Begin(r)
    BY <1>1, <1>3, <2>1, BeginFields DEF RefersTo, Issued
  <2>2. CASE CheckFirst(r)
    BY <1>1, <1>2, <2>2, FirstFields DEF RefersTo
  <2>3. CASE Finish(r)
    BY <1>4, <2>3, FinishWell DEF TypeInv
  <2>4. ASSUME NEW from, NEW to, Move(r, from, to),
               to \in {"user", "session"} => account[req[r].name] # None /\ req[r].name \in Names
        PROVE  RefersTo(req'[r], account', token')
    <3>1. req'[r].pc = to /\ req'[r].tok = req[r].tok /\ req'[r].name = req[r].name
      BY <2>4, GotoFields DEF Move, TypeInv
    <3> QED
      BY <1>1, <1>2, <2>4, <3>1 DEF RefersTo
  <2>5. CASE Move(r, "password", "user") /\ Exists(req[r].name)
    <3>1. req[r].name \in Names
      BY <2>5 DEF Move, Loging, TypeInv, RequestsWell, WellFormed
    <3> QED
      BY <2>4, <2>5, <3>1 DEF Exists
  <2>6. CASE Move(r, "user", "session")
    BY <1>2, <2>4, <2>6 DEF Move, RefersTo
  <2> QED
    BY <1>5, <2>1, <2>2, <2>3, <2>4, <2>5, <2>6, Moves
<1>6. ASSUME NEW r \in Reqs
      PROVE  RefersTo(req'[r], account', token')
  <2>1. CASE \E x \in Reqs : Handle(x) \/ Fail(x)
    BY <1>3, <1>5, <2>1, OthersKept
  <2>2. CASE UNCHANGED req
    BY <1>3, <2>2
  <2>3. CASE Crash
    BY <1>4, <2>3 DEF Crash
  <2>4. CASE \E n \in Names : SetActive(n)
    BY <1>3, <2>4, ActiveFields
  <2> QED
    BY <2>1, <2>2, <2>3, <2>4 DEF Next, vars, Prune, Tick
<1>7. ASSUME NEW t \in Tokens, token'[t] # None
      PROVE  account'[token'[t].name] # None
  <2>1. CASE token[t] # None
    <3>1. account[token[t].name] # None /\ token[t].name \in Names
      BY <2>1 DEF TypeInv, Refers, Tables, Session, Exists
    <3> QED
      BY <1>1, <2>1, <3>1
  <2>2. CASE token[t] = None
    <3>1. PICK r \in Reqs : CreateSession(r)
      <4>1. token' # token
        BY <1>7, <2>2
      <4> QED
        BY <4>1
           DEF Next, vars, Handle, Begin, CheckFirst, FindName, FindEmail, InsertUser,
               VerifyPassword, CheckActive, FindSession, CheckExpiry, LoadUser,
               DeleteSession, Pass, Fail, OnlyReq, Prune, Crash, Tick, SetActive
    <3>2. PICK s \in Tokens : token' = [token EXCEPT ![s] = [name |-> req[r].name,
                                                          exp |-> clock + Lifetime]]
      BY <3>1 DEF CreateSession
    <3>3. s = t
      BY <1>7, <2>2, <3>2 DEF TypeInv, Tables
    <3>4. token'[t].name = req[r].name
      BY <3>2, <3>3 DEF TypeInv, Tables
    <3>5. req[r].name \in Names /\ account[req[r].name] # None
      BY <1>2, <3>1 DEF CreateSession, At, RefersTo
    <3> QED
      BY <1>1, <3>4, <3>5
  <2> QED
    BY <2>1, <2>2
<1> QED
  BY <1>6, <1>7 DEF Refers, RefersTo, Exists

LEMMA WellStep ==
    ASSUME TypeInv, [Next]_vars
    PROVE  RequestsWell'
<1>1. CASE UNCHANGED vars
  BY <1>1 DEF vars, TypeInv, RequestsWell, WellFormed
<1> QED
  BY <1>1, BeginWell, MovesWell, WorldWell DEF Next

LEMMA TypeStep ==
    ASSUME TypeInv, [Next]_vars
    PROVE  TypeInv'
BY TablesStep, LimiterStep, WellStep, RefersStep DEF TypeInv

LEMMA TypeInit == Init => TypeInv
<1> SUFFICES ASSUME Init PROVE TypeInv
  OBVIOUS
<1>1. Tables
  BY Numbers DEF Init, Tables, Issued
<1>2. Limiter
  BY Numbers DEF Init, Limiter, Unlimited, NobodyLetIn
<1>3. RequestsWell
  <2>1. Idle \in Requests
    BY IdleWell DEF WellFormed
  <2> QED
    BY <2>1, IdleWell DEF Init, RequestsWell
<1>4. Refers
  BY IdleWell DEF Init, Refers
<1> QED
  BY <1>1, <1>2, <1>3, <1>4 DEF TypeInv

(***************************************************************************)
(* TypeOK: a row of sessions is that of a token some login has handed out, *)
(* and a request refers only to such a token.                              *)
(***************************************************************************)
THEOREM TypeCorrect == Spec => []TypeOK
<1>1. TypeInv => TypeOK
  <2> SUFFICES ASSUME TypeInv PROVE TypeOK
    OBVIOUS
  <2>1. ASSUME NEW r \in Reqs
        PROVE  /\ req[r].name \in Names \cup {None}
               /\ req[r].tok \in Issued \cup {None}
               /\ req[r].role \in {"admin", "user", None}
               /\ req[r].barred \subseteq {"logout", "expired", "inactive"}
    BY DEF TypeInv, RequestsWell, Requests, Refers, Issued, Reasons
  <2>2. \A n \in Names : Exists(n) => account[n] \in Account
    BY DEF TypeInv, Tables, Exists
  <2>3. \A t \in Issued : token[t] \in Session
    BY DEF TypeInv, Tables, Issued
  <2> QED
    BY <2>1, <2>2, <2>3 DEF TypeOK, TypeInv, Tables, Limiter
<1> QED
  BY <1>1, TypeInit, TypeStep, PTL DEF Spec

(***************************************************************************)
(* Barred: what a request is to be refused for remains so until it is      *)
(* refused.  A reason is on record only as long as it holds (a session     *)
(* that was logged out has no row, an expiry stays passed, a user who is   *)
(* active again bars nobody), and each of the guard's three tests, which   *)
(* are made at different times, clears a request of one of them.           *)
(***************************************************************************)
BarredHolds(q, a, k, gone, now) ==
    /\ "logout" \in q.barred => q.tok \in gone
    /\ "expired" \in q.barred => now >= k[q.tok].exp
    /\ "inactive" \in q.barred => ~a[k[q.tok].name].active
    /\ q.barred # {} => q.tok # None

BarredCleared(q) ==
    /\ q.pc \in {"expiry", "owner", "delete", "passed"} => "logout" \notin q.barred
    /\ q.pc \in {"owner", "delete", "passed"} => "expired" \notin q.barred
    /\ q.pc \in {"delete", "passed"} => "inactive" \notin q.barred

BarredInv ==
    /\ ended \cap rows = {}
    /\ \A r \in Reqs : /\ BarredHolds(req[r], account, token, ended, clock)
                       /\ BarredCleared(req[r])

LEMMA EndedStep ==
    ASSUME TypeInv, ended \cap rows = {}, [Next]_vars
    PROVE  ended' \cap rows' = {}
<1>1. ended \subseteq Issued
  BY DEF TypeInv, Tables
<1>2. CASE \E r \in Reqs : CreateSession(r)
  BY <1>1, <1>2 DEF CreateSession, logouts
<1>3. CASE \E r \in Reqs : DeleteSession(r)
  BY <1>3 DEF DeleteSession
<1>4. CASE ended' = ended /\ rows' \subseteq rows
  BY <1>4
<1>5. CASE \E r \in Reqs : FindSession(r) \/ CheckExpiry(r)
  BY <1>5 DEF FindSession, CheckExpiry, AnswerGone, Dismissed, logouts
<1>6. CASE \E r \in Reqs : LoadUser(r) \/ Fail(r)
  BY <1>4, <1>6 DEF LoadUser, Fail, AnswerLeft, logouts
<1> QED
  BY <1>2, <1>3, <1>4, <1>5, <1>6
     DEF Next, vars, Handle, Begin, CheckFirst, FindName, FindEmail, InsertUser,
         VerifyPassword, CheckActive, Pass, OnlyReq,
         Prune, delete_expired, Crash, Tick, SetActive, logouts

ActiveKept == \A n \in Names : Exists(n) => account'[n].active = account[n].active

\* Who is active changes only by the operator.
LEMMA OthersActive ==
    ASSUME TypeInv, \/ UNCHANGED account
                    \/ \E r \in Reqs : Handle(r) \/ Fail(r)
    PROVE  ActiveKept
<1>1. CASE \E r \in Reqs : InsertUser(r)
  BY <1>1 DEF ActiveKept, InsertUser, Exists, TypeInv, Tables
<1>2. CASE account' = account
  BY <1>2 DEF ActiveKept
<1> QED
  BY <1>1, <1>2
     DEF Handle, Begin, CheckFirst, FindName, FindEmail, CreateSession,
         VerifyPassword, CheckActive, FindSession, CheckExpiry, LoadUser, DeleteSession, Pass,
         Fail, OnlyReq

LEMMA HoldsKept ==
    ASSUME TypeInv, [Next]_vars, ActiveKept, NEW r \in Reqs,
           BarredHolds(req[r], account, token, ended, clock),
           req'[r].tok = req[r].tok, req'[r].barred = req[r].barred
    PROVE  BarredHolds(req'[r], account', token', ended', clock')
<1> DEFINE t == req[r].tok
<1>1. CASE req[r].barred = {}
  BY <1>1 DEF BarredHolds
<1>2. CASE req[r].barred # {}
  <2>1. t \in Tokens /\ token[t] # None /\ token[t] \in Session
    BY <1>2 DEF BarredHolds, TypeInv, RequestsWell, Requests, Refers, Tables
  <2>2. token'[t] = token[t] /\ clock <= clock' /\ ended \subseteq ended'
    BY <2>1, Grow
  <2>3. Exists(token[t].name) /\ token[t].name \in Names /\ token[t].exp \in Int
    <3>1. token[t].name \in Names /\ token[t].exp \in 0..MaxClock + Lifetime
      BY <2>1 DEF Session
    <3>2. Exists(token[t].name)
      BY <2>1 DEF TypeInv, Refers
    <3> QED
      BY <3>1, <3>2, Numbers
  <2>4. account'[token[t].name].active = account[token[t].name].active
    BY <2>3 DEF ActiveKept
  <2>5. clock \in Int /\ clock' \in Int
    BY TypeStep DEF TypeInv, Tables
  <2>6. "logout" \in req'[r].barred => req'[r].tok \in ended'
    BY <2>2 DEF BarredHolds
  <2>7. "expired" \in req'[r].barred => clock' >= token'[req'[r].tok].exp
    BY <2>2, <2>3, <2>5 DEF BarredHolds
  <2>8. "inactive" \in req'[r].barred => ~account'[token'[req'[r].tok].name].active
    BY <2>2, <2>4 DEF BarredHolds
  <2>9. req'[r].barred # {} => req'[r].tok # None
    BY DEF BarredHolds
  <2> QED
    BY <2>6, <2>7, <2>8, <2>9 DEF BarredHolds
<1> QED
  BY <1>1, <1>2

\* The step of the request itself.
LEMMA BarredOwn ==
    ASSUME TypeInv, BarredInv, Next, NEW r \in Reqs, Handle(r) \/ Fail(r)
    PROVE  /\ BarredHolds(req'[r], account', token', ended', clock')
           /\ BarredCleared(req'[r])
<1>1. /\ BarredHolds(req[r], account, token, ended, clock) /\ BarredCleared(req[r])
      /\ ActiveKept /\ RequestsWell
  BY OthersActive DEF BarredInv, TypeInv
<1>2. CASE Finish(r)
  BY <1>1, <1>2, FinishWell, IdleWell DEF BarredHolds, BarredCleared
<1>3. CASE CheckFirst(r)
  <2>1. BarredHolds(req'[r], account', token', ended', clock')
    BY <1>1, <1>3, FirstFields, HoldsKept
  <2> QED
    BY <1>3, <2>1, FirstFields DEF BarredCleared
<1>4. CASE Begin(r)
  <2>1. CASE req'[r] = req[r]
    BY <1>1, <2>1, HoldsKept
  <2>2. CASE req'[r].barred = {} /\ req'[r].pc \in {"first", "password"}
    BY <2>2 DEF BarredHolds, BarredCleared
  <2>3. CASE req'[r].pc = "find" /\ req'[r].tok \in Issued /\ req'[r].barred = Barred(req'[r].tok)
    <3>1. UNCHANGED <<account, token, ended, clock>>
      BY <1>4, BeginFields
    <3>2. req'[r].tok # None
      BY <2>3, Numbers DEF Issued
    <3> QED
      BY <2>3, <3>1, <3>2 DEF Barred, BarredHolds, BarredCleared
  <2> QED
    BY <1>4, <2>1, <2>2, <2>3, BeginFields
<1>5. ASSUME NEW from, NEW to, Move(r, from, to)
      PROVE  /\ BarredHolds(req'[r], account', token', ended', clock')
             /\ req'[r].pc = to /\ req'[r].barred = req[r].barred /\ req[r].pc = from
  <2>1. /\ req'[r].pc = to /\ req'[r].barred = req[r].barred /\ req'[r].tok = req[r].tok
        /\ req[r].pc = from
    BY <1>1, <1>5, GotoFields DEF Move
  <2> QED
    BY <1>1, <2>1, HoldsKept
<1>6. CASE \/ Move(r, "name", "email") \/ Move(r, "email", "insert")
           \/ Move(r, "password", "user") \/ Move(r, "user", "session")
  BY <1>5, <1>6 DEF BarredCleared
<1>7. CASE Move(r, "find", "expiry") /\ req[r].tok \in rows
  <2>1. "logout" \notin req[r].barred
    BY <1>1, <1>7 DEF BarredHolds, BarredInv
  <2> QED
    BY <1>5, <1>7, <2>1 DEF BarredCleared
<1>8. CASE Move(r, "expiry", "owner") /\ ~is_expired(req[r].tok)
  <2>1. "expired" \notin req[r].barred
    BY <1>1, <1>8 DEF BarredHolds, is_expired
  <2> QED
    BY <1>1, <1>5, <1>8, <2>1 DEF BarredCleared
<1>9. CASE /\ Move(r, "owner", "delete") \/ Move(r, "owner", "passed")
           /\ account[token[req[r].tok].name].active
  <2>1. "inactive" \notin req[r].barred
    BY <1>1, <1>9 DEF BarredHolds
  <2> QED
    BY <1>1, <1>5, <1>9, <2>1 DEF BarredCleared
<1> QED
  BY <1>2, <1>3, <1>4, <1>6, <1>7, <1>8, <1>9, Moves

\* The operator's step: only who has that account is concerned.
LEMMA BarredActive ==
    ASSUME TypeInv, BarredInv, Next, NEW n \in Names, SetActive(n), NEW r \in Reqs
    PROVE  /\ BarredHolds(req'[r], account', token', ended', clock')
           /\ BarredCleared(req'[r])
<1>1. BarredHolds(req[r], account, token, ended, clock) /\ BarredCleared(req[r])
  BY DEF BarredInv
<1>2. UNCHANGED <<token, ended, clock>>
  BY DEF SetActive, logouts
<1>3. /\ req'[r].pc = req[r].pc /\ req'[r].tok = req[r].tok
      /\ req'[r].barred = IF req[r].tok # None /\ token[req[r].tok].name = n
                          THEN req[r].barred \ {"inactive"} ELSE req[r].barred
  BY ActiveFields
<1>4. BarredCleared(req'[r])
  BY <1>1, <1>3 DEF BarredCleared
<1>5. CASE req[r].tok # None /\ token[req[r].tok].name = n
  BY <1>1, <1>2, <1>3, <1>4, <1>5 DEF BarredHolds
<1>6. CASE req[r].tok # None /\ token[req[r].tok].name # n
  <2>1. token[req[r].tok].name \in Names
    BY <1>6 DEF TypeInv, RequestsWell, Requests, Refers, Tables, Session
  <2>2. account'[token[req[r].tok].name] = account[token[req[r].tok].name]
    BY <1>6, <2>1 DEF SetActive, TypeInv, Tables
  <2>3. req'[r].barred = req[r].barred
    BY <1>3, <1>6
  <2> QED
    BY <1>1, <1>2, <1>3, <1>4, <2>2, <2>3 DEF BarredHolds
<1>7. CASE req[r].tok = None
  BY <1>1, <1>3, <1>4, <1>7 DEF BarredHolds
<1> QED
  BY <1>5, <1>6, <1>7

LEMMA BarredStep ==
    ASSUME TypeInv, BarredInv, [Next]_vars
    PROVE  BarredInv'
<1>1. ended' \cap rows' = {}
  BY EndedStep DEF BarredInv
<1>2. CASE UNCHANGED vars
  BY <1>2 DEF vars, logouts, BarredInv, BarredHolds, BarredCleared
<1>3. ASSUME Next, NEW r \in Reqs
      PROVE  /\ BarredHolds(req'[r], account', token', ended', clock')
             /\ BarredCleared(req'[r])
  <2>1. ASSUME req'[r] = req[r], ActiveKept
        PROVE  /\ BarredHolds(req'[r], account', token', ended', clock')
               /\ BarredCleared(req'[r])
    BY <1>3, <2>1, HoldsKept DEF BarredInv
  <2>2. ASSUME NEW x \in Reqs, Handle(x) \/ Fail(x)
        PROVE  /\ BarredHolds(req'[r], account', token', ended', clock')
               /\ BarredCleared(req'[r])
    <3>1. CASE x = r
      BY <1>3, <2>2, <3>1, BarredOwn
    <3>2. CASE x # r
      <4>1. req'[r] = req[r] /\ ActiveKept
        BY <2>2, <3>2, OthersKept, OthersActive
      <4> QED
        BY <2>1, <4>1
    <3> QED
      BY <3>1, <3>2
  <2>3. CASE Prune \/ Tick
    <3>1. req'[r] = req[r] /\ ActiveKept
      BY <2>3, OthersActive DEF Prune, Tick
    <3> QED
      BY <2>1, <3>1
  <2>4. CASE Crash
    <3>1. req'[r] = Idle
      BY <2>4 DEF Crash
    <3> QED
      BY <3>1, IdleWell DEF BarredHolds, BarredCleared
  <2> QED
    BY <1>3, <2>2, <2>3, <2>4, BarredActive DEF Next
<1> QED
  BY <1>1, <1>2, <1>3 DEF BarredInv

LEMMA BarredInit == Init => BarredInv
BY IdleWell DEF Init, BarredInv, BarredHolds, BarredCleared

(***************************************************************************)
(* BarredRefused: no guard lets a request through that began after its     *)
(* token's logout was answered, after its session expired, or while its    *)
(* user was inactive, whatever else runs at the same time: what the three  *)
(* separate statements of session_guard and auth_guard add up to.          *)
(***************************************************************************)
THEOREM BarredAreRefused == Spec => []BarredRefused
<1>1. BarredInv /\ TypeInv => BarredRefused
  <2> SUFFICES ASSUME BarredInv, TypeInv, NEW r \in Reqs, req[r].pc \in {"delete", "passed"}
               PROVE  req[r].barred = {}
    BY DEF BarredRefused
  <2>1. req[r].barred \subseteq Reasons
    BY DEF TypeInv, RequestsWell, Requests
  <2> QED
    BY <2>1 DEF BarredInv, BarredCleared, Reasons
<1> QED
  BY <1>1, TypeInit, TypeStep, BarredInit, BarredStep, PTL DEF Spec

(***************************************************************************)
(* LogoutEnds: while no statement has failed and no operator has written,  *)
(* every user is active, so no page logout is answered over a row that it  *)
(* leaves.                                                                 *)
(***************************************************************************)
SmoothInv ==
    mishaps = 0 => /\ answered = ended
                   /\ \A n \in Names : Exists(n) => account[n].active

\* What a handler does without a mishap: it adds active users only and answers
\* a logout only with the row gone.
LEMMA SmoothHandle ==
    ASSUME TypeInv, NEW r \in Reqs, Handle(r), answered = ended,
           \A n \in Names : Exists(n) => account[n].active
    PROVE  answered' = ended' /\ \A n \in Names : Exists(n)' => account'[n].active
<1>1. \A n \in Names : Exists(n)' => account'[n].active
  <2>1. CASE InsertUser(r)
    BY <2>1 DEF InsertUser, Exists, TypeInv, Tables
  <2>2. CASE account' = account
    BY <2>2 DEF Exists
  <2> QED
    BY <2>1, <2>2
       DEF Handle, Begin, CheckFirst, FindName, FindEmail, CreateSession, VerifyPassword,
           CheckActive, FindSession, CheckExpiry, LoadUser, DeleteSession, Pass, OnlyReq
<1>2. answered' = ended'
  <2>1. CASE LoadUser(r)
    <3>1. req[r].tok \in Tokens /\ token[req[r].tok] # None
      BY <2>1, Numbers
         DEF LoadUser, At, TypeInv, RequestsWell, WellFormed, Refers, Signed
    <3>2. token[req[r].tok].name \in Names /\ Exists(token[req[r].tok].name)
      BY <3>1 DEF TypeInv, Tables, Refers, Session
    <3>3. account[token[req[r].tok].name].active
      BY <3>2
    <3> QED
      BY <2>1, <3>3 DEF LoadUser, logouts
  <2>2. CASE AnswerGone(r)
    BY <2>2 DEF AnswerGone
  <2>3. CASE DeleteSession(r)
    BY <2>3 DEF DeleteSession
  <2>4. CASE UNCHANGED logouts
    BY <2>4 DEF logouts
  <2> QED
    BY <2>1, <2>2, <2>3, <2>4
       DEF Handle, Begin, CheckFirst, FindName, FindEmail, InsertUser, VerifyPassword,
           CheckActive, CreateSession, FindSession, CheckExpiry, Pass, OnlyReq
<1> QED
  BY <1>1, <1>2

LEMMA SmoothStep ==
    ASSUME TypeInv, SmoothInv, [Next]_vars
    PROVE  SmoothInv'
<1>1. mishaps \in Nat
  BY Numbers DEF TypeInv, Limiter
<1>2. ASSUME NEW r \in Reqs, Handle(r) PROVE SmoothInv'
  <2>1. mishaps' = mishaps
    BY <1>2
       DEF Handle, Begin, CheckFirst, FindName, FindEmail, InsertUser, VerifyPassword,
           CheckActive, CreateSession, FindSession, CheckExpiry, LoadUser, DeleteSession,
           Pass, OnlyReq, bounds
  <2> QED
    BY <1>2, <2>1, SmoothHandle DEF SmoothInv, Exists
<1>3. CASE mishaps' = mishaps + 1
  BY <1>1, <1>3 DEF SmoothInv
<1>4. CASE UNCHANGED <<account, mishaps, logouts>>
  BY <1>4 DEF SmoothInv, Exists, logouts
<1> QED
  BY <1>2, <1>3, <1>4
     DEF Next, vars, bounds, Prune, Tick, Crash, SetActive, Fail, Mishap

LEMMA SmoothInit == Init => SmoothInv
BY NoneAssumption DEF Init, SmoothInv, Exists

\* Every logout that was answered as done has ended its session, as long as no
\* statement failed, nothing crashed and no operator deactivated anybody.
THEOREM LogoutsEnd == Spec => []LogoutEnds
<1>1. BarredInv /\ SmoothInv => LogoutEnds
  BY DEF BarredInv, SmoothInv, LogoutEnds
<1> QED
  BY <1>1, TypeInit, TypeStep, BarredInit, BarredStep, SmoothInit, SmoothStep, PTL DEF Spec

(***************************************************************************)
(* Firsts: what a registration has found out about the first place holds   *)
(* for as long as it runs, since accounts are never taken away.            *)
(***************************************************************************)
FirstOf(q, a) ==
    /\ \A n \in q.earlier : a[n] # None
    /\ q.pc \in {"name", "email", "insert"} =>
          /\ q.role = "admin" => q.earlier = {}
          /\ q.role = "user" => \E n \in Names : a[n] # None

FirstInv == SomeAdmin /\ \A r \in Reqs : FirstOf(req[r], account)

LEMMA FirstKept ==
    ASSUME TypeInv, [Next]_vars, NEW r \in Reqs, FirstOf(req[r], account),
           req'[r].pc \in {"name", "email", "insert"} => req[r].pc \in {"name", "email", "insert"},
           req'[r].role = req[r].role, req'[r].earlier = req[r].earlier
    PROVE  FirstOf(req'[r], account')
<1>1. req[r].earlier \subseteq Names
  BY DEF TypeInv, RequestsWell, Requests
<1>2. \A n \in Names : account[n] # None => account'[n] # None
  BY Grow DEF Exists
<1>3. \A n \in req'[r].earlier : account'[n] # None
  BY <1>1, <1>2 DEF FirstOf
<1>4. (\E n \in Names : account[n] # None) => \E n \in Names : account'[n] # None
  BY <1>2
<1> QED
  BY <1>3, <1>4 DEF FirstOf

LEMMA FirstOwn ==
    ASSUME TypeInv, FirstInv, Next, NEW r \in Reqs, Handle(r) \/ Fail(r)
    PROVE  FirstOf(req'[r], account')
<1>1. FirstOf(req[r], account) /\ RequestsWell /\ req[r].earlier \subseteq Names
  BY DEF FirstInv, TypeInv, RequestsWell, Requests
<1>2. CASE Finish(r)
  BY <1>1, <1>2, FinishWell, IdleWell DEF FirstOf
<1>3. CASE CheckFirst(r)
  <2>1. /\ req'[r].role = IF is_first_user THEN "admin" ELSE "user"
        /\ req'[r].earlier = req[r].earlier /\ account' = account
    BY <1>3, FirstFields
  <2>2. is_first_user => req[r].earlier = {}
    BY <1>1 DEF is_first_user, FirstOf, Exists
  <2>3. ~is_first_user => \E n \in Names : account[n] # None
    BY DEF is_first_user, Exists
  <2> QED
    BY <1>1, <2>1, <2>2, <2>3 DEF FirstOf
<1>4. CASE Begin(r)
  <2>1. account' = account
    BY <1>4, BeginFields
  <2>2. \/ req'[r] = req[r]
        \/ /\ req'[r].pc \in {"first", "password", "find"}
           /\ req'[r].earlier = {} \/ req'[r].earlier = {n \in Names : Exists(n)}
    BY <1>4, BeginFields
  <2> QED
    BY <1>1, <2>1, <2>2 DEF FirstOf, Exists
<1>5. ASSUME NEW from, NEW to, Move(r, from, to),
             to \in {"name", "email", "insert"} => from \in {"name", "email", "insert"}
      PROVE  FirstOf(req'[r], account')
  <2>1. /\ req'[r].pc = to /\ req[r].pc = from /\ req'[r].role = req[r].role
        /\ req'[r].earlier = req[r].earlier
    BY <1>1, <1>5, GotoFields DEF Move
  <2> QED
    BY <1>1, <1>5, <2>1, FirstKept
<1> QED
  BY <1>2, <1>3, <1>4, <1>5, Moves

LEMMA SomeAdminStep ==
    ASSUME TypeInv, FirstInv, [Next]_vars
    PROVE  SomeAdmin'
<1>1. \A n \in Names : Exists(n) => account'[n] # None /\ account'[n].role = account[n].role
  BY Grow
<1>2. CASE \E n \in Names : Exists(n)
  BY <1>1, <1>2 DEF FirstInv, SomeAdmin, Exists
<1>3. CASE ~\E n \in Names : Exists(n)
  <2>1. CASE \E r \in Reqs : InsertUser(r)
    <3>1. PICK r \in Reqs : InsertUser(r)
      BY <2>1
    <3>2. /\ req[r].name \in Names /\ req[r].role \in {"admin", "user"}
          /\ req[r].pc = "insert" /\ req[r].email \in Emails
      BY <3>1 DEF TypeInv, RequestsWell, WellFormed, InsertUser, At, Registering
    <3>3. req[r].role = "admin"
      BY <1>3, <3>2 DEF FirstInv, FirstOf, Exists
    <3>4. account' = [account EXCEPT ![req[r].name] =
                        [email |-> req[r].email, role |-> req[r].role, active |-> TRUE]]
      BY <1>3, <3>1, <3>2 DEF InsertUser, Taken
    <3>5. account'[req[r].name].role = "admin" /\ account' \in [Names -> Account \cup {None}]
      BY <3>2, <3>3, <3>4, TablesStep DEF TypeInv, Tables
    <3>6. account'[req[r].name] # None
      <4> DEFINE a == [email |-> req[r].email, role |-> req[r].role, active |-> TRUE]
      <4>1. a \in Account
        BY <3>2 DEF Account
      <4>2. account' = [account EXCEPT ![req[r].name] = a]
        BY <3>4
      <4> HIDE DEF a
      <4> QED
        BY <3>2, <4>1, <4>2, NoneAssumption DEF TypeInv, Tables
    <3> QED
      BY <3>2, <3>5, <3>6 DEF SomeAdmin, Exists
  <2>2. CASE account' = account
    BY <1>3, <2>2 DEF SomeAdmin, Exists
  <2> QED
    BY <1>3, <2>1, <2>2
       DEF Next, vars, Handle, Begin, CheckFirst, FindName, FindEmail, CreateSession,
           VerifyPassword, CheckActive, FindSession, CheckExpiry, LoadUser, DeleteSession,
           Pass, Fail, OnlyReq, Prune, Crash, Tick, SetActive
<1> QED
  BY <1>2, <1>3

LEMMA FirstStep ==
    ASSUME TypeInv, FirstInv, [Next]_vars
    PROVE  FirstInv'
<1>1. SomeAdmin'
  BY SomeAdminStep
<1>2. \A r \in Reqs : FirstOf(req[r], account)
  BY DEF FirstInv
<1>3. ASSUME NEW r \in Reqs
      PROVE  FirstOf(req'[r], account')
  <2>1. CASE \E x \in Reqs : Handle(x) \/ Fail(x)
    <3>1. PICK x \in Reqs : Handle(x) \/ Fail(x)
      BY <2>1
    <3>2. CASE x = r
      <4>1. CASE Next
        BY <3>1, <3>2, <4>1, FirstOwn
      <4>2. CASE UNCHANGED vars
        BY <1>2, <4>2 DEF vars
      <4> QED
        BY <4>1, <4>2
    <3>3. CASE x # r
      BY <1>2, <3>1, <3>3, OthersKept, FirstKept
    <3> QED
      BY <3>2, <3>3
  <2>2. CASE UNCHANGED req
    BY <1>2, <2>2, FirstKept
  <2>3. CASE Crash
    <3>1. req'[r] = Idle
      BY <2>3 DEF Crash
    <3> QED
      BY <3>1, IdleWell DEF FirstOf
  <2>4. CASE \E n \in Names : SetActive(n)
    BY <1>2, <2>4, ActiveFields, FirstKept
  <2> QED
    BY <2>1, <2>2, <2>3, <2>4 DEF Next, vars, Prune, Tick
<1> QED
  BY <1>1, <1>3 DEF FirstInv

LEMMA FirstInit == Init => FirstInv
BY IdleWell DEF Init, FirstInv, SomeAdmin, Exists, FirstOf

(***************************************************************************)
(* SomeAdmin: is_first_user and User::create are separate statements, and  *)
(* yet the first account that is inserted is always an administrator's.    *)
(***************************************************************************)
THEOREM AdminThere == Spec => []SomeAdmin
<1>1. FirstInv => SomeAdmin
  BY DEF FirstInv
<1> QED
  BY <1>1, TypeInit, TypeStep, FirstInit, FirstStep, PTL DEF Spec

(***************************************************************************)
(* AdminsRaced: an administrator is made only by a registration that began *)
(* before there was any account.                                           *)
(***************************************************************************)
THEOREM OnlyRacersAdmins == Spec => AdminsRaced
<1>1. TypeInv /\ FirstInv /\ [Next]_vars =>
        [\A n \in Names :
          ~Exists(n) /\ account'[n] # None /\ account'[n].role = "admin" =>
              \E r \in Reqs : req[r].op = "register" /\ req[r].name = n
                               /\ At(r, "insert") /\ req[r].earlier = {}]_vars
  <2> SUFFICES ASSUME TypeInv, FirstInv, Next, NEW n \in Names, ~Exists(n),
                      account'[n] # None, account'[n].role = "admin"
               PROVE  \E r \in Reqs : req[r].op = "register" /\ req[r].name = n
                                       /\ At(r, "insert") /\ req[r].earlier = {}
    BY DEF vars, Exists
  <2>1. PICK r \in Reqs : InsertUser(r)
    <3>1. account' # account
      BY DEF Exists
    <3>2. ~\E m \in Names : SetActive(m)
      <4> SUFFICES ASSUME NEW m \in Names, SetActive(m) PROVE FALSE
        OBVIOUS
      <4>1. m # n
        BY DEF SetActive
      <4>2. account'[n] = account[n]
        BY <4>1 DEF SetActive, TypeInv, Tables
      <4> QED
        BY <4>2 DEF Exists
    <3> QED
      BY <3>1, <3>2
         DEF Next, Handle, Begin, CheckFirst, FindName, FindEmail, CreateSession,
             VerifyPassword, CheckActive, FindSession, CheckExpiry, LoadUser,
             DeleteSession, Pass, Fail, OnlyReq, Prune, Crash, Tick
  <2>2. /\ req[r].op = "register" /\ req[r].name \in Names /\ req[r].pc = "insert"
    BY <2>1 DEF TypeInv, RequestsWell, WellFormed, InsertUser, At, Registering
  <2>3. account' = [account EXCEPT ![req[r].name] =
                      [email |-> req[r].email, role |-> req[r].role, active |-> TRUE]]
    BY <2>1 DEF InsertUser, Exists
  <2>4. req[r].name = n
    BY <2>2, <2>3 DEF TypeInv, Tables, Exists
  <2>5. req[r].role = "admin"
    BY <2>2, <2>3, <2>4 DEF TypeInv, Tables
  <2>6. req[r].earlier = {}
    BY <2>2, <2>5 DEF FirstInv, FirstOf
  <2> QED
    BY <2>2, <2>4, <2>6 DEF At
<1> QED
  BY <1>1, TypeInit, TypeStep, FirstInit, FirstStep, PTL DEF Spec, AdminsRaced

(***************************************************************************)
(* RowsEndLawfully: a row of sessions is deleted by the logout that names  *)
(* it or when it has expired, by Session::validate or by the worker.       *)
(***************************************************************************)
THEOREM RowsEnd == Spec => RowsEndLawfully
<1>1. TypeInv /\ [Next]_vars =>
        [\A t \in rows \ rows' :
          \/ clock >= token[t].exp
          \/ \E r \in Reqs : req[r].op \in Leaving /\ req[r].tok = t /\ At(r, "delete")]_vars
  <2> SUFFICES ASSUME TypeInv, Next, NEW t \in rows, t \notin rows'
               PROVE  \/ clock >= token[t].exp
                      \/ \E r \in Reqs : req[r].op \in Leaving /\ req[r].tok = t
                                         /\ At(r, "delete")
    BY DEF vars
  <2>1. CASE \E r \in Reqs : DeleteSession(r)
    <3>1. PICK r \in Reqs : DeleteSession(r)
      BY <2>1
    <3>2. req[r].pc = "delete" /\ req[r].op \in Leaving
      BY <3>1 DEF DeleteSession, At, TypeInv, RequestsWell, WellFormed
    <3> QED
      BY <3>1, <3>2 DEF DeleteSession, At
  <2>2. CASE \E r \in Reqs : CheckExpiry(r)
    BY <2>2 DEF CheckExpiry, is_expired
  <2>3. CASE Prune
    <3>1. token[t] \in Session /\ clock \in Int
      BY DEF TypeInv, Tables, Issued
    <3>2. token[t].exp \in 0..MaxClock + Lifetime
      BY <3>1 DEF Session
    <3>3. ~(token[t].exp > clock)
      BY <2>3 DEF Prune, delete_expired
    <3> QED
      BY <3>1, <3>2, <3>3, Numbers
  <2>4. CASE rows \subseteq rows'
    BY <2>4
  <2> QED
    BY <2>1, <2>2, <2>3, <2>4
       DEF Next, Handle, Begin, CheckFirst, FindName, FindEmail, InsertUser, CreateSession,
           VerifyPassword, CheckActive, FindSession, LoadUser, Pass, Fail, OnlyReq, Crash,
           Tick, SetActive
<1> QED
  BY <1>1, TypeInit, TypeStep, PTL DEF Spec, RowsEndLawfully

(***************************************************************************)
(* RateBound and DeniedForCause.  The limiter keeps a count and the start  *)
(* of the window; the windows before are forgotten.  What they leave       *)
(* behind is LogHolds: the attempts counted are the last of the log, the   *)
(* first of them opened the window, and whatever is as many places before  *)
(* it as an earlier window can have held lies more than a window before.   *)
(***************************************************************************)
LogHolds(log, entry, max, now) ==
    /\ log \in Seq(Nat)
    /\ \A i, j \in 1..Len(log) : i <= j => log[i] <= log[j]
    /\ \A i \in 1..Len(log) : log[i] <= now
    /\ \A i \in 1..Len(log) :
          i + 2 * max - 1 <= Len(log) => log[i] + Window < log[i + 2 * max - 1]
    /\ entry = None => Len(log) = 0
    /\ entry # None =>
          /\ entry.count \in 1..max /\ entry.count <= Len(log)
          /\ entry.start = log[Len(log) - entry.count + 1]
          /\ \A i \in 1..Len(log) :
                i + entry.count + max <= Len(log) + 1 => log[i] + Window < entry.start

\* A denial has as many attempts as the limit within the window before it.
DenialHolds(log, max, when) ==
    when # None =>
        \E i \in 1..Len(log) : /\ i + max - 1 <= Len(log)
                                /\ when - Window <= log[i]
                                /\ log[i + max - 1] <= when

KeyHolds(key) ==
    /\ LogHolds(let_in[key], attempts[key], max_attempts[key], clock)
    /\ DenialHolds(let_in[key], max_attempts[key], denied[key])

RateInv == \A key \in Keys : KeyHolds(key)

LEMMA EmptyHolds ==
    ASSUME NEW max \in Nat, NEW now \in Nat
    PROVE  LogHolds(<<>>, None, max, now) /\ DenialHolds(<<>>, max, None)
BY DEF LogHolds, DenialHolds

LEMMA LaterHolds ==
    ASSUME NEW log, NEW entry, NEW max \in Nat, NEW now \in Nat, NEW later \in Nat,
           now <= later, LogHolds(log, entry, max, now)
    PROVE  LogHolds(log, entry, max, later)
BY DEF LogHolds

\* What the log holds with one more attempt, and nothing else is used of it.
LEMMA Longer ==
    ASSUME NEW log \in Seq(Nat), NEW now \in Nat
    PROVE  /\ Append(log, now) \in Seq(Nat)
           /\ Len(log) \in Nat /\ Len(Append(log, now)) = Len(log) + 1
           /\ \A i \in 1..Len(log) : Append(log, now)[i] = log[i] /\ log[i] \in Nat
           /\ Append(log, now)[Len(log) + 1] = now
BY AppendProperties

\* An attempt let in by the window that is open.
LEMMA SameWindow ==
    ASSUME NEW log \in Seq(Nat), NEW entry \in [count : Nat, start : Nat],
           NEW max \in Nat, NEW now \in Nat,
           LogHolds(log, entry, max, now), entry # None, entry.count < max
    PROVE  LogHolds(Append(log, now), [count |-> entry.count + 1, start |-> entry.start],
                    max, now)
<1> DEFINE more == Append(log, now)
           n == Len(log)
           next == [count |-> entry.count + 1, start |-> entry.start]
           c == entry.count
<1>1. /\ more \in Seq(Nat) /\ n \in Nat /\ Len(more) = n + 1
      /\ \A i \in 1..n : more[i] = log[i] /\ log[i] \in Nat
      /\ more[n + 1] = now
  BY Longer
<1>2. next # None /\ next.count = c + 1 /\ next.start = entry.start /\ Window \in Nat
      /\ c \in Nat /\ entry.start \in Nat
  BY NoneAssumption, Numbers
<1>3. /\ \A i, j \in 1..n : i <= j => log[i] <= log[j]
      /\ \A i \in 1..n : log[i] <= now
      /\ \A i \in 1..n : i + 2 * max - 1 <= n => log[i] + Window < log[i + 2 * max - 1]
      /\ c \in 1..max /\ c <= n
      /\ entry.start = log[n - c + 1]
      /\ \A i \in 1..n : i + c + max <= n + 1 => log[i] + Window < entry.start
  BY DEF LogHolds
<1> HIDE DEF more, n, next, c
<1>4. entry.start <= now
  BY <1>1, <1>2, <1>3
<1>5. ASSUME NEW i \in 1..n + 1, i + 2 * max - 1 <= n + 1
      PROVE  more[i] + Window < more[i + 2 * max - 1]
  <2> DEFINE far == i + 2 * max - 1
  <2>4. far \in Nat /\ far <= n + 1 /\ far > i
    BY <1>1, <1>2, <1>3, <1>5
  <2> HIDE DEF far
  <2>1. i \in 1..n
    BY <1>1, <2>4
  <2>2. ASSUME far <= n PROVE more[i] + Window < more[far]
    <3>1. far \in 1..n
      BY <1>1, <2>2, <2>4
    <3>2. log[i] + Window < log[far]
      BY <1>3, <2>1, <2>2 DEF far
    <3> QED
      BY <1>1, <2>1, <3>1, <3>2
  <2>3. ASSUME far = n + 1 PROVE more[i] + Window < more[far]
    <3>1. i + c + max <= n + 1
      <4>1. i + 2 * max = n + 2 /\ c < max
        BY <1>1, <1>3, <2>3 DEF far, c
      <4> QED
        BY <1>1, <1>2, <4>1
    <3>2. log[i] + Window < entry.start
      BY <1>3, <2>1, <3>1
    <3>3. more[far] = now /\ more[i] = log[i] /\ log[i] \in Nat
      BY <1>1, <2>1, <2>3
    <3> QED
      BY <1>2, <1>4, <3>2, <3>3
  <2>5. more[i] + Window < more[far]
    BY <1>1, <2>2, <2>3, <2>4
  <2> QED
    BY <2>5 DEF far
<1>7. ASSUME NEW i \in 1..n + 1 PROVE more[i] <= now /\ more[i] \in Nat
  <2>1. CASE i \in 1..n
    BY <1>1, <1>3, <2>1
  <2>2. CASE i = n + 1
    BY <1>1, <2>2
  <2> QED
    BY <1>1, <2>1, <2>2
<1>6. ASSUME NEW i \in 1..n + 1, NEW j \in 1..n + 1, i <= j
      PROVE  more[i] <= more[j]
  <2>1. CASE j \in 1..n
    <3>1. i \in 1..n
      BY <1>1, <1>6, <2>1
    <3>2. log[i] <= log[j]
      BY <1>3, <1>6, <2>1, <3>1
    <3> QED
      BY <1>1, <2>1, <3>1, <3>2
  <2>2. CASE j = n + 1
    BY <1>1, <1>7, <2>2
  <2> QED
    BY <1>1, <2>1, <2>2
<1>8. next.count \in 1..max /\ next.count <= n + 1
  BY <1>1, <1>2, <1>3, SMTT(30) DEF c
<1>9. next.start = more[(n + 1) - next.count + 1]
  BY <1>1, <1>2, <1>3
<1>10. ASSUME NEW i \in 1..n + 1, i + next.count + max <= (n + 1) + 1
       PROVE  more[i] + Window < next.start
  <2>1. i \in 1..n /\ i + c + max <= n + 1
    BY <1>1, <1>2, <1>3, <1>10
  <2> QED
    BY <1>1, <1>2, <1>3, <2>1
<1> QED
  BY <1>1, <1>2, <1>5, <1>6, <1>7, <1>8, <1>9, <1>10 DEF LogHolds, more, n, next

\* An attempt that opens a window: the first, or one more than a window after
\* the start of the last.
LEMMA NewWindow ==
    ASSUME NEW log \in Seq(Nat), NEW entry, NEW max \in Nat \ {0}, NEW now \in Nat,
           LogHolds(log, entry, max, now),
           entry = None \/ (entry \in [count : Nat, start : Nat] /\ now - entry.start > Window)
    PROVE  LogHolds(Append(log, now), [count |-> 1, start |-> now], max, now)
<1> DEFINE more == Append(log, now)
           n == Len(log)
           next == [count |-> 1, start |-> now]
<1>1. /\ more \in Seq(Nat) /\ n \in Nat /\ Len(more) = n + 1
      /\ \A i \in 1..n : more[i] = log[i] /\ log[i] \in Nat
      /\ more[n + 1] = now
  BY Longer
<1>2. next # None /\ next.count = 1 /\ next.start = now /\ Window \in Nat
  BY NoneAssumption, Numbers
<1>3. /\ \A i, j \in 1..n : i <= j => log[i] <= log[j]
      /\ \A i \in 1..n : log[i] <= now
      /\ \A i \in 1..n : i + 2 * max - 1 <= n => log[i] + Window < log[i + 2 * max - 1]
  BY DEF LogHolds
<1>4. ASSUME NEW i \in 1..n, i + max <= n + 1
      PROVE  log[i] + Window < now
  <2>1. entry # None
    BY <1>1, <1>4 DEF LogHolds
  <2>2. /\ entry.start \in Nat /\ now - entry.start > Window
        /\ entry.count \in 1..max /\ entry.count <= n
        /\ entry.start = log[n - entry.count + 1]
    BY <2>1 DEF LogHolds
  <2>3. n - entry.count + 1 \in 1..n /\ i <= n - entry.count + 1
    <3> DEFINE c == entry.count
    <3>1. c \in Nat /\ c >= 1 /\ c <= max /\ c <= n
      BY <2>2
    <3> HIDE DEF c, n
    <3>2. n - c + 1 \in 1..n /\ i <= n - c + 1
      BY <1>1, <1>4, <3>1
    <3> QED
      BY <3>2 DEF c
  <2>4. log[i] <= entry.start
    BY <1>3, <2>2, <2>3
  <2> QED
    BY <1>1, <1>2, <2>2, <2>4, SMTT(30)
<1> HIDE DEF more, n, next
<1>5. ASSUME NEW i \in 1..n + 1, i + 2 * max - 1 <= n + 1
      PROVE  more[i] + Window < more[i + 2 * max - 1]
  <2> DEFINE far == i + 2 * max - 1
  <2>4. far \in Nat /\ far <= n + 1 /\ far > i
    BY <1>1, <1>5
  <2> HIDE DEF far
  <2>1. i \in 1..n
    BY <1>1, <2>4
  <2>2. ASSUME far <= n PROVE more[i] + Window < more[far]
    <3>1. far \in 1..n
      BY <1>1, <2>2, <2>4
    <3>2. log[i] + Window < log[far]
      BY <1>3, <2>1, <2>2 DEF far
    <3> QED
      BY <1>1, <2>1, <3>1, <3>2
  <2>3. ASSUME far = n + 1 PROVE more[i] + Window < more[far]
    <3>1. i + max <= n + 1
      BY <1>1, <2>3 DEF far
    <3>2. log[i] + Window < now
      BY <1>4, <2>1, <3>1
    <3> QED
      BY <1>1, <2>1, <2>3, <3>2
  <2>5. more[i] + Window < more[far]
    BY <1>1, <2>2, <2>3, <2>4
  <2> QED
    BY <2>5 DEF far
<1>7. ASSUME NEW i \in 1..n + 1 PROVE more[i] <= now /\ more[i] \in Nat
  <2>1. CASE i \in 1..n
    BY <1>1, <1>3, <2>1
  <2>2. CASE i = n + 1
    BY <1>1, <2>2
  <2> QED
    BY <1>1, <2>1, <2>2
<1>6. ASSUME NEW i \in 1..n + 1, NEW j \in 1..n + 1, i <= j
      PROVE  more[i] <= more[j]
  <2>1. CASE j \in 1..n
    <3>1. i \in 1..n
      BY <1>1, <1>6, <2>1
    <3>2. log[i] <= log[j]
      BY <1>3, <1>6, <2>1, <3>1
    <3> QED
      BY <1>1, <2>1, <3>1, <3>2
  <2>2. CASE j = n + 1
    BY <1>1, <1>7, <2>2
  <2> QED
    BY <1>1, <2>1, <2>2
<1>8. next.count \in 1..max /\ next.count <= n + 1
  BY <1>1, <1>2
<1>9. next.start = more[(n + 1) - next.count + 1]
  BY <1>1, <1>2
<1>10. ASSUME NEW i \in 1..n + 1, i + next.count + max <= (n + 1) + 1
       PROVE  more[i] + Window < next.start
  <2>1. i \in 1..n /\ i + max <= n + 1
    BY <1>1, <1>2, <1>10
  <2> QED
    BY <1>1, <1>2, <1>4, <2>1
<1> QED
  BY <1>1, <1>2, <1>5, <1>6, <1>7, <1>8, <1>9, <1>10 DEF LogHolds, more, n, next

LEMMA MoreDenials ==
    ASSUME NEW log \in Seq(Nat), NEW now \in Nat, NEW max \in Nat \ {0},
           NEW when, DenialHolds(log, max, when)
    PROVE  DenialHolds(Append(log, now), max, when)
<1> SUFFICES ASSUME when # None
             PROVE  DenialHolds(Append(log, now), max, when)
  BY DEF DenialHolds
<1> DEFINE more == Append(log, now)
           n == Len(log)
<1>1. /\ n \in Nat /\ Len(more) = n + 1
      /\ \A i \in 1..n : more[i] = log[i]
  BY Longer
<1>2. PICK i \in 1..n : /\ i + max - 1 <= n
                        /\ when - Window <= log[i]
                        /\ log[i + max - 1] <= when
  BY DEF DenialHolds
<1> HIDE DEF more, n
<1>3. i \in 1..n + 1 /\ i + max - 1 \in 1..n /\ i + max - 1 <= n + 1
  BY <1>1, <1>2
<1>4. when - Window <= more[i] /\ more[i + max - 1] <= when
  BY <1>1, <1>2, <1>3
<1> QED
  BY <1>1, <1>3, <1>4 DEF DenialHolds, more

\* Whoever is denied finds as many attempts in the open window as the limit.
LEMMA DeniedHolds ==
    ASSUME NEW log \in Seq(Nat), NEW entry \in [count : Nat, start : Nat],
           NEW max \in Nat \ {0}, NEW now \in Nat, entry # None,
           LogHolds(log, entry, max, now), ~(now - entry.start > Window),
           ~(entry.count < max)
    PROVE  DenialHolds(log, max, now)
<1> DEFINE n == Len(log)
           i == n - entry.count + 1
<1>1. /\ n \in Nat /\ entry.count = max /\ max <= n
      /\ entry.start = log[i] /\ entry.start \in Nat
      /\ \A k \in 1..n : log[k] <= now
  BY DEF LogHolds
<1>2. i = n - max + 1
  BY <1>1
<1> HIDE DEF n, i
<1>3. i \in 1..n /\ i + max - 1 = n /\ n \in 1..n
  BY <1>1, <1>2
<1>4. now - Window <= log[i] /\ log[n] <= now
  BY <1>1, <1>3, Numbers
<1>5. /\ i \in 1..n /\ i + max - 1 <= n
      /\ now - Window <= log[i] /\ log[i + max - 1] <= now
  BY <1>3, <1>4
<1> QED
  BY <1>5, Zenon DEF DenialHolds, n

LEMMA Limits == \A key \in Keys : max_attempts[key] \in Nat \ {0}
BY Numbers DEF Keys, max_attempts

LEMMA LimiterTypes ==
    ASSUME TypeInv, NEW key \in Keys
    PROVE  /\ let_in[key] \in Seq(Nat) /\ clock \in Nat
           /\ attempts[key] # None =>
                 attempts[key] \in [count : Nat, start : Nat]
<1>1. let_in[key] \in Seq(0..MaxClock) /\ clock \in 0..MaxClock
  BY DEF TypeInv, Limiter, Tables
<1>2. let_in[key] \in Seq(Nat)
  BY <1>1, Numbers, SeqDef
<1> QED
  BY <1>1, <1>2, Numbers DEF TypeInv, Limiter

\* One attempt, whatever becomes of it.
LEMMA CheckRate ==
    ASSUME TypeInv, NEW key \in Keys, KeyHolds(key), check(key), UNCHANGED clock
    PROVE  KeyHolds(key)'
<1> DEFINE log == let_in[key]
           max == max_attempts[key]
<1>1. log \in Seq(Nat) /\ clock \in Nat /\ max \in Nat \ {0}
  BY LimiterTypes, Limits
<1>2. /\ attempts'[key] = Entry(key)
      /\ IF Admits(key) THEN let_in'[key] = Append(log, clock) /\ denied'[key] = denied[key]
         ELSE denied'[key] = clock /\ let_in'[key] = log
  BY DEF check, TypeInv, Limiter
<1>3. LogHolds(log, attempts[key], max, clock) /\ DenialHolds(log, max, denied[key])
  BY DEF KeyHolds
<1>4. CASE attempts[key] = None \/ Elapsed(key)
  <2>1. Admits(key) /\ Entry(key) = [count |-> 1, start |-> clock]
    BY <1>4 DEF Admits, Entry
  <2>2. attempts[key] = None \/ (/\ attempts[key] \in [count : Nat, start : Nat]
                                 /\ clock - attempts[key].start > Window)
    BY <1>4, LimiterTypes DEF Elapsed
  <2>3. LogHolds(Append(log, clock), [count |-> 1, start |-> clock], max, clock)
    BY <1>1, <1>3, <2>2, NewWindow
  <2>4. DenialHolds(Append(log, clock), max, denied[key])
    BY <1>1, <1>3, MoreDenials
  <2> QED
    BY <1>2, <2>1, <2>3, <2>4 DEF KeyHolds
<1>5. CASE ~(attempts[key] = None \/ Elapsed(key))
  <2>1. attempts[key] # None /\ attempts[key] \in [count : Nat, start : Nat]
        /\ ~(clock - attempts[key].start > Window)
    BY <1>5, LimiterTypes DEF Elapsed
  <2>2. CASE attempts[key].count < max
    <3>1. Admits(key)
      BY <2>2 DEF Admits
    <3>2. Entry(key) = [count |-> attempts[key].count + 1, start |-> attempts[key].start]
      BY <1>5, <3>1 DEF Entry
    <3>3. LogHolds(Append(log, clock), Entry(key), max, clock)
      BY <1>1, <1>3, <2>1, <2>2, <3>2, SameWindow
    <3>4. DenialHolds(Append(log, clock), max, denied[key])
      BY <1>1, <1>3, MoreDenials
    <3> QED
      BY <1>2, <3>1, <3>3, <3>4 DEF KeyHolds
  <2>3. CASE ~(attempts[key].count < max)
    <3>1. ~Admits(key) /\ Entry(key) = attempts[key]
      BY <1>5, <2>3 DEF Admits, Entry
    <3>2. DenialHolds(log, max, clock)
      BY <1>1, <1>3, <2>1, <2>3, DeniedHolds
    <3> QED
      BY <1>2, <1>3, <3>1, <3>2 DEF KeyHolds
  <2> QED
    BY <2>2, <2>3
<1> QED
  BY <1>4, <1>5

LEMMA KeyKept ==
    ASSUME TypeInv, TypeInv', NEW key \in Keys, KeyHolds(key), clock <= clock',
           let_in'[key] = let_in[key], attempts'[key] = attempts[key],
           denied'[key] = denied[key]
    PROVE  KeyHolds(key)'
<1>1. clock \in Nat /\ clock' \in Nat /\ max_attempts[key] \in Nat
  BY Limits, Numbers DEF TypeInv, Tables
<1>2. LogHolds(let_in[key], attempts[key], max_attempts[key], clock')
  BY <1>1, LaterHolds DEF KeyHolds
<1> QED
  BY <1>2 DEF KeyHolds

LEMMA RateStep ==
    ASSUME TypeInv, TypeInv', RateInv, [Next]_vars
    PROVE  RateInv'
<1> SUFFICES ASSUME NEW key \in Keys PROVE KeyHolds(key)'
  BY DEF RateInv
<1>1. KeyHolds(key) /\ clock \in Nat
  BY Numbers DEF RateInv, TypeInv, Tables
<1>2. CASE UNCHANGED <<attempts, let_in, denied>> /\ clock <= clock'
  BY <1>1, <1>2, KeyKept
<1>3. ASSUME NEW r \in Reqs, Begin(r) PROVE KeyHolds(key)'
  <2>1. UNCHANGED clock
    BY <1>3 DEF Begin
  <2>2. \/ UNCHANGED <<attempts, denied, let_in>>
        \/ \E k \in Keys : check(k)
    BY <1>3 DEF Begin, BeginRegister, BeginLogin, BeginSigned, Enter, Keys
  <2>3. ASSUME NEW k \in Keys, check(k) PROVE KeyHolds(key)'
    <3>1. CASE k = key
      BY <1>1, <2>1, <2>3, <3>1, CheckRate
    <3>2. CASE k # key
      <4>1. /\ let_in'[key] = let_in[key] /\ attempts'[key] = attempts[key]
            /\ denied'[key] = denied[key]
        BY <2>3, <3>2 DEF check, TypeInv, Limiter
      <4> QED
        BY <1>1, <2>1, <4>1, KeyKept
    <3> QED
      BY <3>1, <3>2
  <2> QED
    BY <1>1, <1>2, <2>1, <2>2, <2>3
<1>4. ASSUME NEW r \in Reqs, Handle(r), ~Begin(r) PROVE KeyHolds(key)'
  <2>1. UNCHANGED <<attempts, denied, let_in, clock>>
    BY <1>4
       DEF Handle, CheckFirst, FindName, FindEmail, InsertUser, VerifyPassword, CheckActive,
           CreateSession, FindSession, CheckExpiry, LoadUser, DeleteSession, Pass, OnlyReq
  <2> QED
    BY <1>1, <1>2, <2>1
<1>5. CASE Prune \/ Tick \/ (\E n \in Names : SetActive(n)) \/ \E r \in Reqs : Fail(r)
  <2>1. UNCHANGED <<attempts, denied, let_in>> /\ clock' \in {clock, clock + 1}
    BY <1>5 DEF Prune, Tick, SetActive, Fail
  <2> QED
    BY <1>1, <1>2, <2>1
<1>6. CASE Crash
  <2>1. /\ let_in'[key] = <<>> /\ attempts'[key] = None /\ denied'[key] = None
        /\ clock' \in Nat
    BY <1>1, <1>6 DEF Crash, Unlimited, NobodyLetIn
  <2>2. max_attempts[key] \in Nat
    BY Limits
  <2> QED
    BY <2>1, <2>2, EmptyHolds DEF KeyHolds
<1>7. CASE UNCHANGED vars
  BY <1>1, <1>2, <1>7 DEF vars
<1> QED
  BY <1>3, <1>4, <1>5, <1>6, <1>7 DEF Next

LEMMA RateInit == Init => RateInv
<1> SUFFICES ASSUME Init, NEW key \in Keys PROVE KeyHolds(key)
  BY DEF RateInv
<1>1. let_in[key] = <<>> /\ attempts[key] = None /\ denied[key] = None /\ clock = 0
  BY DEF Init, Unlimited, NobodyLetIn
<1> QED
  BY <1>1, Limits, EmptyHolds DEF KeyHolds

\* A set of naturals has a least element.
LEMMA LeastElement ==
    ASSUME NEW S, S \subseteq Nat, S # {}
    PROVE  \E n \in S : \A k \in S : n <= k
<1> DEFINE R == OpToRel(<, Nat)
<1>1. IsWellFoundedOn(R, Nat)
  BY NatLessThanWellFounded, Zenon
<1>2. \A x \in Nat, y \in Nat : x < y => <<x, y>> \in R
  BY DEF OpToRel
<1> HIDE DEF R
<1>3. PICK n \in S : \A k \in S : ~(<<k, n>> \in R)
  BY <1>1, WFMin
<1>4. \A k \in S : k \in Nat /\ n \in Nat /\ ~(k < n)
  BY <1>2, <1>3
<1> QED
  BY <1>4

\* A set of numbers that lie less than n apart has at most n elements.
LEMMA NarrowSet ==
    ASSUME NEW S, S \subseteq Nat, NEW n \in Nat \ {0},
           \A i, j \in S : j < i + n
    PROVE  IsFiniteSet(S) /\ Cardinality(S) <= n
<1>1. CASE S = {}
  BY <1>1, FS_EmptySet
<1>2. CASE S # {}
  <2>1. PICK m \in S : \A k \in S : m <= k
    BY <1>2, LeastElement
  <2>2. m \in Nat /\ S \subseteq m..m + n - 1
    BY <2>1
  <2>3. IsFiniteSet(m..m + n - 1) /\ Cardinality(m..m + n - 1) = n
    BY <2>2, FS_Interval
  <2> QED
    BY <2>2, <2>3, FS_Subset
<1> QED
  BY <1>1, <1>2

\* Two attempts let in within a window lie less than two limits apart.
LEMMA Apart ==
    ASSUME NEW log \in Seq(Nat), NEW entry, NEW max \in Nat \ {0}, NEW now,
           LogHolds(log, entry, max, now), NEW k \in Nat,
           NEW i \in 1..Len(log), NEW j \in 1..Len(log),
           k <= log[i], log[j] <= k + Window
    PROVE  j < i + (2 * max - 1)
<1> DEFINE far == i + 2 * max - 1
           n == Len(log)
<1>1. n \in Nat /\ Window \in Nat /\ far \in Nat /\ i \in 1..n /\ j \in 1..n
  BY Numbers
<1> SUFFICES ASSUME far <= j PROVE FALSE
  BY <1>1
<1> HIDE DEF n
<1>2. far \in 1..n
  BY <1>1
<1>3. log[i] + Window < log[far]
  BY <1>1, <1>2 DEF LogHolds, n
<1> HIDE DEF far
<1>4. log[far] <= log[j]
  BY <1>1, <1>2 DEF LogHolds, n
<1>5. log[i] \in Nat /\ log[j] \in Nat /\ log[far] \in Nat
  BY <1>1, <1>2, SMTT(30) DEF n
<1>6. k <= log[i] /\ log[j] <= k + Window
  OBVIOUS
<1> DEFINE a == log[i]
           b == log[far]
           c == log[j]
<1> HIDE DEF a, b, c
<1>7. /\ a \in Nat /\ b \in Nat /\ c \in Nat
      /\ a + Window < b /\ b <= c /\ k <= a /\ c <= k + Window
  BY <1>3, <1>4, <1>5, <1>6 DEF a, b, c
<1> QED
  BY <1>1, <1>7

(***************************************************************************)
(* RateBound: no span as long as a window sees twice the limit, although   *)
(* the limiter remembers one window and two of them may meet in the span.  *)
(***************************************************************************)
THEOREM RateIsBounded == Spec => []RateBound
<1>1. TypeInv /\ RateInv => RateBound
  <2> SUFFICES ASSUME TypeInv, RateInv, NEW key \in Keys, NEW k \in 0..MaxClock
               PROVE  Cardinality(LetIn(key, k, k + Window)) < 2 * max_attempts[key]
    BY DEF RateBound
  <2> DEFINE log == let_in[key]
             max == max_attempts[key]
             S == LetIn(key, k, k + Window)
  <2>1. log \in Seq(Nat) /\ max \in Nat \ {0} /\ k \in Nat /\ clock \in Nat
    BY Numbers, Limits, LimiterTypes
  <2>2. LogHolds(log, attempts[key], max, clock)
    BY DEF RateInv, KeyHolds
  <2>3. S \subseteq 1..Len(log) /\ \A i \in S : k <= log[i] /\ log[i] <= k + Window
    BY <2>1 DEF LetIn
  <2> HIDE DEF log, max, S
  <2>4. \A i, j \in S : j < i + (2 * max - 1)
    BY <2>1, <2>2, <2>3, Apart
  <2>5. S \subseteq Nat /\ 2 * max - 1 \in Nat \ {0}
    BY <2>1, <2>3
  <2>6. IsFiniteSet(S) /\ Cardinality(S) <= 2 * max - 1
    BY <2>4, <2>5, NarrowSet
  <2>7. Cardinality(S) \in Nat
    BY <2>6, FS_CardinalityType
  <2> QED
    BY <2>1, <2>6, <2>7 DEF S, max
<1> QED
  BY <1>1, TypeInit, TypeStep, RateInit, RateStep, PTL DEF Spec

(***************************************************************************)
(* DeniedForCause: an attempt is denied only where as many as the limit    *)
(* were let in during the window before it.                                *)
(***************************************************************************)
THEOREM DenialsHaveCause == Spec => []DeniedForCause
<1>1. TypeInv /\ RateInv => DeniedForCause
  <2> SUFFICES ASSUME TypeInv, RateInv, NEW key \in Keys, denied[key] # None
               PROVE  Cardinality(LetIn(key, denied[key] - Window, denied[key]))
                        >= max_attempts[key]
    BY DEF DeniedForCause
  <2> DEFINE log == let_in[key]
             max == max_attempts[key]
             when == denied[key]
             S == LetIn(key, when - Window, when)
  <2>1. /\ log \in Seq(Nat) /\ max \in Nat \ {0} /\ when \in Nat /\ Window \in Nat
        /\ Len(log) \in Nat
    BY Numbers, Limits, LimiterTypes DEF TypeInv, Limiter
  <2>2. LogHolds(log, attempts[key], max, clock) /\ DenialHolds(log, max, when)
    BY DEF RateInv, KeyHolds
  <2>3. S = {k \in 1..Len(log) : when - Window <= log[k] /\ log[k] <= when}
    BY <2>1 DEF LetIn
  <2>4. when # None
    OBVIOUS
  <2> HIDE DEF log, max, when, S
  <2>5. PICK i \in 1..Len(log) : /\ i + max - 1 <= Len(log)
                                 /\ when - Window <= log[i]
                                 /\ log[i + max - 1] <= when
    BY <2>2, <2>4 DEF DenialHolds
  <2>6. ASSUME NEW k \in i..i + max - 1 PROVE k \in S
    <3>1. k \in 1..Len(log) /\ i + max - 1 \in 1..Len(log) /\ i <= k /\ k <= i + max - 1
      BY <2>1, <2>5
    <3>2. log[i] <= log[k] /\ log[k] <= log[i + max - 1]
      BY <2>2, <3>1 DEF LogHolds
    <3>3. log[i] \in Nat /\ log[k] \in Nat /\ log[i + max - 1] \in Nat
      <4>1. \A n \in 1..Len(log) : log[n] \in Nat
        BY <2>1
      <4> QED
        BY <2>5, <3>1, <4>1
    <3>4. when - Window <= log[k] /\ log[k] <= when
      <4> DEFINE a == log[i]
                 b == log[k]
                 c == log[i + max - 1]
      <4> HIDE DEF a, b, c
      <4>1. /\ a \in Nat /\ b \in Nat /\ c \in Nat
            /\ when - Window <= a /\ a <= b /\ b <= c /\ c <= when
        BY <2>5, <3>2, <3>3 DEF a, b, c
      <4>2. when - Window <= b /\ b <= when
        BY <2>1, <4>1
      <4> QED
        BY <4>2 DEF b
    <3> QED
      BY <2>3, <3>1, <3>4
  <2>7. Cardinality(i..i + max - 1) = max
    BY <2>1, FS_Interval
  <2>8. IsFiniteSet(1..Len(log)) /\ S \subseteq 1..Len(log)
    BY <2>1, <2>3, FS_Interval
  <2>9. IsFiniteSet(S)
    BY <2>8, FS_Subset
  <2>10. i..i + max - 1 \subseteq S
    BY <2>6
  <2>11. Cardinality(i..i + max - 1) <= Cardinality(S)
    BY <2>9, <2>10, FS_Subset
  <2> QED
    BY <2>1, <2>7, <2>11 DEF S, max, when
<1> QED
  BY <1>1, TypeInit, TypeStep, RateInit, RateStep, PTL DEF Spec

=============================================================================
