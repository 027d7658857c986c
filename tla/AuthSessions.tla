---------------------------- MODULE AuthSessions ----------------------------
(***************************************************************************)
(* Accounts and sessions of IronDrive: registering, logging in, being let  *)
(* through by the guards, logging out, the limit on attempts and the       *)
(* worker that prunes sessions (services/auth_service.rs,                  *)
(* services/rate_limit.rs, services/background/session_cleanup.rs,         *)
(* models/user.rs, models/session.rs, guards/auth_guard.rs,                *)
(* guards/session_guard.rs).                                               *)
(*                                                                         *)
(* Every SQL statement is a step; requests interleave with each other,     *)
(* with the worker, with the clock and with an operator who deactivates or *)
(* reactivates an account in the database.  A statement may fail, and the  *)
(* server may crash, which drops the requests and the limiter's memory and *)
(* keeps the rows.  A password is right or wrong; a token is an id that    *)
(* only its login hands out; what follows a guard is in other modules.     *)
(***************************************************************************)
EXTENDS Integers, Sequences, FiniteSets

CONSTANTS
    RawNames,     \* what clients type as a username, as characters
    RawEmails,    \* what they type as an address
    USERNAME_MIN_LEN, USERNAME_MAX_LEN, EMAIL_MAX_LEN,
    MaxTokens,    \* bound on the session tokens, numbered as they are minted
    MaxAtOnce,    \* bound on the requests that run at once
    Clients,      \* what clients do, by operation and way in: "page", "api"
    Lifetime,     \* config.session_expiry_hours
    LoginMax,     \* 10 attempts per client address
    RegisterMax,  \* 5 attempts per client address
    Window,       \* 900 seconds
    MaxRequests,  \* bound on the requests that begin
    MaxMishaps,   \* bound on failed statements, crashes and an operator's acts
    MaxClock,     \* bound on the clock
    None

ASSUME BoundAssumption ==
    /\ {USERNAME_MIN_LEN, USERNAME_MAX_LEN, EMAIL_MAX_LEN} \subseteq Nat \ {0}
    /\ {Lifetime, LoginMax, RegisterMax} \subseteq Nat \ {0}
    /\ {MaxTokens, MaxAtOnce, Window, MaxRequests, MaxMishaps, MaxClock} \subseteq Nat

(***************************************************************************)
(* Input.  The characters are those that the rules tell apart.             *)
(***************************************************************************)
Folded == [A |-> "a", B |-> "b"]
Alphanumeric == {"a", "b", "A", "B", "1"}
to_ascii_lowercase(s) == [k \in DOMAIN s |-> IF s[k] \in DOMAIN Folded
                                             THEN Folded[s[k]] ELSE s[k]]

trim(s) ==
    LET inked == {k \in DOMAIN s : s[k] # " "} IN
    IF inked = {} THEN <<>>
    ELSE LET first == CHOOSE k \in inked : \A j \in inked : k <= j
             last == CHOOSE k \in inked : \A j \in inked : j <= k
         IN  SubSeq(s, first, last)

\* The normal form, or None where the input is refused.
normalize_username(raw) ==
    LET name == trim(raw) IN
    IF /\ Len(name) \in USERNAME_MIN_LEN..USERNAME_MAX_LEN
       /\ \A k \in DOMAIN name : name[k] \in Alphanumeric \cup {"-", "_"}
       /\ name[1] \in Alphanumeric
    THEN name ELSE None

\* The first @ divides the address; the whole of it is lowered.
normalize_email(raw) ==
    LET email == trim(raw)
        ats == {k \in DOMAIN email : email[k] = "@"}
    IN  IF /\ Len(email) <= EMAIL_MAX_LEN
           /\ \E pos \in ats : /\ \A k \in ats : pos <= k
                               /\ pos > 1 /\ pos < Len(email)
                               /\ \E k \in pos + 1..Len(email) : email[k] = "."
        THEN to_ascii_lowercase(email) ELSE None

Tokens == 1..MaxTokens
Reqs == 1..MaxAtOnce
Names == {normalize_username(raw) : raw \in RawNames} \ {None}
Emails == {normalize_email(raw) : raw \in RawEmails} \ {None}

Account == [email : Emails, role : {"admin", "user"}, active : BOOLEAN]
Session == [name : Names, exp : 0..MaxClock + Lifetime]

ASSUME NoneAssumption ==
    /\ None \notin {"register", "login", "use", "logout", "logout_submit"} /\ None \notin Nat
    /\ None \notin Account /\ None \notin Session /\ None \notin [count : Nat, start : Nat]

VARIABLES
    account,   \* account[n]: the row of users with that username, or None
    token,     \* token[t]: what the row of session t was inserted with, or None
    rows,      \* the sessions whose row is there
    req,       \* req[r]: the request running in slot r
    attempts,  \* the rate limiter's entry for each of its keys, or None
    clock,
    begun,     \* requests begun so far
    mishaps,   \* failed statements, crashes and an operator's acts so far
    answered,  \* history: tokens whose logout was answered as done
    ended,     \* history: those among them whose row was then gone
    let_in,    \* history: when attempts were let in since the boot, by key, in order
    denied     \* history: when an attempt was last denied, by key

bounds == <<begun, mishaps>>
logouts == <<answered, ended>>
vars == <<account, token, rows, req, attempts, clock, bounds, logouts,
          let_in, denied>>

Keys == {"login", "register"}
max_attempts == [login |-> LoginMax, register |-> RegisterMax]

Request(op, pc, name, email, tok, earlier, barred) ==
    [op |-> op, pc |-> pc, name |-> name, email |-> email, role |-> None,
     tok |-> tok, earlier |-> earlier, barred |-> barred]
Idle == Request(None, "idle", None, None, None, {}, {})

Exists(n) == account[n] # None
Issued == {t \in Tokens : token[t] # None}

\* Why a request that begins now with token t is to be refused.
Barred(t) ==
    {why \in {"logout", "expired", "inactive"} :
        CASE why = "logout" -> t \in ended
          [] why = "expired" -> clock >= token[t].exp
          [] why = "inactive" -> ~account[token[t].name].active}

Goto(r, pc) == req' = [req EXCEPT ![r].pc = pc]
Finish(r) == req' = [req EXCEPT ![r] = Idle]
At(r, pc) == req[r].pc = pc

(***************************************************************************)
(* RateLimiter::check, one step: the entry is locked while it runs.        *)
(***************************************************************************)
\* Variant of Elapsed: the last second of a window opens the next.
ElapsedEarly(key) == attempts[key] # None /\ clock - attempts[key].start >= Window
Elapsed(key) == attempts[key] # None /\ clock - attempts[key].start > Window
Admits(key) == \/ attempts[key] = None
               \/ Elapsed(key)
               \/ attempts[key].count < max_attempts[key]

\* Variant of Entry: an attempt that is denied starts the window anew.
EntryProlonged(key) ==
    IF attempts[key] = None \/ Elapsed(key) THEN [count |-> 1, start |-> clock]
    ELSE IF Admits(key) THEN [count |-> attempts[key].count + 1, start |-> attempts[key].start]
    ELSE [attempts[key] EXCEPT !.start = clock]

\* Variant of Entry: denied attempts are counted too.
EntryUncapped(key) ==
    IF attempts[key] = None \/ Elapsed(key) THEN [count |-> 1, start |-> clock]
    ELSE [count |-> attempts[key].count + 1, start |-> attempts[key].start]

Entry(key) ==
    IF attempts[key] = None \/ Elapsed(key) THEN [count |-> 1, start |-> clock]
    ELSE IF Admits(key)
         THEN [count |-> attempts[key].count + 1, start |-> attempts[key].start]
    ELSE attempts[key]

check(key) ==
    /\ attempts' = [attempts EXCEPT ![key] = Entry(key)]
    /\ IF Admits(key)
       THEN let_in' = [let_in EXCEPT ![key] = Append(@, clock)] /\ UNCHANGED denied
       ELSE denied' = [denied EXCEPT ![key] = clock] /\ UNCHANGED let_in

(***************************************************************************)
(* Requests.  The pages ask the limiter before anything else, the API does *)
(* not; both then refuse input that has no normal form.                    *)
(***************************************************************************)
Enter(r, via, key, request) ==
    /\ IF via = "page" THEN check(key) ELSE UNCHANGED <<attempts, let_in, denied>>
    /\ req' = IF /\ via = "page" => Admits(key)
                 /\ request.name # None /\ request.email # None
              THEN [req EXCEPT ![r] = request] ELSE req

BeginRegister(r, via, name, email) ==
    Enter(r, via, "register",
          Request("register", "first", normalize_username(name),
                  normalize_email(email), None, {n \in Names : Exists(n)}, {}))

BeginLogin(r, via, name) ==
    Enter(r, via, "login",
          Request("login", "password", normalize_username(name), <<>>, None, {}, {}))

BeginSigned(r, op, t) ==
    /\ req' = [req EXCEPT ![r] = Request(op, "find", None, None, t, {}, Barred(t))]
    /\ UNCHANGED <<attempts, let_in, denied>>

Begin(r) ==
    /\ At(r, "idle") /\ \A q \in 1..r - 1 : ~At(q, "idle")
    /\ begun < MaxRequests
    /\ begun' = begun + 1
    /\ \/ \E client \in Clients, name \in RawNames :
             \/ /\ client[1] = "register"
                /\ \E email \in RawEmails : BeginRegister(r, client[2], name, email)
             \/ client[1] = "login" /\ BeginLogin(r, client[2], name)
       \/ \E op \in {"use", "logout", "logout_submit"}, t \in Issued :
             /\ <<op, "api">> \in Clients \/ <<op, "page">> \in Clients
             /\ BeginSigned(r, op, t)
    /\ UNCHANGED <<account, token, rows, clock, mishaps, logouts>>

OnlyReq == UNCHANGED <<account, token, rows, attempts, clock, bounds,
                       logouts, let_in, denied>>

(***************************************************************************)
(* register and User::create.                                              *)
(***************************************************************************)
\* Variant of is_first_user: deactivated users are not counted.
is_first_userActive == \A n \in Names : Exists(n) => ~account[n].active

\* Variant of is_first_user: first is who registers alone.
is_first_userAlone == /\ \A n \in Names : ~Exists(n)
                      /\ Cardinality({r \in Reqs : req[r].op = "register"}) = 1

is_first_user == \A n \in Names : ~Exists(n)

CheckFirst(r) ==
    /\ At(r, "first")
    /\ req' = [req EXCEPT ![r].role = IF is_first_user THEN "admin" ELSE "user",
                          ![r].pc = "name"]
    /\ OnlyReq

FindName(r) ==
    /\ At(r, "name")
    /\ IF Exists(req[r].name) THEN Finish(r) ELSE Goto(r, "email")
    /\ OnlyReq

Taken(email) == \E n \in Names : Exists(n) /\ account[n].email = email

FindEmail(r) ==
    /\ At(r, "email")
    /\ IF Taken(req[r].email) THEN Finish(r) ELSE Goto(r, "insert")
    /\ OnlyReq

\* The UNIQUE constraints decide between two that found neither.
InsertUser(r) ==
    /\ At(r, "insert")
    /\ account' = IF Exists(req[r].name) \/ Taken(req[r].email) THEN account
                  ELSE [account EXCEPT ![req[r].name] =
                          [email |-> req[r].email, role |-> req[r].role,
                           active |-> TRUE]]
    /\ Finish(r)
    /\ UNCHANGED <<token, rows, attempts, clock, bounds, logouts, let_in, denied>>

(***************************************************************************)
(* login and Session::create.                                              *)
(***************************************************************************)
\* get_password_hash and the verification, which may find it wrong.
VerifyPassword(r) ==
    /\ At(r, "password")
    /\ Finish(r) \/ (Exists(req[r].name) /\ Goto(r, "user"))
    /\ OnlyReq

CheckActive(r) ==
    /\ At(r, "user")
    /\ IF account[req[r].name].active THEN Goto(r, "session") ELSE Finish(r)
    /\ OnlyReq

CreateSession(r) ==
    /\ At(r, "session")
    /\ \E t \in Tokens \ Issued :
          /\ 1..t - 1 \subseteq Issued
          /\ token' = [token EXCEPT ![t] = [name |-> req[r].name,
                                           exp |-> clock + Lifetime]]
          /\ rows' = rows \cup {t}
    /\ Finish(r)
    /\ UNCHANGED <<account, attempts, clock, bounds, logouts, let_in, denied>>

(***************************************************************************)
(* The guards, for a bearer token and for the cookie, and the two logouts. *)
(* The API's stands behind the guard and answers an error with an error;   *)
(* the page's, logout_submit, ignores what the guard and the deletion say: *)
(* it clears the cookie and answers as ever.                               *)
(***************************************************************************)
Leaving == {"logout", "logout_submit"}
Dismissed(r) == IF req[r].op = "logout_submit" THEN {req[r].tok} ELSE {}
AnswerGone(r) == answered' = answered \cup Dismissed(r) /\ ended' = ended \cup Dismissed(r)
AnswerLeft(r) == answered' = answered \cup Dismissed(r) /\ UNCHANGED ended

FindSession(r) ==
    /\ At(r, "find")
    /\ IF req[r].tok \in rows THEN Goto(r, "expiry") /\ UNCHANGED logouts
       ELSE Finish(r) /\ AnswerGone(r)
    /\ UNCHANGED <<account, token, rows, attempts, clock, bounds, let_in, denied>>

\* Variant of is_expired: the last second still counts.
is_expiredLate(t) == clock > token[t].exp
is_expired(t) == clock >= token[t].exp

\* Variant of CheckExpiry: the row of an expired session is left to the worker.
CheckExpiryKept(r) ==
    /\ At(r, "expiry")
    /\ IF is_expired(req[r].tok)
       THEN UNCHANGED rows /\ Finish(r) /\ AnswerGone(r)
       ELSE Goto(r, "owner") /\ UNCHANGED <<rows, logouts>>
    /\ UNCHANGED <<account, token, attempts, clock, bounds, let_in, denied>>

\* The end of Session::validate: an expired row is deleted on the way.
CheckExpiry(r) ==
    /\ At(r, "expiry")
    /\ IF is_expired(req[r].tok)
       THEN rows' = rows \ {req[r].tok} /\ Finish(r) /\ AnswerGone(r)
       ELSE Goto(r, "owner") /\ UNCHANGED <<rows, logouts>>
    /\ UNCHANGED <<account, token, attempts, clock, bounds, let_in, denied>>

\* The user of a session is there: none is ever deleted.
LoadUser(r) ==
    /\ At(r, "owner")
    /\ IF ~account[token[req[r].tok].name].active THEN Finish(r) /\ AnswerLeft(r)
       ELSE /\ Goto(r, IF req[r].op \in Leaving THEN "delete" ELSE "passed")
            /\ UNCHANGED logouts
    /\ UNCHANGED <<account, token, rows, attempts, clock, bounds, let_in, denied>>

\* Both answer that it is done whether or not a row was there.
DeleteSession(r) ==
    /\ At(r, "delete")
    /\ rows' = rows \ {req[r].tok}
    /\ answered' = answered \cup {req[r].tok}
    /\ ended' = ended \cup {req[r].tok}
    /\ Finish(r)
    /\ UNCHANGED <<account, token, attempts, clock, bounds, let_in, denied>>

Pass(r) == At(r, "passed") /\ Finish(r) /\ OnlyReq

Handle(r) == \/ Begin(r)
             \/ CheckFirst(r) \/ FindName(r) \/ FindEmail(r) \/ InsertUser(r)
             \/ VerifyPassword(r) \/ CheckActive(r)
             \/ CreateSession(r)
             \/ FindSession(r) \/ CheckExpiry(r) \/ LoadUser(r)
             \/ DeleteSession(r) \/ Pass(r)

(***************************************************************************)
(* session_cleanup_loop.                                                   *)
(***************************************************************************)
\* Variant of delete_expired: the time is taken from a clock that is ahead.
delete_expiredEarly == rows' = {t \in rows : token[t].exp > clock + 1}
\* Variant of delete_expired: the users are joined, and only active ones.
delete_expiredActive ==
    rows' = {t \in rows : token[t].exp > clock \/ ~account[token[t].name].active}
delete_expired == rows' = {t \in rows : token[t].exp > clock}

\* What the loop does each time it wakes up; after an error it sleeps again.
Prune ==
    /\ \/ delete_expired /\ UNCHANGED mishaps
       \/ /\ mishaps < MaxMishaps
          /\ mishaps' = mishaps + 1
          /\ UNCHANGED rows
    /\ UNCHANGED <<account, token, req, attempts, clock, begun, logouts, let_in, denied>>

(***************************************************************************)
(* The world around the server.                                            *)
(***************************************************************************)
Tick ==
    /\ clock < MaxClock
    /\ clock' = clock + 1
    /\ UNCHANGED <<account, token, rows, req, attempts, bounds, logouts, let_in, denied>>

Mishap == mishaps < MaxMishaps /\ mishaps' = mishaps + 1

\* A statement fails: an error is the answer, but for logout_submit, and a row
\* that was to be deleted stays.
Fail(r) ==
    /\ ~At(r, "idle") /\ ~At(r, "passed")
    /\ Mishap
    /\ Finish(r) /\ AnswerLeft(r)
    /\ UNCHANGED <<account, token, rows, attempts, clock, begun, let_in, denied>>

\* An operator writes is_active.  Who is active again is barred no more.
SetActive(n) ==
    /\ Exists(n)
    /\ Mishap
    /\ account' = [account EXCEPT ![n] =
                      [email |-> account[n].email, role |-> account[n].role,
                       active |-> ~account[n].active]]
    /\ req' = [r \in Reqs |->
                 IF req[r].tok # None /\ token[req[r].tok].name = n
                 THEN [req[r] EXCEPT !.barred = req[r].barred \ {"inactive"}]
                 ELSE req[r]]
    /\ UNCHANGED <<token, rows, attempts, clock, begun, logouts, let_in, denied>>

Unlimited == [key \in Keys |-> None]
NobodyLetIn == [key \in Keys |-> <<>>]

Crash ==
    /\ Mishap
    /\ req' = [r \in Reqs |-> Idle]
    /\ attempts' = Unlimited
    /\ let_in' = NobodyLetIn
    /\ denied' = Unlimited
    /\ UNCHANGED <<account, token, rows, clock, begun, logouts>>

Init ==
    /\ account = [n \in Names |-> None]
    /\ token = [t \in Tokens |-> None]
    /\ rows = {}
    /\ req = [r \in Reqs |-> Idle]
    /\ attempts = Unlimited
    /\ clock = 0
    /\ begun = 0 /\ mishaps = 0
    /\ answered = {} /\ ended = {}
    /\ let_in = NobodyLetIn
    /\ denied = Unlimited

Next == \/ \E r \in Reqs : Handle(r) \/ Fail(r)
        \/ Prune \/ Tick \/ Crash
        \/ \E n \in Names : SetActive(n)

Spec == Init /\ [][Next]_vars

\* The worker is a task of its own that sleeps and prunes for as long as the
\* server runs; clients, the operator and the database promise nothing.
FairSpec == Spec /\ WF_<<rows, mishaps>>(Prune)

-----------------------------------------------------------------------------
Entries(key) == [count : 1..max_attempts[key], start : 0..MaxClock]

\* The types; a session row is always that of an issued token.
TypeOK ==
    /\ \A n \in Names : Exists(n) => account[n] \in Account
    /\ \A t \in Issued : token[t] \in Session
    /\ rows \subseteq Issued /\ answered \subseteq Issued /\ ended \subseteq answered
    /\ \A r \in Reqs :
          /\ req[r].name \in Names \cup {None}
          /\ req[r].tok \in Issued \cup {None}
          /\ req[r].role \in {"admin", "user", None}
          /\ req[r].barred \subseteq {"logout", "expired", "inactive"}
    /\ \A key \in Keys : /\ attempts[key] \in Entries(key) \cup {None}
                         /\ denied[key] \in 0..MaxClock \cup {None}
                         /\ let_in[key] \in Seq(0..MaxClock)
    /\ clock \in 0..MaxClock
    /\ begun \in 0..MaxRequests /\ mishaps \in 0..MaxMishaps

\* No guard lets a request through that began after a logout of its token was
\* answered with the row gone, after its session expired, or while its user was
\* inactive (and stayed so): neither a login that overlaps the deactivation nor
\* a validation that overlaps another logout or a crash brings a session back.
\* Excepted is a token whose only logouts were by the page and left the row,
\* because a statement failed or the user was inactive: LogoutEnds does without
\* the exception where neither has happened.
BarredRefused ==
    \A r \in Reqs : req[r].pc \in {"delete", "passed"} => req[r].barred = {}

\* "Session should be gone after logout", says a test: that is so of every
\* logout that was answered as done, whether it found the session valid,
\* expired or gone, and however logins, guards, other logouts and the worker
\* overlap it, for as long as no statement fails and no operator deactivates.
\* After that the page answers the same over a row that stays.
LogoutEnds == mishaps = 0 => answered \cap rows = {}

\* As soon as anybody has registered there is an administrator, however the
\* first registrations overlap and whichever of them fails.
SomeAdmin ==
    (\E n \in Names : Exists(n)) => \E n \in Names : Exists(n) /\ account[n].role = "admin"

\* Only a registration that began before there was any account makes an
\* administrator: there may be several, but each raced for the first place.
AdminsRaced ==
    [][\A n \in Names :
          ~Exists(n) /\ account'[n] # None /\ account'[n].role = "admin" =>
              \E r \in Reqs : req[r].op = "register" /\ req[r].name = n
                               /\ At(r, "insert") /\ req[r].earlier = {}]_vars

\* The attempts let in from one time to another.
LetIn(key, first, last) ==
    {k \in DOMAIN let_in[key] : first <= let_in[key][k] /\ let_in[key][k] <= last}

\* In any span as long as the window fewer than twice the limit are let in:
\* the counter is that of a fixed window, so one burst may end a window and
\* another begin the next.
RateBound ==
    \A key \in Keys, k \in 0..MaxClock :
        Cardinality(LetIn(key, k, k + Window)) < 2 * max_attempts[key]

\* Nobody is denied who has not used up the limit within the last window:
\* denied attempts do not prolong it.
DeniedForCause ==
    \A key \in Keys : denied[key] # None =>
        Cardinality(LetIn(key, denied[key] - Window, denied[key]))
            >= max_attempts[key]

\* A session's row goes by its own logout or when it has expired, never
\* because of another session, of the worker being early or of a crash.
RowsEndLawfully ==
    [][\A t \in rows \ rows' :
          \/ clock >= token[t].exp
          \/ \E r \in Reqs : req[r].op \in Leaving /\ req[r].tok = t /\ At(r, "delete")]_vars

\* The row of an expired session goes, although nobody uses it any more and
\* the worker's statement may fail.
ExpiredCollected ==
    \A t \in Tokens : (t \in rows /\ clock >= token[t].exp) ~> (t \notin rows)
=============================================================================
