--------------------------- MODULE SurfaceProofs ---------------------------
(***************************************************************************)
(* Proofs about Surface, for any limits on bodies and uploads, any size of *)
(* a chunk, any number of paths in a bulk request and of changes made by   *)
(* others during a request.                                                *)
(*                                                                         *)
(* First the table: Fit says of a handler that whatever it calls comes     *)
(* after the checks that the service relies on.  It is shown for every     *)
(* handler by building its steps up from its guards.  Then the execution:  *)
(* RunInv says what a request that has come so far has found.              *)
(***************************************************************************)
EXTENDS Surface, SequenceTheorems, TLAPS

Answers == {"done", "refused"} \cup DOMAIN Pages
Kinds == {"ask", "validate", "body", "call", "try", "reread"}
Steps == [do : Kinds, arg : FactNames \cup Services \cup {"input"} \cup Nat, no : Answers]

Uploads == {"upload_file", "upload_space_file",
            "library receive_chunk", "space receive_chunk"}

\* Before step k of s a fact is asked for, the body is read.
Asks(s, k, fact) == \E j \in 1..k - 1 : s[j].do = "ask" /\ s[j].arg = fact
Reads(s, k) == \E j \in 1..k - 1 : s[j].do = "body"

\* A service is reached only after what it needs was asked for; who logs out
\* is looked up by the call itself, and an administrator of a space may read.
CallSound(auth, s, k) ==
    /\ s[k].arg \in Services
    /\ \A fact \in Needs(s[k].arg) :
          \/ Asks(s, k, fact)
          \/ fact = "read" /\ Asks(s, k, "admin")
          \/ s[k].arg = "logout"
    /\ auth = "cookie" /\ s[k].arg \in Changing => Asks(s, k, "csrf")
    /\ s[k].arg \in Uploads => Reads(s, k)

StepSound(auth, s, k) ==
    /\ s[k].do = "body" => s[k].arg \in Nat /\ ~Reads(s, k)
    /\ s[k].do \in {"call", "try"} => CallSound(auth, s, k)

Fit(h) ==
    /\ h.auth \in {"cookie", "bearer"} /\ h.last \in Answers
    /\ h.steps \in Seq(Steps)
    /\ \A k \in 1..Len(h.steps) : StepSound(h.auth, h.steps, k)

(***************************************************************************)
(* Building up.  Made: a sound sequence of steps that asks for the facts   *)
(* named and reads the body just if read.                                  *)
(***************************************************************************)
Made(auth, s, facts, read) ==
    /\ s \in Seq(Steps)
    /\ \A k \in 1..Len(s) : StepSound(auth, s, k)
    /\ \A fact \in facts : Asks(s, Len(s) + 1, fact)
    /\ read => Reads(s, Len(s) + 1)
    /\ Reads(s, Len(s) + 1) => read

\* A step that is sound in the next place.
Fits(auth, q, facts, read) ==
    /\ q \in Steps
    /\ q.do = "body" => q.arg \in Nat /\ ~read
    /\ q.do \in {"call", "try"} =>
          /\ q.arg \in Services
          /\ \A fact \in Needs(q.arg) :
                \/ fact \in facts
                \/ fact = "read" /\ "admin" \in facts
                \/ q.arg = "logout"
          /\ auth = "cookie" /\ q.arg \in Changing => "csrf" \in facts
          /\ q.arg \in Uploads => read

\* What is said of a step is said of it in every longer sequence.
LEMMA SoundPrefix ==
    ASSUME NEW auth, NEW s, NEW t, NEW k \in Nat,
           \A j \in 1..k : t[j] = s[j], k > 0
    PROVE  /\ StepSound(auth, s, k) => StepSound(auth, t, k)
           /\ \A fact : Asks(s, k, fact) => Asks(t, k, fact)
           /\ Reads(s, k) <=> Reads(t, k)
<1>1. k \in 1..k /\ \A j \in 1..k - 1 : j \in 1..k
  OBVIOUS
<1>2. \A j \in 1..k - 1 : t[j] = s[j]
  BY <1>1
<1>3. t[k] = s[k]
  BY <1>1
<1>4. \A fact : Asks(s, k, fact) => Asks(t, k, fact)
  BY <1>2 DEF Asks
<1>5. Reads(s, k) <=> Reads(t, k)
  BY <1>2 DEF Reads
<1>6. CallSound(auth, s, k) => CallSound(auth, t, k)
  BY <1>3, <1>4, <1>5 DEF CallSound
<1> QED
  BY <1>3, <1>4, <1>5, <1>6 DEF StepSound

LEMMA Longer ==
    ASSUME NEW s \in Seq(Steps), NEW q \in Steps
    PROVE  /\ Len(s) \in Nat /\ s \o <<q>> \in Seq(Steps)
           /\ Len(s \o <<q>>) = Len(s) + 1
           /\ \A k \in 1..Len(s) : (s \o <<q>>)[k] = s[k]
           /\ (s \o <<q>>)[Len(s) + 1] = q
BY ConcatProperties

\* A place further on has seen as much, and more.
LEMMA Further ==
    ASSUME NEW s, NEW k \in Nat
    PROVE  /\ \A fact : Asks(s, k + 1, fact) <=>
                Asks(s, k, fact) \/ (k > 0 /\ s[k].do = "ask" /\ s[k].arg = fact)
           /\ Reads(s, k + 1) <=> Reads(s, k) \/ (k > 0 /\ s[k].do = "body")
<1>1. \A j : j \in 1..(k + 1) - 1 <=> (j \in 1..k - 1 \/ (k > 0 /\ j = k))
  OBVIOUS
<1> QED
  BY <1>1 DEF Asks, Reads

LEMMA Extend ==
    ASSUME NEW auth, NEW s, NEW facts, NEW read, NEW q,
           Made(auth, s, facts, read), Fits(auth, q, facts, read)
    PROVE  /\ Made(auth, s \o <<q>>, facts, read \/ q.do = "body")
           /\ q.do = "ask" => Asks(s \o <<q>>, Len(s \o <<q>>) + 1, q.arg)
<1> DEFINE n == Len(s)
           t == s \o <<q>>
<1>1. /\ n \in Nat /\ t \in Seq(Steps) /\ Len(t) = n + 1
      /\ \A k \in 1..n : t[k] = s[k]
      /\ t[n + 1] = q
  BY Longer DEF Made, Fits
<1> HIDE DEF n, t
<1>2. ASSUME NEW k \in 1..n PROVE StepSound(auth, t, k)
  <2>1. StepSound(auth, s, k) /\ k \in Nat /\ k > 0 /\ \A j \in 1..k : t[j] = s[j]
    BY <1>1 DEF Made, n
  <2> QED
    BY <2>1, SoundPrefix
<1>3. /\ \A fact : Asks(s, n + 1, fact) => Asks(t, n + 1, fact)
      /\ Reads(s, n + 1) <=> Reads(t, n + 1)
  <2>1. \A j \in 1..(n + 1) - 1 : t[j] = s[j]
    BY <1>1
  <2> QED
    BY <2>1 DEF Asks, Reads
<1>4. /\ \A fact \in facts : Asks(t, n + 1, fact)
      /\ read => Reads(t, n + 1)
      /\ Reads(t, n + 1) => read
  BY <1>3 DEF Made, n
<1>5. StepSound(auth, t, n + 1)
  <2>1. q.do \in {"call", "try"} => CallSound(auth, t, n + 1)
    BY <1>1, <1>4 DEF Fits, CallSound
  <2> QED
    BY <1>1, <1>4, <2>1 DEF Fits, StepSound
<1>6. \A k \in 1..n + 1 : StepSound(auth, t, k)
  BY <1>1, <1>2, <1>5
<1>7. /\ \A fact : Asks(t, (n + 1) + 1, fact) <=>
           Asks(t, n + 1, fact) \/ (q.do = "ask" /\ q.arg = fact)
      /\ Reads(t, (n + 1) + 1) <=> Reads(t, n + 1) \/ q.do = "body"
  <2>1. n + 1 \in Nat /\ n + 1 > 0
    BY <1>1
  <2> QED
    BY <1>1, <2>1, Further
<1> QED
  BY <1>1, <1>4, <1>6, <1>7 DEF Made, t

\* A service may be reached where these facts were asked for.
MayCall(auth, service, facts, read) ==
    /\ service \in Services
    /\ \A fact \in Needs(service) : \/ fact \in facts
                                    \/ fact = "read" /\ "admin" \in facts
                                    \/ service = "logout"
    /\ auth = "cookie" /\ service \in Changing => "csrf" \in facts
    /\ service \in Uploads => read

LEMMA NoSteps == \A auth : Made(auth, <<>>, {}, FALSE)
BY DEF Made, Reads

LEMMA AddAsk ==
    ASSUME NEW auth, NEW s, NEW facts, NEW read, NEW fact \in FactNames,
           NEW no \in Answers, Made(auth, s, facts, read)
    PROVE  Made(auth, s \o Ask(fact, no), facts \cup {fact}, read)
<1> DEFINE q == [do |-> "ask", arg |-> fact, no |-> no]
           t == s \o <<q>>
<1>1. q \in Steps /\ q.do = "ask" /\ q.arg = fact
  BY DEF Steps, Kinds
<1>2. Fits(auth, q, facts, read)
  BY <1>1 DEF Fits
<1> HIDE DEF q
<1>3. /\ Made(auth, t, facts, read \/ q.do = "body")
      /\ Asks(t, Len(t) + 1, fact)
  BY <1>1, <1>2, Extend
<1> HIDE DEF t
<1>4. Made(auth, t, facts \cup {fact}, read)
  BY <1>1, <1>3 DEF Made
<1> QED
  BY <1>4 DEF t, q, Ask

LEMMA AddValidate ==
    ASSUME NEW auth, NEW s, NEW facts, NEW read, NEW no \in Answers,
           Made(auth, s, facts, read)
    PROVE  Made(auth, s \o Validate(no), facts, read)
<1> DEFINE q == [do |-> "validate", arg |-> "input", no |-> no]
           t == s \o <<q>>
<1>1. q \in Steps /\ q.do = "validate"
  BY DEF Steps, Kinds
<1>2. Fits(auth, q, facts, read)
  BY <1>1 DEF Fits
<1> HIDE DEF q
<1>3. Made(auth, t, facts, read \/ q.do = "body")
  BY <1>1, <1>2, Extend
<1> HIDE DEF t
<1>4. Made(auth, t, facts, read)
  BY <1>1, <1>3 DEF Made
<1> QED
  BY <1>4 DEF t, q, Validate

LEMMA AddBody ==
    ASSUME NEW auth, NEW s, NEW facts, NEW cap \in Nat,
           Made(auth, s, facts, FALSE)
    PROVE  Made(auth, s \o Body(cap), facts, TRUE)
<1> DEFINE q == [do |-> "body", arg |-> cap, no |-> "refused"]
           t == s \o <<q>>
<1>1. q \in Steps /\ q.do = "body" /\ q.arg \in Nat
  BY DEF Steps, Kinds, Answers
<1>2. Fits(auth, q, facts, FALSE)
  BY <1>1 DEF Fits
<1> HIDE DEF q
<1>3. Made(auth, t, facts, FALSE \/ q.do = "body")
  BY <1>1, <1>2, Extend
<1> HIDE DEF t
<1>4. Made(auth, t, facts, TRUE)
  BY <1>1, <1>3 DEF Made
<1> QED
  BY <1>4 DEF t, q, Body

LEMMA AddCall ==
    ASSUME NEW auth, NEW s, NEW facts, NEW read, NEW service, NEW no \in Answers,
           Made(auth, s, facts, read), MayCall(auth, service, facts, read)
    PROVE  Made(auth, s \o Call(service, no), facts, read)
<1> DEFINE q == [do |-> "call", arg |-> service, no |-> no]
           t == s \o <<q>>
<1>1. q \in Steps /\ q.do = "call" /\ q.arg = service
  BY DEF Steps, Kinds, MayCall
<1>2. Fits(auth, q, facts, read)
  BY <1>1 DEF Fits, MayCall
<1> HIDE DEF q
<1>3. Made(auth, t, facts, read \/ q.do = "body")
  BY <1>1, <1>2, Extend
<1> HIDE DEF t
<1>4. Made(auth, t, facts, read)
  BY <1>1, <1>3 DEF Made
<1> QED
  BY <1>4 DEF t, q, Call

LEMMA AddTry ==
    ASSUME NEW auth, NEW s, NEW facts, NEW read, NEW service,
           Made(auth, s, facts, read), MayCall(auth, service, facts, read)
    PROVE  Made(auth, s \o Try(service), facts, read)
<1> DEFINE q == [do |-> "try", arg |-> service, no |-> "done"]
           t == s \o <<q>>
<1>1. q \in Steps /\ q.do = "try" /\ q.arg = service
  BY DEF Steps, Kinds, MayCall, Answers
<1>2. Fits(auth, q, facts, read)
  BY <1>1 DEF Fits, MayCall
<1> HIDE DEF q
<1>3. Made(auth, t, facts, read \/ q.do = "body")
  BY <1>1, <1>2, Extend
<1> HIDE DEF t
<1>4. Made(auth, t, facts, read)
  BY <1>1, <1>3 DEF Made
<1> QED
  BY <1>4 DEF t, q, Try

LEMMA AddReread ==
    ASSUME NEW auth, NEW s, NEW facts, NEW read, NEW back \in Services,
           Made(auth, s, facts, read)
    PROVE  Made(auth, s \o Reread(back), facts, read)
<1> DEFINE q == [do |-> "reread", arg |-> back, no |-> "refused"]
           t == s \o <<q>>
<1>1. q \in Steps /\ q.do = "reread"
  BY DEF Steps, Kinds, Answers
<1>2. Fits(auth, q, facts, read)
  BY <1>1 DEF Fits
<1> HIDE DEF q
<1>3. Made(auth, t, facts, read \/ q.do = "body")
  BY <1>1, <1>2, Extend
<1> HIDE DEF t
<1>4. Made(auth, t, facts, read)
  BY <1>1, <1>3 DEF Made
<1> QED
  BY <1>4 DEF t, q, Reread

\* A loop that tries a service again and again.
LEMMA AddSweep ==
    ASSUME NEW auth, NEW s, NEW facts, NEW read, NEW service,
           Made(auth, s, facts, read), MayCall(auth, service, facts, read)
    PROVE  Made(auth, s \o Sweep(service), facts, read)
<1> DEFINE q == [do |-> "try", arg |-> service, no |-> "done"]
           n == Len(s)
           w == Sweep(service)
           t == s \o w
<1>1. q \in Steps /\ q.do = "try" /\ q.arg = service
  BY DEF Steps, Kinds, MayCall, Answers
<1>2. Try(service)[1] = q
  BY DEF Try
<1>3. w = [k \in 1..MaxPaths |-> q] /\ MaxPaths \in Nat
  BY <1>2, SizeAssumption DEF Sweep
<1> HIDE DEF q, w
<1>4. w \in Seq(Steps) /\ Len(w) = MaxPaths /\ \A k \in 1..MaxPaths : w[k] = q
  BY <1>1, <1>3
<1>5. s \in Seq(Steps) /\ n \in Nat
  BY DEF Made
<1>6. /\ t \in Seq(Steps) /\ Len(t) = n + MaxPaths
      /\ \A k \in 1..n : t[k] = s[k]
      /\ \A k \in n + 1..n + MaxPaths : t[k] = q
  <2>1. /\ t \in Seq(Steps) /\ Len(t) = n + MaxPaths
        /\ \A k \in 1..n + MaxPaths : t[k] = IF k <= n THEN s[k] ELSE w[k - n]
    BY <1>4, <1>5, ConcatProperties
  <2>2. ASSUME NEW k \in n + 1..n + MaxPaths PROVE t[k] = q
    <3>1. k \in 1..n + MaxPaths /\ ~(k <= n) /\ k - n \in 1..MaxPaths
      BY <1>3, <1>5
    <3> QED
      BY <1>4, <2>1, <3>1
  <2>3. ASSUME NEW k \in 1..n PROVE t[k] = s[k]
    BY <1>3, <1>5, <2>1
  <2> QED
    BY <2>1, <2>2, <2>3
<1> HIDE DEF n, t
<1>7. ASSUME NEW k \in 1..n PROVE StepSound(auth, t, k)
  <2>1. StepSound(auth, s, k) /\ k \in Nat /\ k > 0 /\ \A j \in 1..k : t[j] = s[j]
    BY <1>5, <1>6 DEF Made, n
  <2> QED
    BY <2>1, SoundPrefix
<1>8. ASSUME NEW k \in Nat, k > n
      PROVE  /\ \A fact \in facts : Asks(t, k, fact)
             /\ read => Reads(t, k)
  <2>1. \A j \in 1..(n + 1) - 1 : j \in 1..k - 1 /\ t[j] = s[j]
    BY <1>5, <1>6, <1>8
  <2>2. /\ \A fact \in facts : Asks(s, n + 1, fact)
        /\ read => Reads(s, n + 1)
    BY DEF Made, n
  <2> QED
    BY <2>1, <2>2 DEF Asks, Reads
<1>9. ASSUME NEW k \in n + 1..n + MaxPaths PROVE StepSound(auth, t, k)
  <2>1. k \in Nat /\ k > n /\ t[k] = q
    BY <1>3, <1>5, <1>6
  <2>2. CallSound(auth, t, k)
    BY <1>1, <1>8, <2>1 DEF CallSound, MayCall
  <2> QED
    BY <1>1, <2>1, <2>2 DEF StepSound
<1>10. \A k \in 1..n + MaxPaths : StepSound(auth, t, k)
  <2>1. \A k \in 1..n + MaxPaths : k \in 1..n \/ k \in n + 1..n + MaxPaths
    BY <1>3, <1>5
  <2> QED
    BY <1>7, <1>9, <2>1
<1>11. n + MaxPaths + 1 \in Nat /\ n + MaxPaths + 1 > n
  BY <1>3, <1>5
<1>12. /\ \A fact \in facts : Asks(t, n + MaxPaths + 1, fact)
       /\ read => Reads(t, n + MaxPaths + 1)
       /\ Reads(t, n + MaxPaths + 1) => read
  <2>1. ASSUME NEW j \in 1..(n + MaxPaths + 1) - 1, t[j].do = "body"
        PROVE  j \in 1..(n + 1) - 1 /\ s[j].do = "body"
    <3>1. j \in 1..n \/ j \in n + 1..n + MaxPaths
      BY <1>3, <1>5
    <3> QED
      BY <1>1, <1>5, <1>6, <2>1, <3>1
  <2>2. Reads(t, n + MaxPaths + 1) => Reads(s, n + 1)
    BY <2>1 DEF Reads
  <2> QED
    BY <1>8, <1>11, <2>2 DEF Made, n
<1> QED
  BY <1>6, <1>10, <1>12 DEF Made, t, w

LEMMA PageFit ==
    ASSUME NEW s, NEW facts, NEW read, NEW last \in Answers,
           Made("cookie", s, facts, read)
    PROVE  Fit(Page(s, last))
BY DEF Made, Fit, Page

LEMMA ApiFit ==
    ASSUME NEW s, NEW facts, NEW read,
           Made("bearer", s, facts, read)
    PROVE  Fit(Api(s))
BY DEF Made, Fit, Api, Answers

(***************************************************************************)
(* The guards, each with the facts it asks for.                            *)
(***************************************************************************)
LEMMA AnswerNames ==
    {"done", "refused", "index", "login_page", "register_page", "setup_page", "files_page",
     "groups_page", "group_detail_page", "spaces_page", "space_browser_page",
     "space_settings_page"} \subseteq Answers
BY DEF Answers, Pages

LEMMA Names ==
    /\ {"session", "stranger", "csrf", "set_up", "not_set_up", "library",
        "read", "write", "admin", "staff"} = FactNames
    /\ "refused" \in Answers
BY DEF FactNames, Answers

\* A sequence that begins with its first step.
LEMMA AskFirst ==
    ASSUME NEW auth, NEW fact \in FactNames, NEW no \in Answers
    PROVE  Made(auth, Ask(fact, no), {fact}, FALSE)
<1>1. Made(auth, <<>> \o Ask(fact, no), {} \cup {fact}, FALSE)
  BY NoSteps, AddAsk
<1>2. Ask(fact, no) \in Seq(Steps)
  BY DEF Ask, Steps, Kinds
<1>3. <<>> \o Ask(fact, no) = Ask(fact, no)
  BY <1>2, ConcatEmptySeq
<1>4. {} \cup {fact} = {fact}
  OBVIOUS
<1> QED
  BY <1>1, <1>3, <1>4

LEMMA CallFirst ==
    ASSUME NEW auth, NEW service, NEW no \in Answers, MayCall(auth, service, {}, FALSE)
    PROVE  Made(auth, Call(service, no), {}, FALSE)
<1>1. Made(auth, <<>> \o Call(service, no), {}, FALSE)
  BY NoSteps, AddCall
<1>2. Call(service, no) \in Seq(Steps)
  BY DEF Call, Steps, Kinds, MayCall
<1>3. <<>> \o Call(service, no) = Call(service, no)
  BY <1>2, ConcatEmptySeq
<1> QED
  BY <1>1, <1>3

LEMMA AddGuard ==
    ASSUME NEW auth, NEW s, NEW facts, NEW read, NEW fact \in FactNames,
           Made(auth, s, facts, read)
    PROVE  Made(auth, s \o Guard(fact), facts \cup {fact}, read)
BY AddAsk, Names DEF Guard

LEMMA SetupGuard ==
    ASSUME NEW auth
    PROVE  /\ Made(auth, SetupComplete, Account, FALSE)
           /\ SessionSetupComplete = SetupComplete
<1>1. Made(auth, Guard("session"), {"session"}, FALSE)
  BY AskFirst, Names DEF Guard
<1>2. Made(auth, Guard("session") \o Guard("set_up"), {"session"} \cup {"set_up"}, FALSE)
  BY <1>1, AddGuard, Names
<1>3. {"session"} \cup {"set_up"} = Account
  BY DEF Account
<1> QED
  BY <1>2, <1>3 DEF SetupComplete, SessionSetupComplete, AuthenticatedUser, SessionUser

LEMMA SpaceGuards ==
    ASSUME NEW auth
    PROVE  /\ Made(auth, SpaceReader, Account \cup {"read"}, FALSE)
           /\ Made(auth, SpaceWriter, Account \cup {"write"}, FALSE)
           /\ Made(auth, SpaceAdmin, Account \cup {"admin"}, FALSE)
           /\ Made(auth, SessionSpaceReader, Account \cup {"read"}, FALSE)
           /\ Made(auth, SessionSpaceWriter, Account \cup {"write"}, FALSE)
           /\ Made(auth, SessionSpaceAdmin, Account \cup {"admin"}, FALSE)
BY SetupGuard, AddGuard, Names
   DEF SpaceReader, SpaceWriter, SpaceAdmin, SessionSpaceReader, SessionSpaceWriter,
       SessionSpaceAdmin

LEMMA StaffGuard ==
    ASSUME NEW auth
    PROVE  Made(auth, AdminUser, {"session", "staff"}, FALSE)
<1>1. Made(auth, Guard("session"), {"session"}, FALSE)
  BY AskFirst, Names DEF Guard
<1>2. Made(auth, Guard("session") \o Guard("staff"), {"session"} \cup {"staff"}, FALSE)
  BY <1>1, AddGuard, Names
<1>3. {"session"} \cup {"staff"} = {"session", "staff"}
  OBVIOUS
<1> QED
  BY <1>2, <1>3 DEF AdminUser, AuthenticatedUser

LEMMA LibraryGuard ==
    ASSUME NEW auth, NEW no \in Answers
    PROVE  /\ Made(auth, SetupComplete \o require_library(no), Account \cup {"library"},
                   FALSE)
           /\ Made(auth, SessionSetupComplete \o require_library(no),
                   Account \cup {"library"}, FALSE)
BY SetupGuard, AddAsk, Names DEF require_library

\* What is asked of a form that names the page to go back to.
LEMMA AddForm ==
    ASSUME NEW auth, NEW s, NEW facts, NEW read, NEW no \in Answers,
           Made(auth, s, facts, read)
    PROVE  Made(auth, s \o validate_csrf(no), facts \cup {"csrf"}, read)
BY AddAsk, Names DEF validate_csrf

LEMMA FormGuards ==
    ASSUME NEW auth
    PROVE  /\ Made(auth, FormOnLibrary, Account \cup {"csrf"} \cup {"library"}, FALSE)
           /\ Made(auth, FormOnGroup, Account \cup {"csrf"}, FALSE)
           /\ Made(auth, FormOnSettings, Account \cup {"admin"} \cup {"csrf"}, FALSE)
           /\ Made(auth, FormOnSpace, Account \cup {"write"} \cup {"csrf"}, FALSE)
<1>1. "files_page" \in Answers /\ "group_detail_page" \in Answers
      /\ "space_settings_page" \in Answers /\ "space_browser_page" \in Answers
  BY AnswerNames
<1>2. \A no \in Answers : Made(auth, SessionSetupComplete \o validate_csrf(no),
                               Account \cup {"csrf"}, FALSE)
  BY SetupGuard, AddForm
<1>3. Made(auth, FormOnLibrary, Account \cup {"csrf"} \cup {"library"}, FALSE)
  BY <1>1, <1>2, AddAsk, Names DEF FormOnLibrary, require_library
<1>4. Made(auth, FormOnGroup, Account \cup {"csrf"}, FALSE)
  BY <1>1, <1>2 DEF FormOnGroup
<1>5. Made(auth, FormOnSettings, Account \cup {"admin"} \cup {"csrf"}, FALSE)
  BY <1>1, SpaceGuards, AddForm DEF FormOnSettings
<1>6. Made(auth, FormOnSpace, Account \cup {"write"} \cup {"csrf"}, FALSE)
  BY <1>1, SpaceGuards, AddForm DEF FormOnSpace
<1> QED
  BY <1>3, <1>4, <1>5, <1>6

LEMMA Regroup ==
    ASSUME NEW c \in Seq(Steps), NEW u \in Seq(Steps), NEW w \in Seq(Steps)
    PROVE  c \o (u \o w) = c \o u \o w
BY ConcatAssociative, SMTT(30)

\* The header that other sites cannot send is asked for first.
LEMMA XhrGuards ==
    ASSUME NEW auth
    PROVE  /\ Made(auth, XhrLibraryUser, Account \cup {"csrf", "library"}, FALSE)
           /\ Made(auth, XhrSpaceWriter, Account \cup {"csrf", "write"}, FALSE)
<1>1. /\ Guard("csrf") \in Seq(Steps) /\ Guard("session") \in Seq(Steps)
      /\ Guard("set_up") \in Seq(Steps) /\ Guard("write") \in Seq(Steps)
  BY AskFirst, Names DEF Guard, Made
<1>2. Guard("csrf") \o SessionSetupComplete
        = Guard("csrf") \o Guard("session") \o Guard("set_up")
  <2>1. SessionSetupComplete = Guard("session") \o Guard("set_up")
    BY DEF SessionSetupComplete, SessionUser
  <2>2. Guard("csrf") \o (Guard("session") \o Guard("set_up"))
          = Guard("csrf") \o Guard("session") \o Guard("set_up")
    BY <1>1, Regroup, SMTT(30)
  <2> QED
    BY <2>1, <2>2
<1>3. Made(auth, Guard("csrf"), {"csrf"}, FALSE)
  BY AskFirst, Names DEF Guard
<1>4. Made(auth, Guard("csrf") \o Guard("session"), {"csrf"} \cup {"session"}, FALSE)
  BY <1>3, AddGuard, Names
<1>5. Made(auth, Guard("csrf") \o Guard("session") \o Guard("set_up"),
           {"csrf"} \cup {"session"} \cup {"set_up"}, FALSE)
  BY <1>4, AddGuard, Names
<1>6. Made(auth, XhrLibraryUser, {"csrf"} \cup {"session"} \cup {"set_up"} \cup {"library"},
           FALSE)
  BY <1>2, <1>5, AddAsk, Names DEF XhrLibraryUser, CsrfXhr, require_library
<1>7. Made(auth, Guard("csrf") \o SessionSetupComplete \o Guard("write"),
           {"csrf"} \cup {"session"} \cup {"set_up"} \cup {"write"}, FALSE)
  BY <1>2, <1>5, AddGuard, Names
<1>8. SessionSetupComplete \in Seq(Steps)
  BY SetupGuard DEF Made
<1>9. XhrSpaceWriter = Guard("csrf") \o SessionSetupComplete \o Guard("write")
  <2>1. Guard("csrf") \o (SessionSetupComplete \o Guard("write"))
          = Guard("csrf") \o SessionSetupComplete \o Guard("write")
    BY <1>1, <1>8, Regroup, SMTT(30)
  <2>2. XhrSpaceWriter = Guard("csrf") \o (SessionSetupComplete \o Guard("write"))
    BY DEF XhrSpaceWriter, CsrfXhr, SessionSpaceWriter
  <2> QED
    BY <2>1, <2>2
<1>10. /\ {"csrf"} \cup {"session"} \cup {"set_up"} \cup {"library"}
            = Account \cup {"csrf", "library"}
       /\ {"csrf"} \cup {"session"} \cup {"set_up"} \cup {"write"}
            = Account \cup {"csrf", "write"}
  BY DEF Account
<1> QED
  BY <1>6, <1>7, <1>9, <1>10

(***************************************************************************)
(* The services, each with the facts that suffice for it.                  *)
(***************************************************************************)
LEMMA ServicesApart ==
    /\ \A service \in LibraryReads \cup LibraryWrites :
          service \notin SpaceReads \cup SpaceWrites \cup SpaceSettings \cup StaffServices
                         \cup {"logout", "setup_library", "register", "login"}
    /\ \A service \in SpaceReads :
          service \notin SpaceWrites \cup SpaceSettings \cup StaffServices
                         \cup {"logout", "setup_library", "register", "login"}
    /\ \A service \in SpaceWrites :
          service \notin SpaceSettings \cup StaffServices
                         \cup {"logout", "setup_library", "register", "login"}
    /\ \A service \in SpaceSettings :
          service \notin StaffServices \cup {"logout", "setup_library", "register", "login"}
BY DEF SpaceSettings, SpaceWrites, SpaceReads, LibraryReads, LibraryWrites, StaffServices

LEMMA LibraryServices ==
    ASSUME NEW auth, NEW facts, NEW read, Account \cup {"library"} \subseteq facts
    PROVE  /\ \A service \in LibraryReads : MayCall(auth, service, facts, read)
           /\ auth = "bearer" \/ "csrf" \in facts =>
                \A service \in LibraryWrites \ Uploads : MayCall(auth, service, facts, read)
           /\ auth = "bearer" \/ "csrf" \in facts =>
                \A service \in LibraryWrites : MayCall(auth, service, facts, TRUE)
<1>1. \A service \in LibraryReads \cup LibraryWrites : Needs(service) = Account \cup {"library"}
  BY ServicesApart DEF Needs
<1>2. LibraryReads \cap Changing = {} /\ LibraryReads \cap Uploads = {}
  BY DEF LibraryReads, Changing, LibraryWrites, SpaceWrites, SpaceSettings, GroupWrites,
         AccountWrites, Uploads
<1>3. LibraryReads \cup LibraryWrites \subseteq Services
  BY DEF Services, Changing
<1> QED
  BY <1>1, <1>2, <1>3 DEF MayCall

LEMMA SpaceServices ==
    ASSUME NEW auth, NEW facts, NEW read, Account \subseteq facts
    PROVE  /\ "read" \in facts \/ "admin" \in facts =>
                \A service \in SpaceReads : MayCall(auth, service, facts, read)
           /\ "write" \in facts /\ (auth = "bearer" \/ "csrf" \in facts) =>
                \A service \in SpaceWrites \ Uploads : MayCall(auth, service, facts, read)
           /\ "write" \in facts /\ (auth = "bearer" \/ "csrf" \in facts) =>
                \A service \in SpaceWrites : MayCall(auth, service, facts, TRUE)
           /\ "admin" \in facts /\ (auth = "bearer" \/ "csrf" \in facts) =>
                \A service \in SpaceSettings : MayCall(auth, service, facts, read)
<1>1. \A service \in SpaceReads : Needs(service) = Account \cup {"read"}
  BY ServicesApart DEF Needs
<1>2. \A service \in SpaceWrites : Needs(service) = Account \cup {"write"}
  BY ServicesApart DEF Needs
<1>3. \A service \in SpaceSettings : Needs(service) = Account \cup {"admin"}
  BY ServicesApart DEF Needs
<1>4. SpaceReads \cap Changing = {} /\ SpaceReads \cap Uploads = {}
      /\ SpaceSettings \cap Uploads = {}
  BY DEF SpaceReads, Changing, LibraryWrites, SpaceWrites, SpaceSettings, GroupWrites,
         AccountWrites, Uploads
<1>5. SpaceReads \cup SpaceWrites \cup SpaceSettings \subseteq Services
  BY DEF Services, Changing
<1> QED
  BY <1>1, <1>2, <1>3, <1>4, <1>5 DEF MayCall

LEMMA GroupServices ==
    ASSUME NEW auth, NEW facts, NEW read, Account \subseteq facts
    PROVE  /\ \A service \in UserReads : MayCall(auth, service, facts, read)
           /\ auth = "bearer" \/ "csrf" \in facts =>
                \A service \in GroupWrites \cup {"create_space"} :
                   MayCall(auth, service, facts, read)
<1>1. \A service \in UserReads \cup GroupWrites \cup {"create_space"} : Needs(service) = Account
  <2>1. ASSUME NEW service \in UserReads \cup GroupWrites \cup {"create_space"}
        PROVE  /\ service \notin LibraryReads /\ service \notin LibraryWrites
               /\ service \notin SpaceReads /\ service \notin SpaceWrites
               /\ service \notin SpaceSettings /\ service \notin StaffServices
               /\ service \notin {"logout", "setup_library", "register", "login"}
    BY DEF UserReads, GroupWrites, SpaceSettings, SpaceWrites, SpaceReads, LibraryReads,
           LibraryWrites, StaffServices
  <2> QED
    BY <2>1 DEF Needs
<1>2. /\ UserReads \cap Changing = {} /\ UserReads \cap Uploads = {}
      /\ GroupWrites \cap Uploads = {} /\ "create_space" \notin Uploads
  BY DEF UserReads, Changing, LibraryWrites, SpaceWrites, SpaceSettings, GroupWrites,
         AccountWrites, Uploads
<1>3. UserReads \cup GroupWrites \cup {"create_space"} \subseteq Services
  BY DEF Services, Changing
<1> QED
  BY <1>1, <1>2, <1>3 DEF MayCall

LEMMA AccountServices ==
    ASSUME NEW auth, NEW facts, NEW read, auth = "bearer" \/ "csrf" \in facts
    PROVE  /\ MayCall(auth, "register", facts, read)
           /\ MayCall(auth, "login", facts, read)
           /\ MayCall(auth, "logout", facts, read)
           /\ "session" \in facts => MayCall(auth, "setup_library", facts, read)
           /\ {"session", "staff"} \subseteq facts =>
                \A service \in StaffServices : MayCall(auth, service, facts, read)
<1>1. /\ Needs("register") = {} /\ Needs("login") = {} /\ Needs("logout") = {"session"}
      /\ Needs("setup_library") = {"session"}
  BY DEF Needs, SpaceSettings, SpaceWrites, SpaceReads, LibraryReads, LibraryWrites,
         StaffServices
<1>2. \A service \in StaffServices : Needs(service) = {"session", "staff"}
  BY DEF Needs, SpaceSettings, SpaceWrites, SpaceReads, LibraryReads, LibraryWrites,
         StaffServices
<1>3. AccountWrites \cap Uploads = {} /\ StaffServices \cap Uploads = {}
  BY DEF AccountWrites, StaffServices, Uploads
<1>4. AccountWrites \cup StaffServices \subseteq Services
      /\ AccountWrites = {"register", "login", "logout", "setup_library"}
  BY DEF Services, Changing, AccountWrites
<1> QED
  BY <1>1, <1>2, <1>3, <1>4 DEF MayCall

(***************************************************************************)
(* The handlers under /api.                                                *)
(***************************************************************************)
LEMMA Caps == Least(MaxUpload, HardCap) \in Nat /\ ChunkSize + 1 \in Nat /\ MaxUpload + 1 \in Nat
BY SizeAssumption DEF Least

LEMMA ApiCall ==
    ASSUME NEW guards, NEW facts, NEW read, NEW service,
           Made("bearer", guards, facts, read),
           MayCall("bearer", service, facts, read)
    PROVE  Fit(Api(guards \o Call(service, "refused")))
BY AddCall, ApiFit, AnswerNames

LEMMA ApiReread ==
    ASSUME NEW guards, NEW facts, NEW read, NEW service, NEW back \in Services,
           Made("bearer", guards, facts, read),
           MayCall("bearer", service, facts, read)
    PROVE  Fit(Api(guards \o Call(service, "refused") \o Reread(back)))
BY AddCall, AddReread, ApiFit, AnswerNames

LEMMA ApiLibrary ==
    /\ \A service \in LibraryReads \cup (LibraryWrites \ Uploads) :
          Fit(Api(LibraryUser \o Call(service, "refused")))
    /\ \A service \in LibraryWrites, cap \in Nat :
          Fit(Api(LibraryUser \o Body(cap) \o Call(service, "refused")))
<1>1. Made("bearer", LibraryUser, Account \cup {"library"}, FALSE)
  BY LibraryGuard, AnswerNames DEF LibraryUser
<1>2. ASSUME NEW service \in LibraryReads \cup (LibraryWrites \ Uploads)
      PROVE  MayCall("bearer", service, Account \cup {"library"}, FALSE)
  BY LibraryServices
<1>3. ASSUME NEW service \in LibraryWrites
      PROVE  MayCall("bearer", service, Account \cup {"library"}, TRUE)
  BY LibraryServices
<1>4. \A cap \in Nat :
         Made("bearer", LibraryUser \o Body(cap), Account \cup {"library"}, TRUE)
  BY <1>1, AddBody
<1> QED
  BY <1>1, <1>2, <1>3, <1>4, ApiCall

LEMMA ApiSpace ==
    /\ \A service \in SpaceReads : Fit(Api(SpaceReader \o Call(service, "refused")))
    /\ \A service \in SpaceWrites \ Uploads : Fit(Api(SpaceWriter \o Call(service, "refused")))
    /\ \A service \in SpaceWrites, cap \in Nat :
          Fit(Api(SpaceWriter \o Body(cap) \o Call(service, "refused")))
    /\ \A service \in SpaceSettings : Fit(Api(SpaceAdmin \o Call(service, "refused")))
    /\ Fit(Api(SpaceAdmin \o Call("update_space", "refused") \o Reread("get_space")))
    /\ Fit(Api(SpaceReader))
<1>1. /\ Made("bearer", SpaceReader, Account \cup {"read"}, FALSE)
      /\ Made("bearer", SpaceWriter, Account \cup {"write"}, FALSE)
      /\ Made("bearer", SpaceAdmin, Account \cup {"admin"}, FALSE)
  BY SpaceGuards
<1>2. \A service \in SpaceReads : MayCall("bearer", service, Account \cup {"read"}, FALSE)
  BY SpaceServices
<1>3. /\ \A service \in SpaceWrites \ Uploads :
            MayCall("bearer", service, Account \cup {"write"}, FALSE)
      /\ \A service \in SpaceWrites : MayCall("bearer", service, Account \cup {"write"}, TRUE)
  BY SpaceServices
<1>4. \A service \in SpaceSettings : MayCall("bearer", service, Account \cup {"admin"}, FALSE)
  BY SpaceServices
<1>5. \A cap \in Nat : Made("bearer", SpaceWriter \o Body(cap), Account \cup {"write"}, TRUE)
  BY <1>1, AddBody
<1>6. "update_space" \in SpaceSettings /\ "get_space" \in Services
  BY DEF SpaceSettings, Services, UserReads
<1>7. Fit(Api(SpaceAdmin \o Call("update_space", "refused") \o Reread("get_space")))
  BY <1>1, <1>4, <1>6, ApiReread
<1>8. Fit(Api(SpaceReader))
  BY <1>1, ApiFit
<1> QED
  BY <1>1, <1>2, <1>3, <1>4, <1>5, <1>7, <1>8, ApiCall

LEMMA ApiGroup ==
    /\ \A service \in UserReads \cup GroupWrites :
          Fit(Api(SetupComplete \o Call(service, "refused")))
    /\ \A service \in GroupWrites, back \in UserReads :
          Fit(Api(SetupComplete \o Call(service, "refused") \o Reread(back)))
    /\ Fit(Api(SetupComplete \o Validate("refused") \o Call("create_space", "refused")))
<1>1. Made("bearer", SetupComplete, Account, FALSE)
  BY SetupGuard
<1>2. \A service \in UserReads \cup GroupWrites \cup {"create_space"} :
         MayCall("bearer", service, Account, FALSE)
  BY GroupServices
<1>3. Made("bearer", SetupComplete \o Validate("refused"), Account, FALSE)
  BY <1>1, AddValidate, AnswerNames
<1>4. Fit(Api(SetupComplete \o Validate("refused") \o Call("create_space", "refused")))
  BY <1>2, <1>3, ApiCall
<1>5. \A service \in GroupWrites, back \in UserReads :
          Fit(Api(SetupComplete \o Call(service, "refused") \o Reread(back)))
  BY <1>1, <1>2, ApiReread DEF Services
<1> QED
  BY <1>1, <1>2, <1>4, <1>5, ApiCall

LEMMA ApiAccount ==
    /\ Fit(api_register) /\ Fit(api_login) /\ Fit(api_logout) /\ Fit(api_setup_library)
<1>1. \A facts, read : /\ MayCall("bearer", "register", facts, read)
                       /\ MayCall("bearer", "login", facts, read)
                       /\ MayCall("bearer", "logout", facts, read)
                       /\ "session" \in facts => MayCall("bearer", "setup_library", facts, read)
  BY AccountServices
<1>2. Fit(api_register) /\ Fit(api_login)
  BY <1>1, CallFirst, ApiFit, AnswerNames DEF api_register, api_login
<1>3. Made("bearer", AuthenticatedUser, {"session"}, FALSE)
  BY AskFirst, Names DEF AuthenticatedUser, Guard
<1>4. Fit(api_logout)
  BY <1>1, <1>3, ApiCall DEF api_logout
<1>5. Fit(api_setup_library)
  BY <1>1, <1>3, ApiCall DEF api_setup_library
<1> QED
  BY <1>2, <1>4, <1>5

LEMMA ApiIntegrity ==
    /\ Fit(acknowledge_event) /\ Fit(admin_list_events) /\ Fit(admin_scan)
<1>1. "refused" \in Answers
  BY AnswerNames
<1>2. Made("bearer", SetupComplete \o CsrfXhr, Account \cup {"csrf"}, FALSE)
  BY SetupGuard, AddGuard, Names DEF CsrfXhr
<1> DEFINE facts == Account \cup {"csrf"} \cup {"library"}
           guards == SetupComplete \o CsrfXhr \o require_library("refused")
<1>3. Made("bearer", guards, facts, FALSE)
  BY <1>1, <1>2, AddAsk, Names DEF require_library
<1>4. /\ MayCall("bearer", "list_events", facts, FALSE)
      /\ MayCall("bearer", "acknowledge_event", facts, FALSE)
  <2>1. /\ "list_events" \in LibraryReads /\ "acknowledge_event" \in LibraryWrites \ Uploads
        /\ Account \cup {"library"} \subseteq facts
    BY DEF LibraryReads, LibraryWrites, Uploads
  <2> QED
    BY <2>1, LibraryServices
<1> HIDE DEF facts, guards
<1>5. Made("bearer", guards \o Call("list_events", "refused"), facts, FALSE)
  BY <1>1, <1>3, <1>4, AddCall
<1>6. Made("bearer", guards \o Call("list_events", "refused") \o Validate("refused"),
           facts, FALSE)
  BY <1>1, <1>5, AddValidate
<1>7. Fit(acknowledge_event)
  BY <1>4, <1>6, ApiCall DEF acknowledge_event, guards
<1>8. Made("bearer", AdminUser \o Validate("refused"), {"session", "staff"}, FALSE)
  BY <1>1, StaffGuard, AddValidate
<1>9. Made("bearer", AdminUser \o CsrfXhr \o Validate("refused"),
            {"session", "staff"} \cup {"csrf"}, FALSE)
  BY <1>1, StaffGuard, AddGuard, AddValidate, Names DEF CsrfXhr
<1>10. /\ MayCall("bearer", "admin list_events", {"session", "staff"}, FALSE)
       /\ MayCall("bearer", "scan", {"session", "staff"} \cup {"csrf"}, FALSE)
  BY AccountServices DEF StaffServices
<1> QED
  BY <1>7, <1>8, <1>9, <1>10, ApiCall DEF admin_list_events, admin_scan

LEMMA ApiFits == \A h \in ApiHandlers : Fit(h)
<1>1. /\ Fit(library_list) /\ Fit(library_mkdir) /\ Fit(library_download)
      /\ Fit(library_delete) /\ Fit(library_rename) /\ Fit(library_info) /\ Fit(library_usage)
  BY ApiLibrary
     DEF LibraryReads, LibraryWrites, Uploads, library_list, library_mkdir, library_download,
         library_delete, library_rename, library_info, library_usage
<1>2. /\ Fit(library_chunked_init_upload) /\ Fit(library_chunked_complete_upload)
      /\ Fit(library_chunked_cancel_upload) /\ Fit(library_chunked_init_download)
      /\ Fit(list_events) /\ Fit(notifications)
  BY ApiLibrary
     DEF LibraryReads, LibraryWrites, Uploads, library_chunked_init_upload,
         library_chunked_complete_upload, library_chunked_cancel_upload,
         library_chunked_init_download, list_events, notifications
<1>3. Fit(library_upload) /\ Fit(library_chunked_receive_chunk)
  BY ApiLibrary, Caps DEF LibraryWrites, library_upload, library_chunked_receive_chunk
<1>4. /\ Fit(space_list_files) /\ Fit(space_download) /\ Fit(space_file_info)
      /\ Fit(space_file_usage) /\ Fit(list_access) /\ Fit(get_space)
  BY ApiSpace
     DEF SpaceReads, space_list_files, space_download, space_file_info, space_file_usage,
         list_access, get_space
<1>5. /\ Fit(space_mkdir) /\ Fit(space_delete_file) /\ Fit(space_rename_file)
      /\ Fit(space_upload)
  BY ApiSpace, Caps
     DEF SpaceWrites, Uploads, space_mkdir, space_delete_file, space_rename_file, space_upload
<1>6. /\ Fit(api_update_space) /\ Fit(api_delete_space) /\ Fit(api_grant_user_access)
      /\ Fit(api_grant_group_access) /\ Fit(api_update_access) /\ Fit(api_revoke_access)
  BY ApiSpace
     DEF SpaceSettings, api_update_space, api_delete_space, api_grant_user_access,
         api_grant_group_access, api_update_access, api_revoke_access
<1>7. /\ Fit(api_create_group) /\ Fit(list_groups) /\ Fit(get_group) /\ Fit(api_delete_group)
      /\ Fit(list_members) /\ Fit(api_remove_member)
  BY ApiGroup
     DEF UserReads, GroupWrites, api_create_group, list_groups, get_group, api_delete_group,
         list_members, api_remove_member
<1>8. /\ Fit(api_update_group) /\ Fit(api_add_member) /\ Fit(api_update_member_role)
  BY ApiGroup
     DEF GroupWrites, UserReads, api_update_group, api_add_member, api_update_member_role
<1>9. /\ Fit(api_create_space) /\ Fit(list_spaces) /\ Fit(library_chunked_download_chunk)
  BY ApiGroup DEF UserReads, api_create_space, list_spaces, library_chunked_download_chunk
<1> QED
  BY <1>1, <1>2, <1>3, <1>4, <1>5, <1>6, <1>7, <1>8, <1>9, ApiAccount, ApiIntegrity
     DEF ApiHandlers

(***************************************************************************)
(* The handlers of the pages.                                              *)
(***************************************************************************)
LEMMA PageCall ==
    ASSUME NEW guards, NEW facts, NEW read, NEW service, NEW no \in Answers,
           NEW last \in Answers, Made("cookie", guards, facts, read),
           MayCall("cookie", service, facts, read)
    PROVE  Fit(Page(guards \o Call(service, no), last))
BY AddCall, PageFit

LEMMA PageTry ==
    ASSUME NEW guards, NEW facts, NEW read, NEW service, NEW last \in Answers,
           Made("cookie", guards, facts, read),
           MayCall("cookie", service, facts, read)
    PROVE  Fit(Page(guards \o Try(service), last))
BY AddTry, PageFit

LEMMA PageSweep ==
    ASSUME NEW guards, NEW facts, NEW read, NEW service, NEW last \in Answers,
           Made("cookie", guards, facts, read),
           MayCall("cookie", service, facts, read)
    PROVE  Fit(Page(guards \o Sweep(service), last))
BY AddSweep, PageFit

LEMMA PageAccount ==
    /\ Fit(index) /\ Fit(login_page) /\ Fit(login_submit) /\ Fit(register_page)
    /\ Fit(register_submit) /\ Fit(logout_submit) /\ Fit(setup_page) /\ Fit(setup_submit)
<1>1. {"refused", "done", "index", "login_page", "register_page", "setup_page",
       "files_page"} \subseteq Answers
  BY AnswerNames
<1>2. {"session", "stranger", "csrf", "set_up", "not_set_up"} \subseteq FactNames
  BY Names
<1>3. Fit(index)
  <2>1. Made("cookie", Ask("session", "login_page"), {"session"}, FALSE)
    BY <1>1, <1>2, AskFirst
  <2> QED
    BY <1>1, <1>2, <2>1, AddAsk, PageFit DEF index
<1>4. Fit(login_page) /\ Fit(register_page)
  <2>1. Made("cookie", Ask("stranger", "index"), {"stranger"}, FALSE)
    BY <1>1, <1>2, AskFirst
  <2> QED
    BY <1>1, <2>1, PageFit DEF login_page, register_page
<1>5. \A no \in Answers : Made("cookie", validate_csrf(no), {"csrf"}, FALSE)
  BY <1>2, AskFirst DEF validate_csrf
<1>6. \A no \in Answers :
         Made("cookie", validate_csrf(no) \o Validate(no), {"csrf"}, FALSE)
  BY <1>5, AddValidate
<1>7. /\ MayCall("cookie", "login", {"csrf"}, FALSE)
      /\ MayCall("cookie", "register", {"csrf"}, FALSE)
      /\ MayCall("cookie", "logout", {"csrf"}, FALSE)
  BY AccountServices
<1>8. Fit(login_submit)
  <2>1. Made("cookie", validate_csrf("login_page") \o Validate("login_page")
                         \o Call("login", "login_page"), {"csrf"}, FALSE)
    BY <1>1, <1>6, <1>7, AddCall
  <2> QED
    BY <1>1, <1>2, <2>1, AddAsk, PageFit DEF login_submit
<1>9. Fit(register_submit)
  BY <1>1, <1>6, <1>7, PageCall DEF register_submit
<1>10. Fit(logout_submit)
  BY <1>1, <1>5, <1>7, PageTry DEF logout_submit
<1>11. Made("cookie", SessionUser, {"session"}, FALSE)
  BY <1>1, <1>2, AskFirst DEF SessionUser, Guard
<1>12. Fit(setup_page)
  BY <1>1, <1>2, <1>11, AddAsk, PageFit DEF setup_page
<1>13. Fit(setup_submit)
  <2>1. Made("cookie", SessionUser \o validate_csrf("setup_page"), {"session"} \cup {"csrf"},
             FALSE)
    BY <1>1, <1>11, AddForm
  <2>2. Made("cookie", SessionUser \o validate_csrf("setup_page")
                         \o Ask("not_set_up", "files_page"),
             {"session"} \cup {"csrf"} \cup {"not_set_up"}, FALSE)
    BY <1>1, <1>2, <2>1, AddAsk
  <2>3. MayCall("cookie", "setup_library", {"session"} \cup {"csrf"} \cup {"not_set_up"}, FALSE)
    BY AccountServices
  <2> QED
    BY <1>1, <2>2, <2>3, PageCall DEF setup_submit
<1> QED
  BY <1>3, <1>4, <1>8, <1>9, <1>10, <1>12, <1>13

LEMMA PageLibrary ==
    /\ \A service \in LibraryReads, no \in Answers :
          /\ Fit(Page(SessionSetupComplete \o require_library(no) \o Try(service), "done"))
          /\ Fit(Page(SessionSetupComplete \o require_library(no) \o Call(service, no), "done"))
    /\ \A service \in LibraryWrites \ Uploads :
          /\ Fit(Page(FormOnLibrary \o Call(service, "files_page"), "files_page"))
          /\ Fit(Page(FormOnLibrary \o Validate("files_page") \o Call(service, "files_page"),
                      "files_page"))
          /\ Fit(Page(XhrLibraryUser \o Call(service, "refused"), "done"))
          /\ Fit(Page(XhrLibraryUser \o Validate("refused") \o Sweep(service), "done"))
    /\ \A service \in LibraryWrites, cap \in Nat :
          Fit(Page(XhrLibraryUser \o Body(cap) \o Call(service, "refused"), "done"))
<1>1. {"refused", "done", "files_page"} \subseteq Answers
  BY AnswerNames
<1>2. \A service \in LibraryReads :
         MayCall("cookie", service, Account \cup {"library"}, FALSE)
  BY LibraryServices
<1>3. \A no \in Answers : Made("cookie", SessionSetupComplete \o require_library(no),
                               Account \cup {"library"}, FALSE)
  BY LibraryGuard
<1>4. ASSUME NEW service \in LibraryReads, NEW no \in Answers
      PROVE  /\ Fit(Page(SessionSetupComplete \o require_library(no) \o Try(service), "done"))
             /\ Fit(Page(SessionSetupComplete \o require_library(no) \o Call(service, no),
                         "done"))
  BY <1>1, <1>2, <1>3, PageCall, PageTry
<1> DEFINE form == Account \cup {"csrf"} \cup {"library"}
           xhr == Account \cup {"csrf", "library"}
<1>5. /\ \A service \in LibraryWrites \ Uploads : MayCall("cookie", service, form, FALSE)
      /\ \A service \in LibraryWrites \ Uploads : MayCall("cookie", service, xhr, FALSE)
      /\ \A service \in LibraryWrites : MayCall("cookie", service, xhr, TRUE)
  BY LibraryServices
<1>6. /\ Made("cookie", FormOnLibrary, form, FALSE)
      /\ Made("cookie", XhrLibraryUser, xhr, FALSE)
  BY FormGuards, XhrGuards
<1> HIDE DEF form, xhr
<1>7. /\ Made("cookie", FormOnLibrary \o Validate("files_page"), form, FALSE)
      /\ Made("cookie", XhrLibraryUser \o Validate("refused"), xhr, FALSE)
      /\ \A cap \in Nat : Made("cookie", XhrLibraryUser \o Body(cap), xhr, TRUE)
  BY <1>1, <1>6, AddValidate, AddBody
<1>8. ASSUME NEW service \in LibraryWrites \ Uploads
      PROVE  /\ Fit(Page(FormOnLibrary \o Call(service, "files_page"), "files_page"))
             /\ Fit(Page(FormOnLibrary \o Validate("files_page") \o Call(service, "files_page"),
                         "files_page"))
             /\ Fit(Page(XhrLibraryUser \o Call(service, "refused"), "done"))
             /\ Fit(Page(XhrLibraryUser \o Validate("refused") \o Sweep(service), "done"))
  BY <1>1, <1>5, <1>6, <1>7, PageCall, PageSweep
<1>9. ASSUME NEW service \in LibraryWrites, NEW cap \in Nat
      PROVE  Fit(Page(XhrLibraryUser \o Body(cap) \o Call(service, "refused"), "done"))
  BY <1>1, <1>5, <1>7, PageCall
<1> QED
  BY <1>4, <1>8, <1>9

LEMMA PageGroup ==
    /\ \A service \in UserReads, no \in Answers :
          /\ Fit(Page(SessionSetupComplete \o Try(service), "done"))
          /\ Fit(Page(SessionSetupComplete \o Validate(no) \o Try(service), "done"))
          /\ Fit(Page(SessionSetupComplete \o Call(service, no), "done"))
    /\ \A service \in GroupWrites \cup {"create_space"}, no \in Answers, last \in Answers :
          Fit(Page(SessionSetupComplete \o validate_csrf(no) \o Call(service, no), last))
    /\ \A service \in GroupWrites : Fit(Page(FormOnGroup \o Call(service, "group_detail_page"),
                                            "group_detail_page"))
    /\ Fit(group_detail_page) /\ Fit(settings_page)
<1>1. {"refused", "done", "groups_page", "group_detail_page"} \subseteq Answers
  BY AnswerNames
<1>2. Made("cookie", SessionSetupComplete, Account, FALSE)
  BY SetupGuard
<1>3. \A no \in Answers :
         Made("cookie", SessionSetupComplete \o Validate(no), Account, FALSE)
  BY <1>2, AddValidate
<1>4. \A service \in UserReads : MayCall("cookie", service, Account, FALSE)
  BY GroupServices
<1>5. ASSUME NEW service \in UserReads, NEW no \in Answers
      PROVE  /\ Fit(Page(SessionSetupComplete \o Try(service), "done"))
             /\ Fit(Page(SessionSetupComplete \o Validate(no) \o Try(service), "done"))
             /\ Fit(Page(SessionSetupComplete \o Call(service, no), "done"))
  BY <1>1, <1>2, <1>3, <1>4, PageCall, PageTry
<1>6. \A no \in Answers : Made("cookie", SessionSetupComplete \o validate_csrf(no),
                               Account \cup {"csrf"}, FALSE)
  BY <1>2, AddForm
<1>7. \A service \in GroupWrites \cup {"create_space"} :
         MayCall("cookie", service, Account \cup {"csrf"}, FALSE)
  BY GroupServices
<1>8. ASSUME NEW service \in GroupWrites \cup {"create_space"}, NEW no \in Answers,
             NEW last \in Answers
      PROVE  Fit(Page(SessionSetupComplete \o validate_csrf(no) \o Call(service, no), last))
  BY <1>6, <1>7, PageCall
<1>9. \A service \in GroupWrites : Fit(Page(FormOnGroup \o Call(service, "group_detail_page"),
                                           "group_detail_page"))
  BY <1>1, <1>8 DEF FormOnGroup
<1>10. Fit(group_detail_page)
  <2>1. "get_group" \in UserReads /\ "list_members" \in UserReads
    BY DEF UserReads
  <2>2. Made("cookie", SessionSetupComplete \o Call("get_group", "groups_page"), Account, FALSE)
    BY <1>1, <1>2, <1>4, <2>1, AddCall
  <2> QED
    BY <1>1, <1>4, <2>1, <2>2, PageTry DEF group_detail_page
<1>11. Fit(settings_page)
  BY <1>1, <1>2, PageFit DEF settings_page
<1> QED
  BY <1>5, <1>8, <1>9, <1>10, <1>11

LEMMA PageSpace ==
    /\ \A service \in SpaceReads, no \in Answers :
          /\ Fit(Page(SessionSpaceReader \o Try(service), "done"))
          /\ Fit(Page(SessionSpaceReader \o Call(service, no), "done"))
          /\ Fit(Page(SessionSpaceAdmin \o Try(service), "done"))
    /\ Fit(space_chunked_download_chunk)
    /\ \A service \in SpaceSettings, last \in Answers :
          /\ Fit(Page(FormOnSettings \o Call(service, "space_settings_page"), last))
          /\ Fit(Page(FormOnSettings \o Validate("space_settings_page")
                        \o Call(service, "space_settings_page"), last))
    /\ \A service \in SpaceWrites \ Uploads :
          /\ Fit(Page(FormOnSpace \o Call(service, "space_browser_page"),
                      "space_browser_page"))
          /\ Fit(Page(FormOnSpace \o Validate("space_browser_page")
                        \o Call(service, "space_browser_page"), "space_browser_page"))
          /\ Fit(Page(XhrSpaceWriter \o Call(service, "refused"), "done"))
          /\ Fit(Page(XhrSpaceWriter \o Sweep(service), "done"))
    /\ \A service \in SpaceWrites, cap \in Nat :
          Fit(Page(XhrSpaceWriter \o Body(cap) \o Call(service, "refused"), "done"))
<1>1. {"refused", "done", "space_browser_page", "space_settings_page"} \subseteq Answers
  BY AnswerNames
<1> DEFINE settings == Account \cup {"admin"} \cup {"csrf"}
           form == Account \cup {"write"} \cup {"csrf"}
           xhr == Account \cup {"csrf", "write"}
           reader == Account \cup {"read"}
           admin == Account \cup {"admin"}
<1>2. /\ Made("cookie", SessionSpaceReader, reader, FALSE)
      /\ Made("cookie", SessionSpaceAdmin, admin, FALSE)
      /\ Made("cookie", FormOnSettings, settings, FALSE)
      /\ Made("cookie", FormOnSpace, form, FALSE)
      /\ Made("cookie", XhrSpaceWriter, xhr, FALSE)
  BY SpaceGuards, FormGuards, XhrGuards
<1>3. /\ \A service \in SpaceReads : MayCall("cookie", service, reader, FALSE)
      /\ \A service \in SpaceReads : MayCall("cookie", service, admin, FALSE)
      /\ MayCall("cookie", "serve_chunk", reader, FALSE)
  BY SpaceServices, GroupServices DEF UserReads
<1>4. \A service \in SpaceSettings : MayCall("cookie", service, settings, FALSE)
  BY SpaceServices
<1>5. /\ \A service \in SpaceWrites \ Uploads : MayCall("cookie", service, form, FALSE)
      /\ \A service \in SpaceWrites \ Uploads : MayCall("cookie", service, xhr, FALSE)
      /\ \A service \in SpaceWrites : MayCall("cookie", service, xhr, TRUE)
  BY SpaceServices
<1> HIDE DEF settings, form, xhr, reader, admin
<1>6. /\ Made("cookie", FormOnSettings \o Validate("space_settings_page"), settings, FALSE)
      /\ Made("cookie", FormOnSpace \o Validate("space_browser_page"), form, FALSE)
      /\ \A cap \in Nat : Made("cookie", XhrSpaceWriter \o Body(cap), xhr, TRUE)
  BY <1>1, <1>2, AddValidate, AddBody
<1>7. ASSUME NEW service \in SpaceReads, NEW no \in Answers
      PROVE  /\ Fit(Page(SessionSpaceReader \o Try(service), "done"))
             /\ Fit(Page(SessionSpaceReader \o Call(service, no), "done"))
             /\ Fit(Page(SessionSpaceAdmin \o Try(service), "done"))
  BY <1>1, <1>2, <1>3, PageCall, PageTry
<1>8. Fit(space_chunked_download_chunk)
  BY <1>1, <1>2, <1>3, PageCall DEF space_chunked_download_chunk
<1>9. ASSUME NEW service \in SpaceSettings, NEW last \in Answers
      PROVE  /\ Fit(Page(FormOnSettings \o Call(service, "space_settings_page"), last))
             /\ Fit(Page(FormOnSettings \o Validate("space_settings_page")
                           \o Call(service, "space_settings_page"), last))
  BY <1>1, <1>2, <1>4, <1>6, PageCall
<1>10. ASSUME NEW service \in SpaceWrites \ Uploads
       PROVE  /\ Fit(Page(FormOnSpace \o Call(service, "space_browser_page"),
                          "space_browser_page"))
              /\ Fit(Page(FormOnSpace \o Validate("space_browser_page")
                            \o Call(service, "space_browser_page"), "space_browser_page"))
              /\ Fit(Page(XhrSpaceWriter \o Call(service, "refused"), "done"))
              /\ Fit(Page(XhrSpaceWriter \o Sweep(service), "done"))
  BY <1>1, <1>2, <1>5, <1>6, PageCall, PageSweep
<1>11. ASSUME NEW service \in SpaceWrites, NEW cap \in Nat
       PROVE  Fit(Page(XhrSpaceWriter \o Body(cap) \o Call(service, "refused"), "done"))
  BY <1>1, <1>5, <1>6, PageCall
<1> QED
  BY <1>7, <1>8, <1>9, <1>10, <1>11

LEMMA PageFits == \A h \in PageHandlers : Fit(h)
<1>1. {"refused", "done", "setup_page", "files_page", "groups_page", "group_detail_page",
       "spaces_page", "space_browser_page", "space_settings_page"} \subseteq Answers
  BY AnswerNames
<1>2. /\ Fit(files_page) /\ Fit(files_partial) /\ Fit(files_folders) /\ Fit(usage_sidebar)
      /\ Fit(usage_page) /\ Fit(download_file) /\ Fit(chunked_init_download)
  BY <1>1, PageLibrary
     DEF LibraryReads, files_page, files_partial, files_folders, usage_sidebar, usage_page,
         download_file, chunked_init_download
<1>3. /\ Fit(mkdir_submit) /\ Fit(rename_submit) /\ Fit(move_submit) /\ Fit(delete_submit)
      /\ Fit(bulk_delete) /\ Fit(bulk_move)
  BY PageLibrary
     DEF LibraryWrites, Uploads, mkdir_submit, rename_submit, move_submit, delete_submit,
         bulk_delete, bulk_move
<1>4. /\ Fit(chunked_init_upload) /\ Fit(chunked_complete_upload) /\ Fit(chunked_cancel_upload)
  BY PageLibrary
     DEF LibraryWrites, Uploads, chunked_init_upload, chunked_complete_upload,
         chunked_cancel_upload
<1>5. Fit(upload_file) /\ Fit(chunked_receive_chunk)
  BY PageLibrary, Caps DEF LibraryWrites, upload_file, chunked_receive_chunk
<1>6. /\ Fit(groups_page) /\ Fit(spaces_page) /\ Fit(search_grantees)
      /\ Fit(chunked_download_chunk)
  BY <1>1, PageGroup
     DEF UserReads, groups_page, spaces_page, search_grantees, chunked_download_chunk
<1>7. /\ Fit(groups_create_submit) /\ Fit(group_delete_submit) /\ Fit(spaces_create_submit)
  BY <1>1, PageGroup
     DEF GroupWrites, groups_create_submit, group_delete_submit, spaces_create_submit
<1>8. /\ Fit(group_edit_submit) /\ Fit(group_add_member_submit)
      /\ Fit(group_remove_member_submit) /\ Fit(group_update_member_role_submit)
  BY PageGroup
     DEF GroupWrites, group_edit_submit, group_add_member_submit, group_remove_member_submit,
         group_update_member_role_submit
<1>9. /\ Fit(space_browser_page) /\ Fit(space_browser_partial) /\ Fit(space_folders)
      /\ Fit(space_settings_page) /\ Fit(space_download_file)
      /\ Fit(space_chunked_init_download)
  BY <1>1, PageSpace
     DEF SpaceReads, space_browser_page, space_browser_partial, space_folders,
         space_settings_page, space_download_file, space_chunked_init_download
<1>10. /\ Fit(space_rename_submit) /\ Fit(space_delete_submit)
       /\ Fit(space_grant_access_submit) /\ Fit(space_update_access_submit)
       /\ Fit(space_revoke_access_submit)
  BY <1>1, PageSpace
     DEF SpaceSettings, space_rename_submit, space_delete_submit, space_grant_access_submit,
         space_update_access_submit, space_revoke_access_submit
<1>11. /\ Fit(space_mkdir_submit) /\ Fit(space_rename_entry_submit)
       /\ Fit(space_move_entry_submit) /\ Fit(space_delete_entry_submit)
       /\ Fit(space_bulk_delete) /\ Fit(space_bulk_move)
  BY PageSpace
     DEF SpaceWrites, Uploads, space_mkdir_submit, space_rename_entry_submit,
         space_move_entry_submit, space_delete_entry_submit, space_bulk_delete,
         space_bulk_move
<1>12. /\ Fit(space_chunked_init_upload) /\ Fit(space_chunked_complete_upload)
       /\ Fit(space_chunked_cancel_upload)
  BY PageSpace
     DEF SpaceWrites, Uploads, space_chunked_init_upload, space_chunked_complete_upload,
         space_chunked_cancel_upload
<1>13. Fit(space_upload_file) /\ Fit(space_chunked_receive_chunk)
  BY PageSpace, Caps DEF SpaceWrites, space_upload_file, space_chunked_receive_chunk
<1> QED
  BY <1>2, <1>3, <1>4, <1>5, <1>6, <1>7, <1>8, <1>9, <1>10, <1>11, <1>12, <1>13,
     PageAccount, PageGroup, PageSpace
     DEF PageHandlers

LEMMA AllFit == \A h \in Handlers : Fit(h)
BY ApiFits, PageFits DEF Handlers

(***************************************************************************)
(* The execution: what a request q has found.                              *)
(***************************************************************************)
Requests ==
    [h : Handlers, at : Nat, cred : {"cookie", "bearer", "none"}, csrf : BOOLEAN,
     body : Nat, got : Nat, seen : SUBSET FactNames, did : Services \cup {None},
     mid : BOOLEAN, answer : Answers \cup {None}]

InTable(q) ==
    /\ q \in Requests
    /\ q.at \in 1..Len(q.h.steps) + 1
    /\ q.body \in 0..MaxBody /\ q.got \in 0..q.body

\* The steps behind a request found what they asked for and read to the end.
Passed(q) ==
    \A k \in 1..q.at - 1 :
       /\ q.h.steps[k].do = "ask" => q.h.steps[k].arg \in q.seen
       /\ q.h.steps[k].do = "body" => q.got = q.body

\* A token is sent along or not, and who may administer a space may read it.
Coherent(q) ==
    /\ "csrf" \in q.seen => q.csrf
    /\ "admin" \in q.seen => "read" \in q.seen

\* A service that has run is called at the request's step or before it.
Did(q) ==
    /\ q.did # None => \E k \in 1..Len(q.h.steps) : /\ k <= q.at
                                                    /\ q.h.steps[k].do \in {"call", "try"}
                                                    /\ q.h.steps[k].arg = q.did
    /\ q.did = "logout" => "session" \in q.seen

\* Between the statements of setup_library.
Halfway(q) ==
    q.mid => /\ q.at <= Len(q.h.steps) /\ q.answer = None
             /\ q.h.steps[q.at].do = "call" /\ q.h.steps[q.at].arg = "setup_library"

Found(q) == InTable(q) /\ Passed(q) /\ Coherent(q) /\ Did(q) /\ Halfway(q)

WorldOK ==
    /\ live \in BOOLEAN /\ set_up \in BOOLEAN /\ staff \in BOOLEAN
    /\ lib \in {"none", "here", "there"} /\ rank \in 0..3
    /\ changes \in 0..MaxChanges

RunInv == WorldOK /\ (run # None => Found(run))

LEMMA OfHandler ==
    ASSUME NEW h \in Handlers
    PROVE  /\ h.auth \in {"cookie", "bearer"} /\ h.last \in Answers
           /\ Len(h.steps) \in Nat
           /\ \A k \in 1..Len(h.steps) : h.steps[k] \in Steps /\ StepSound(h.auth, h.steps, k)
BY AllFit DEF Fit

LEMMA NoAnswer == None \notin Answers /\ None \notin Services
BY NoneAssumption DEF Answers

\* The same request, some steps later.
Later(q, p) ==
    /\ p \in Requests /\ p.h = q.h /\ p.csrf = q.csrf /\ p.body = q.body
    /\ q.seen \subseteq p.seen /\ Coherent(p)
    /\ p.got \in 0..p.body /\ p.mid = FALSE

\* The step at which a request is, and how it goes on to p after it.
StepOf(q) == q.h.steps[q.at]
Onward(q, p) ==
    /\ p.at = q.at + 1 /\ p.answer = None
    /\ StepOf(q).do = "ask" => StepOf(q).arg \in p.seen
    /\ IF StepOf(q).do = "body" THEN p.got = p.body ELSE p.got = q.got
    /\ p.did = q.did \/ (StepOf(q).do \in {"call", "try"} /\ p.did = StepOf(q).arg)
    /\ p.did = "logout" => "session" \in p.seen

LEMMA OnwardFound ==
    ASSUME NEW q, NEW p, Found(q), Later(q, p), q.at <= Len(q.h.steps), Onward(q, p)
    PROVE  Found(p)
<1> DEFINE s == q.h.steps
           k == q.at
<1>1. /\ q.h \in Handlers /\ k \in 1..Len(s) /\ Len(s) \in Nat /\ k \in Nat
      /\ p.h.steps = s /\ p.at = k + 1
  BY OfHandler DEF Found, InTable, Requests, Later, Onward
<1>2. StepOf(q) = s[k]
  BY DEF StepOf
<1>3. InTable(p)
  <2>1. p \in Requests /\ p.body \in 0..MaxBody /\ p.got \in 0..p.body
    BY DEF Found, InTable, Later
  <2>2. p.at \in 1..Len(p.h.steps) + 1
    BY <1>1
  <2> QED
    BY <2>1, <2>2 DEF InTable
<1>4. \A j \in 1..p.at - 1 : j \in 1..q.at - 1 \/ j = k
  BY <1>1
<1>5. k \in 1..p.at - 1 /\ \A j \in 1..q.at - 1 : j \in 1..p.at - 1
  BY <1>1
<1>6. Passed(p)
  <2> SUFFICES ASSUME NEW j \in 1..p.at - 1
               PROVE  /\ s[j].do = "ask" => s[j].arg \in p.seen
                      /\ s[j].do = "body" => p.got = p.body
    BY <1>1 DEF Passed
  <2>1. CASE j = k
    BY <1>2, <2>1 DEF Onward
  <2>2. CASE j \in 1..q.at - 1
    <3>1. /\ s[j].do = "ask" => s[j].arg \in p.seen
          /\ s[j].do = "body" => q.got = q.body
      BY <2>2 DEF Found, Passed, Later
    <3>2. p.body = q.body /\ (s[k].do = "body" => p.got = p.body)
          /\ (s[k].do # "body" => p.got = q.got)
      BY <1>2 DEF Onward, Later
    <3> QED
      BY <3>1, <3>2
  <2> QED
    BY <1>4, <2>1, <2>2
<1>7. Did(p)
  <2>1. ASSUME p.did # None
        PROVE  \E j \in 1..Len(s) : j <= p.at /\ s[j].do \in {"call", "try"} /\ s[j].arg = p.did
    <3>1. CASE p.did = q.did
      <4>1. PICK j \in 1..Len(s) : j <= q.at /\ s[j].do \in {"call", "try"} /\ s[j].arg = p.did
        BY <2>1, <3>1 DEF Found, Did
      <4>2. j <= p.at
        BY <1>1, <4>1
      <4> QED
        BY <4>1, <4>2
    <3>2. CASE s[k].do \in {"call", "try"} /\ p.did = s[k].arg
      <4>1. k <= p.at
        BY <1>1
      <4> QED
        BY <1>1, <3>2, <4>1
    <3> QED
      BY <1>2, <3>1, <3>2 DEF Onward
  <2> QED
    BY <1>1, <2>1 DEF Did, Onward
<1>8. Coherent(p) /\ Halfway(p)
  BY DEF Later, Halfway
<1> QED
  BY <1>3, <1>6, <1>7, <1>8 DEF Found

\* It is answered where it is: a body that was cut off is no longer needed,
\* and a service that reports an error may have run.
Ending(q, p) ==
    /\ p.at = q.at /\ p.answer \in Answers
    /\ \/ p.got = q.got
       \/ q.at <= Len(q.h.steps) /\ StepOf(q).do = "body"
    /\ \/ p.did = q.did
       \/ q.at <= Len(q.h.steps) /\ StepOf(q).do = "call" /\ p.did = StepOf(q).arg
    /\ p.did = "logout" => "session" \in p.seen

LEMMA EndingFound ==
    ASSUME NEW q, NEW p, Found(q), Later(q, p), Ending(q, p)
    PROVE  Found(p)
<1>1. InTable(p)
  BY DEF Found, InTable, Later, Ending
<1>2. Passed(p)
  <2>1. CASE p.got = q.got
    BY <2>1 DEF Found, Passed, Later, Ending
  <2>2. CASE q.at <= Len(q.h.steps) /\ StepOf(q).do = "body"
    <3>1. q.h \in Handlers /\ q.at \in 1..Len(q.h.steps)
      BY <2>2, OfHandler DEF Found, InTable, Requests
    <3>2. ~Reads(q.h.steps, q.at)
      BY <2>2, <3>1, OfHandler DEF StepSound, StepOf
    <3> QED
      BY <3>2 DEF Found, Passed, Later, Ending, Reads
  <2> QED
    BY <2>1, <2>2 DEF Ending
<1>3. Did(p)
  <2>1. CASE p.did = q.did
    BY <2>1 DEF Found, Did, Later, Ending
  <2>2. CASE q.at <= Len(q.h.steps) /\ StepOf(q).do = "call" /\ p.did = StepOf(q).arg
    <3>1. q.at \in 1..Len(q.h.steps) /\ q.at <= q.at
      BY <2>2, OfHandler DEF Found, InTable, Requests
    <3> QED
      BY <2>2, <3>1 DEF Did, Later, Ending, StepOf
  <2> QED
    BY <2>1, <2>2 DEF Ending
<1>4. Coherent(p) /\ Halfway(p)
  BY DEF Later, Halfway
<1> QED
  BY <1>1, <1>2, <1>3, <1>4 DEF Found

(***************************************************************************)
(* The facts a request finds, and what it keeps of them.                   *)
(***************************************************************************)
LEMMA FactsFound ==
    ASSUME NEW q, NEW w
    PROVE  /\ Facts(q, w) \subseteq FactNames
           /\ Signed(q, w) => "session" \in Facts(q, w)
           /\ "csrf" \in Facts(q, w) => q.csrf
           /\ "admin" \in Facts(q, w) => w.rank >= 3
           /\ w.rank >= 1 => "read" \in Facts(q, w)
BY DEF Facts, FactNames

LEMMA SameFacts ==
    ASSUME NEW q, NEW p, p.h = q.h, p.cred = q.cred, p.csrf = q.csrf, NEW w
    PROVE  Facts(p, w) = Facts(q, w)
BY DEF Facts, Signed

\* p is q, having noticed what is true before and after a step.
Noticed(q, p) ==
    /\ p \in Requests /\ Coherent(p)
    /\ p.h = q.h /\ p.at = q.at /\ p.cred = q.cred /\ p.csrf = q.csrf
    /\ p.body = q.body /\ p.got = q.got /\ p.did = q.did /\ p.mid = q.mid
    /\ p.answer = q.answer
    /\ q.seen \subseteq p.seen
    /\ Facts(q, World) \subseteq p.seen /\ Facts(q, World') \subseteq p.seen

LEMMA Notices ==
    ASSUME NEW q \in Requests, Coherent(q), WorldOK, WorldOK'
    PROVE  Noticed(q, Notice(q))
<1> DEFINE found == Facts(q, World) \cup Facts(q, World')
           p == [q EXCEPT !.seen = @ \cup found]
<1>1. World.rank = rank /\ World'.rank = rank' /\ rank \in 0..3 /\ rank' \in 0..3
  BY DEF World, WorldOK
<1>2. /\ found \subseteq FactNames
      /\ "csrf" \in found => q.csrf
      /\ "admin" \in found => "read" \in found
  BY <1>1, FactsFound
<1>3. Facts(q, World) \subseteq found /\ Facts(q, World') \subseteq found
  OBVIOUS
<1>4. Notice(q) = p
  BY DEF Notice
<1> HIDE DEF found
<1>5. /\ p \in Requests
      /\ p.h = q.h /\ p.at = q.at /\ p.cred = q.cred /\ p.csrf = q.csrf
      /\ p.body = q.body /\ p.got = q.got /\ p.did = q.did /\ p.mid = q.mid
      /\ p.answer = q.answer
      /\ p.seen = q.seen \cup found
  BY <1>2 DEF Requests
<1> HIDE DEF p
<1>6. Coherent(p)
  BY <1>2, <1>5 DEF Coherent
<1> QED
  BY <1>3, <1>4, <1>5, <1>6 DEF Noticed

\* Nothing else takes the world out of its types.
LEMMA EffectOK ==
    ASSUME WorldOK, NEW service, Effect(service)
    PROVE  /\ live' \in BOOLEAN /\ set_up' = set_up /\ lib' = lib /\ staff' = staff
           /\ rank' \in 0..3
<1>1. live' \in BOOLEAN /\ set_up' = set_up /\ lib' = lib /\ staff' = staff
  BY DEF Effect, WorldOK
<1>2. CASE service \in {"delete_space", "delete_group"}
  <2>1. rank' \in {0}
    BY <1>2 DEF Effect
  <2> QED
    BY <1>1, <2>1
<1>3. CASE service = "create_space"
  <2>1. rank' \in {3}
    BY <1>3 DEF Effect
  <2> QED
    BY <1>1, <2>1
<1>4. CASE service \in {"remove_member", "revoke_access", "update_access_permission"}
  <2>1. rank' \in 0..rank
    BY <1>4 DEF Effect
  <2> QED
    BY <1>1, <2>1 DEF WorldOK
<1>5. CASE service \notin {"delete_space", "delete_group", "create_space", "remove_member",
                           "revoke_access", "update_access_permission"}
  <2>1. rank' \in {rank}
    BY <1>5 DEF Effect
  <2> QED
    BY <1>1, <2>1 DEF WorldOK
<1> QED
  BY <1>2, <1>3, <1>4, <1>5

(***************************************************************************)
(* Steps.                                                                  *)
(***************************************************************************)
LEMMA WorldStep ==
    ASSUME WorldOK, [Next]_vars
    PROVE  WorldOK'
<1>1. MaxChanges \in Nat
  BY BoundAssumption
<1>2. CASE UNCHANGED world /\ changes' \in {0, changes}
  BY <1>1, <1>2 DEF WorldOK, world
<1>3. ASSUME NEW service, Effect(service), changes' = changes
      PROVE  WorldOK'
  BY <1>3, EffectOK DEF WorldOK
<1>4. CASE Begin
  BY <1>2, <1>4 DEF Begin
<1>5. CASE CallStep
  BY <1>2, <1>3, <1>5 DEF CallStep
<1>6. CASE TryStep
  BY <1>2, <1>3, <1>6 DEF TryStep
<1>7. CASE AskStep \/ ValidateStep \/ BodyStep \/ RereadStep \/ LastStep
  BY <1>2, <1>7 DEF AskStep, ValidateStep, BodyStep, RereadStep, LastStep
<1>8. CASE SetupStep
  BY <1>8 DEF SetupStep, WorldOK
<1>9. CASE MarkStep
  BY <1>9 DEF MarkStep, WorldOK
<1>10. CASE Browse
  BY <1>2, <1>10 DEF Browse, Follow, Close
<1>11. CASE Elsewhere
  <2>1. changes' \in 0..MaxChanges
    BY <1>1, <1>11 DEF Elsewhere, WorldOK
  <2> QED
    BY <1>11, <2>1 DEF Elsewhere, WorldOK
<1>12. CASE UNCHANGED vars
  BY <1>12 DEF vars, world, WorldOK
<1> QED
  BY <1>4, <1>5, <1>6, <1>7, <1>8, <1>9, <1>10, <1>11, <1>12 DEF Next, Serve

\* The request that is being served, but for what the step has changed.
Serves(q) ==
    /\ q \in Requests
    /\ q.h = run.h /\ q.at = run.at /\ q.csrf = run.csrf /\ q.body = run.body
    /\ q.seen = run.seen /\ q.got \in 0..q.body /\ q.mid = FALSE

\* What p has of q.
Keeps(q, p) ==
    /\ p.got = q.got /\ p.did = q.did
    /\ Facts(q, World) \subseteq p.seen /\ Facts(q, World') \subseteq p.seen

LEMMA Advances ==
    ASSUME NEW q, Serves(q), Coherent(run), WorldOK, WorldOK', Advance(q)
    PROVE  /\ Later(run, run') /\ Keeps(q, run')
           /\ run'.at = run.at + 1 /\ run'.answer = q.answer
<1> DEFINE p == [q EXCEPT !.at = @ + 1]
<1>1. run' = Notice(p)
  BY DEF Advance
<1>2. /\ p \in Requests /\ p.h = q.h /\ p.at = q.at + 1 /\ p.cred = q.cred
      /\ p.csrf = q.csrf /\ p.body = q.body /\ p.got = q.got /\ p.did = q.did
      /\ p.mid = q.mid /\ p.answer = q.answer /\ p.seen = q.seen
  BY DEF Serves, Requests
<1> HIDE DEF p
<1>3. Coherent(p)
  BY <1>2 DEF Coherent, Serves
<1>4. Noticed(p, run')
  BY <1>1, <1>2, <1>3, Notices
<1>5. Facts(p, World) = Facts(q, World) /\ Facts(p, World') = Facts(q, World')
  BY <1>2, SameFacts
<1> QED
  BY <1>2, <1>4, <1>5 DEF Noticed, Later, Keeps, Serves

LEMMA Answering ==
    ASSUME NEW q, Serves(q), Coherent(run), WorldOK, WorldOK', NEW a \in Answers, Answer(q, a)
    PROVE  /\ Later(run, run') /\ Keeps(q, run')
           /\ run'.at = run.at /\ run'.answer = a
<1> DEFINE p == [q EXCEPT !.answer = a]
<1>1. run' = Notice(p)
  BY DEF Answer
<1>2. /\ p \in Requests /\ p.h = q.h /\ p.at = q.at /\ p.cred = q.cred
      /\ p.csrf = q.csrf /\ p.body = q.body /\ p.got = q.got /\ p.did = q.did
      /\ p.mid = q.mid /\ p.answer = a /\ p.seen = q.seen
  BY DEF Serves, Requests
<1> HIDE DEF p
<1>3. Coherent(p)
  BY <1>2 DEF Coherent, Serves
<1>4. Noticed(p, run')
  BY <1>1, <1>2, <1>3, Notices
<1>5. Facts(p, World) = Facts(q, World) /\ Facts(p, World') = Facts(q, World')
  BY <1>2, SameFacts
<1> QED
  BY <1>2, <1>4, <1>5 DEF Noticed, Later, Keeps, Serves

\* What is known of a request at a step of the given kind.
LEMMA AtStep ==
    ASSUME RunInv, NEW kind, On({kind})
    PROVE  /\ Found(run) /\ Coherent(run) /\ Serves(run) /\ WorldOK
           /\ run.answer = None
           /\ run.h \in Handlers /\ run.at <= Len(run.h.steps)
           /\ Step = StepOf(run) /\ Step.do = kind
           /\ Step \in Steps /\ StepSound(run.h.auth, run.h.steps, run.at)
<1>1. run # None /\ run.answer = None /\ run.at <= Len(run.h.steps) /\ Step.do = kind
      /\ ~run.mid
  BY DEF On, Serving
<1>2. Found(run)
  BY <1>1 DEF RunInv
<1>3. run \in Requests /\ run.got \in 0..run.body /\ Coherent(run)
  BY <1>2 DEF Found, InTable
<1>4. run.mid = FALSE
  BY <1>1, <1>3 DEF Requests
<1>5. Serves(run)
  BY <1>3, <1>4 DEF Serves
<1>6. run.h \in Handlers /\ run.at \in 1..Len(run.h.steps)
  BY <1>1, <1>2, <1>3, OfHandler DEF Found, InTable, Requests
<1>7. Step \in Steps /\ StepSound(run.h.auth, run.h.steps, run.at)
  BY <1>6, OfHandler DEF Step
<1> QED
  BY <1>1, <1>2, <1>3, <1>5, <1>6, <1>7 DEF Step, StepOf, RunInv

LEMMA AskFound ==
    ASSUME RunInv, WorldOK', AskStep
    PROVE  Found(run')
<1>1. On({"ask"})
  BY DEF AskStep
<1>2. /\ Found(run) /\ Coherent(run) /\ Serves(run) /\ WorldOK
      /\ run.answer = None /\ run.at <= Len(run.h.steps)
      /\ Step = StepOf(run) /\ Step.do = "ask" /\ Step \in Steps
  BY <1>1, AtStep
<1>3. CASE Step.arg \in Facts(run, World) /\ Advance(run)
  <2>1. Later(run, run') /\ Keeps(run, run') /\ run'.at = run.at + 1 /\ run'.answer = None
    BY <1>2, <1>3, Advances
  <2>2. Onward(run, run')
    BY <1>2, <1>3, <2>1 DEF Onward, Keeps, Later, Found, Did
  <2> QED
    BY <1>2, <2>1, <2>2, OnwardFound
<1>4. CASE Answer(run, Step.no)
  <2>1. Step.no \in Answers
    BY <1>2 DEF Steps
  <2>2. Later(run, run') /\ Keeps(run, run') /\ run'.at = run.at /\ run'.answer \in Answers
    BY <1>2, <1>4, <2>1, Answering
  <2>3. Ending(run, run')
    BY <1>2, <2>2 DEF Ending, Keeps, Later, Found, Did
  <2> QED
    BY <1>2, <2>2, <2>3, EndingFound
<1> QED
  BY <1>3, <1>4 DEF AskStep

LEMMA ValidateFound ==
    ASSUME RunInv, WorldOK', ValidateStep
    PROVE  Found(run')
<1>1. On({"validate"})
  BY DEF ValidateStep
<1>2. /\ Found(run) /\ Coherent(run) /\ Serves(run) /\ WorldOK
      /\ run.answer = None /\ run.at <= Len(run.h.steps)
      /\ Step = StepOf(run) /\ Step.do = "validate" /\ Step \in Steps
  BY <1>1, AtStep
<1>3. CASE Advance(run)
  <2>1. Later(run, run') /\ Keeps(run, run') /\ run'.at = run.at + 1 /\ run'.answer = None
    BY <1>2, <1>3, Advances
  <2>2. Onward(run, run')
    BY <1>2, <1>3, <2>1 DEF Onward, Keeps, Later, Found, Did
  <2> QED
    BY <1>2, <2>1, <2>2, OnwardFound
<1>4. CASE Answer(run, Step.no)
  <2>1. Step.no \in Answers
    BY <1>2 DEF Steps
  <2>2. Later(run, run') /\ Keeps(run, run') /\ run'.at = run.at /\ run'.answer \in Answers
    BY <1>2, <1>4, <2>1, Answering
  <2>3. Ending(run, run')
    BY <1>2, <2>2 DEF Ending, Keeps, Later, Found, Did
  <2> QED
    BY <1>2, <2>2, <2>3, EndingFound
<1> QED
  BY <1>3, <1>4 DEF ValidateStep

\* What does not fit under the limit is refused and not cut off.
LEMMA BodyFound ==
    ASSUME RunInv, WorldOK', BodyStep
    PROVE  Found(run')
<1> DEFINE read == [run EXCEPT !.got = Least(run.body, Step.arg)]
<1>1. On({"body"})
  BY DEF BodyStep
<1>2. /\ Found(run) /\ Coherent(run) /\ Serves(run) /\ WorldOK
      /\ run.answer = None /\ run.at <= Len(run.h.steps)
      /\ Step = StepOf(run) /\ Step.do = "body" /\ Step \in Steps
      /\ StepSound(run.h.auth, run.h.steps, run.at)
  BY <1>1, AtStep
<1>3. Step.arg \in Nat
  BY <1>2 DEF StepSound, StepOf
<1>4. /\ Least(run.body, Step.arg) \in 0..run.body
      /\ run.body <= Step.arg => Least(run.body, Step.arg) = run.body
  BY <1>2, <1>3 DEF Least, Serves, Requests
<1>5. /\ Serves(read) /\ read.answer = None /\ read.did = run.did
      /\ read.got = Least(run.body, Step.arg)
  BY <1>2, <1>4 DEF Serves, Requests
<1>6. (run.body <= Step.arg /\ Advance(read)) \/ Answer(read, Step.no)
  BY DEF BodyStep
<1> HIDE DEF read
<1>7. CASE run.body <= Step.arg /\ Advance(read)
  <2>1. Later(run, run') /\ Keeps(read, run') /\ run'.at = run.at + 1 /\ run'.answer = None
    BY <1>2, <1>5, <1>7, Advances
  <2>2. run'.got = run'.body
    BY <1>4, <1>5, <1>7, <2>1 DEF Keeps, Later
  <2>3. Onward(run, run')
    BY <1>2, <1>5, <2>1, <2>2 DEF Onward, Keeps, Later, Found, Did
  <2> QED
    BY <1>2, <2>1, <2>3, OnwardFound
<1>8. CASE Answer(read, Step.no)
  <2>1. Step.no \in Answers
    BY <1>2 DEF Steps
  <2>2. Later(run, run') /\ Keeps(read, run') /\ run'.at = run.at /\ run'.answer \in Answers
    BY <1>2, <1>5, <1>8, <2>1, Answering
  <2>3. Ending(run, run')
    BY <1>2, <1>5, <2>2 DEF Ending, Keeps, Later, Found, Did
  <2> QED
    BY <1>2, <2>2, <2>3, EndingFound
<1> QED
  BY <1>6, <1>7, <1>8

\* A service that works has found the session that it ends.
LEMMA Succeeds ==
    ASSUME RunInv, Serves(run), NEW service \in Services, Works(service), Effect(service)
    PROVE  /\ Serves(Succeed(service)) /\ Succeed(service).did = service
           /\ Succeed(service).answer = run.answer
           /\ Succeed(service).got = run.got
           /\ service = "logout" => "session" \in Facts(Succeed(service), World)
<1> DEFINE q == Succeed(service)
<1>1. run.h.auth \in {"cookie", "bearer"}
  BY OfHandler DEF Serves, Requests
<1>2. (IF service = "login" THEN run.h.auth ELSE run.cred) \in {"cookie", "bearer", "none"}
  BY <1>1 DEF Serves, Requests
<1>3. /\ Serves(q) /\ q.did = service /\ q.answer = run.answer
      /\ q.got = run.got /\ q.h = run.h
      /\ q.cred = IF service = "login" THEN run.h.auth ELSE run.cred
  BY <1>2 DEF Succeed, Serves, Requests
<1> HIDE DEF q
<1>4. ASSUME service = "logout" PROVE "session" \in Facts(q, World)
  <2>1. Signed(run, World)
    BY <1>4 DEF Works
  <2>2. Signed(q, World)
    BY <1>3, <1>4, <2>1 DEF Signed
  <2> QED
    BY <2>2, FactsFound
<1> QED
  BY <1>3, <1>4 DEF q

LEMMA CallFound ==
    ASSUME RunInv, WorldOK', CallStep
    PROVE  Found(run')
<1>1. On({"call"})
  BY DEF CallStep
<1>2. /\ Found(run) /\ Coherent(run) /\ Serves(run) /\ WorldOK
      /\ run.answer = None /\ run.at <= Len(run.h.steps)
      /\ run.h \in Handlers
      /\ Step = StepOf(run) /\ Step.do = "call" /\ Step \in Steps
      /\ StepSound(run.h.auth, run.h.steps, run.at)
  BY <1>1, AtStep
<1>3. Step.arg \in Services
  BY <1>2 DEF StepSound, StepOf, CallSound
<1>4. ASSUME Works(Step.arg), Effect(Step.arg), Advance(Succeed(Step.arg))
      PROVE  Found(run')
  <2> DEFINE q == Succeed(Step.arg)
  <2>1. /\ Serves(q) /\ q.did = Step.arg /\ q.answer = None
        /\ q.got = run.got
        /\ Step.arg = "logout" => "session" \in Facts(q, World)
    BY <1>2, <1>3, <1>4, Succeeds
  <2> HIDE DEF q
  <2>2. Later(run, run') /\ Keeps(q, run') /\ run'.at = run.at + 1 /\ run'.answer = None
    BY <1>2, <1>4, <2>1, Advances DEF q
  <2>3. Onward(run, run')
    BY <1>2, <2>1, <2>2 DEF Onward, Keeps
  <2> QED
    BY <1>2, <2>2, <2>3, OnwardFound
<1>5. ASSUME Works(Step.arg), Effect(Step.arg), Answer(Succeed(Step.arg), Step.no)
      PROVE  Found(run')
  <2> DEFINE q == Succeed(Step.arg)
  <2>1. /\ Serves(q) /\ q.did = Step.arg /\ q.answer = None
        /\ q.got = run.got
        /\ Step.arg = "logout" => "session" \in Facts(q, World)
    BY <1>2, <1>3, <1>5, Succeeds
  <2> HIDE DEF q
  <2>2. Step.no \in Answers
    BY <1>2 DEF Steps
  <2>3. Later(run, run') /\ Keeps(q, run') /\ run'.at = run.at /\ run'.answer \in Answers
    BY <1>2, <1>5, <2>1, <2>2, Answering DEF q
  <2>4. Ending(run, run')
    BY <1>2, <2>1, <2>3 DEF Ending, Keeps
  <2> QED
    BY <1>2, <2>3, <2>4, EndingFound
<1>6. CASE Answer(run, Step.no)
  <2>1. Step.no \in Answers
    BY <1>2 DEF Steps
  <2>2. Later(run, run') /\ Keeps(run, run') /\ run'.at = run.at /\ run'.answer \in Answers
    BY <1>2, <1>6, <2>1, Answering
  <2>3. Ending(run, run')
    BY <1>2, <2>2 DEF Ending, Keeps, Later, Found, Did
  <2> QED
    BY <1>2, <2>2, <2>3, EndingFound
<1> QED
  BY <1>4, <1>5, <1>6 DEF CallStep

LEMMA TryFound ==
    ASSUME RunInv, WorldOK', TryStep
    PROVE  Found(run')
<1>1. On({"try"})
  BY DEF TryStep
<1>2. /\ Found(run) /\ Coherent(run) /\ Serves(run) /\ WorldOK
      /\ run.answer = None /\ run.at <= Len(run.h.steps)
      /\ Step = StepOf(run) /\ Step.do = "try"
      /\ StepSound(run.h.auth, run.h.steps, run.at)
  BY <1>1, AtStep
<1>3. Step.arg \in Services
  BY <1>2 DEF StepSound, StepOf, CallSound
<1>4. ASSUME Works(Step.arg), Effect(Step.arg), Advance(Succeed(Step.arg))
      PROVE  Found(run')
  <2> DEFINE q == Succeed(Step.arg)
  <2>1. /\ Serves(q) /\ q.did = Step.arg /\ q.answer = None
        /\ q.got = run.got
        /\ Step.arg = "logout" => "session" \in Facts(q, World)
    BY <1>2, <1>3, <1>4, Succeeds
  <2> HIDE DEF q
  <2>2. Later(run, run') /\ Keeps(q, run') /\ run'.at = run.at + 1 /\ run'.answer = None
    BY <1>2, <1>4, <2>1, Advances DEF q
  <2>3. Onward(run, run')
    BY <1>2, <2>1, <2>2 DEF Onward, Keeps
  <2> QED
    BY <1>2, <2>2, <2>3, OnwardFound
<1>5. ASSUME Advance(run)
      PROVE  Found(run')
  <2>1. Later(run, run') /\ Keeps(run, run') /\ run'.at = run.at + 1 /\ run'.answer = None
    BY <1>2, <1>5, Advances
  <2>2. Onward(run, run')
    BY <1>2, <2>1 DEF Onward, Keeps, Later, Found, Did
  <2> QED
    BY <1>2, <2>1, <2>2, OnwardFound
<1> QED
  BY <1>4, <1>5 DEF TryStep

LEMMA RereadFound ==
    ASSUME RunInv, WorldOK', RereadStep
    PROVE  Found(run')
<1>1. On({"reread"})
  BY DEF RereadStep
<1>2. /\ Found(run) /\ Coherent(run) /\ Serves(run) /\ WorldOK
      /\ run.answer = None /\ run.at <= Len(run.h.steps)
      /\ Step = StepOf(run) /\ Step.do = "reread" /\ Step \in Steps
      /\ StepSound(run.h.auth, run.h.steps, run.at)
  BY <1>1, AtStep
<1>3. CASE Advance(run)
  <2>1. Later(run, run') /\ Keeps(run, run') /\ run'.at = run.at + 1 /\ run'.answer = None
    BY <1>2, <1>3, Advances
  <2>2. Onward(run, run')
    BY <1>2, <2>1 DEF Onward, Keeps, Later, Found, Did
  <2> QED
    BY <1>2, <2>1, <2>2, OnwardFound
<1>4. CASE Answer(run, Step.no)
  <2>1. Step.no \in Answers
    BY <1>2 DEF Steps
  <2>2. Later(run, run') /\ Keeps(run, run') /\ run'.at = run.at /\ run'.answer \in Answers
    BY <1>2, <1>4, <2>1, Answering
  <2>3. Ending(run, run')
    BY <1>2, <2>2 DEF Ending, Keeps, Later, Found, Did
  <2> QED
    BY <1>2, <2>2, <2>3, EndingFound
<1> QED
  BY <1>3, <1>4 DEF RereadStep

LEMMA SetupFound ==
    ASSUME RunInv, WorldOK', SetupStep
    PROVE  Found(run')
<1>1. On({"call"}) /\ Step.arg = "setup_library"
  BY DEF SetupStep
<1>2. /\ Found(run) /\ Coherent(run) /\ Serves(run) /\ WorldOK
      /\ run.answer = None /\ run.at <= Len(run.h.steps)
      /\ Step = StepOf(run) /\ Step.do = "call" /\ Step \in Steps
      /\ StepSound(run.h.auth, run.h.steps, run.at)
  BY <1>1, AtStep
<1>3. ASSUME run' = Notice([run EXCEPT !.mid = TRUE])
      PROVE  Found(run')
  <2> DEFINE q == [run EXCEPT !.mid = TRUE]
  <2>1. /\ q \in Requests /\ q.h = run.h /\ q.at = run.at /\ q.cred = run.cred
        /\ q.csrf = run.csrf /\ q.body = run.body /\ q.got = run.got /\ q.did = run.did
        /\ q.answer = run.answer /\ q.seen = run.seen
    BY <1>2 DEF Serves, Requests
  <2> HIDE DEF q
  <2>2. Coherent(q)
    BY <1>2, <2>1 DEF Coherent
  <2>3. Noticed(q, run')
    BY <1>2, <1>3, <2>1, <2>2, Notices DEF q
  <2>4. InTable(run') /\ Passed(run') /\ Coherent(run') /\ Did(run')
    BY <1>2, <2>1, <2>3 DEF Noticed, Found, InTable, Passed, Did
  <2>5. Halfway(run')
    BY <1>1, <1>2, <2>1, <2>3 DEF Noticed, Halfway, StepOf
  <2> QED
    BY <2>4, <2>5 DEF Found
<1>4. CASE Answer(run, Step.no)
  <2>1. Step.no \in Answers
    BY <1>2 DEF Steps
  <2>2. Later(run, run') /\ Keeps(run, run') /\ run'.at = run.at /\ run'.answer \in Answers
    BY <1>2, <1>4, <2>1, Answering
  <2>3. Ending(run, run')
    BY <1>2, <2>2 DEF Ending, Keeps, Later, Found, Did
  <2> QED
    BY <1>2, <2>2, <2>3, EndingFound
<1> QED
  BY <1>3, <1>4 DEF SetupStep

LEMMA MarkFound ==
    ASSUME RunInv, WorldOK', MarkStep
    PROVE  Found(run')
<1>1. run # None /\ run.answer = None /\ run.mid
  BY DEF MarkStep, Serving
<1>2. /\ Found(run) /\ Coherent(run) /\ WorldOK /\ run \in Requests
      /\ run.got \in 0..run.body
  BY <1>1 DEF RunInv, Found, InTable
<1>3. /\ run.at <= Len(run.h.steps) /\ StepOf(run).do = "call"
      /\ StepOf(run).arg = "setup_library"
  BY <1>1, <1>2 DEF Found, Halfway, StepOf
<1>4. Step \in Steps
  <2>1. run.h \in Handlers /\ run.at \in 1..Len(run.h.steps)
    BY <1>2, <1>3, OfHandler DEF Found, InTable, Requests
  <2> QED
    BY <2>1, OfHandler DEF Step
<1> DEFINE q == [Succeed("setup_library") EXCEPT !.mid = FALSE]
<1>5. "setup_library" \in Services
  BY DEF Services, Changing, AccountWrites
<1>6. Serves(q) /\ q.did = "setup_library" /\ q.got = run.got /\ q.answer = None
  BY <1>1, <1>2, <1>5 DEF Succeed, Serves, Requests
<1>7. Advance(q) \/ Answer(q, Step.no)
  BY DEF MarkStep
<1> HIDE DEF q
<1>8. CASE Advance(q)
  <2>1. Later(run, run') /\ Keeps(q, run') /\ run'.at = run.at + 1 /\ run'.answer = None
    BY <1>2, <1>6, <1>8, Advances
  <2>2. Onward(run, run')
    BY <1>3, <1>6, <2>1 DEF Onward, Keeps
  <2> QED
    BY <1>2, <1>3, <2>1, <2>2, OnwardFound
<1>9. CASE Answer(q, Step.no)
  <2>1. Step.no \in Answers
    BY <1>4 DEF Steps
  <2>2. Later(run, run') /\ Keeps(q, run') /\ run'.at = run.at /\ run'.answer \in Answers
    BY <1>2, <1>6, <1>9, <2>1, Answering
  <2>3. Ending(run, run')
    BY <1>3, <1>6, <2>2 DEF Ending, Keeps
  <2> QED
    BY <1>2, <2>2, <2>3, EndingFound
<1> QED
  BY <1>7, <1>8, <1>9

LEMMA LastFound ==
    ASSUME RunInv, WorldOK', LastStep
    PROVE  Found(run')
<1> DEFINE q == [run EXCEPT !.cred = IF Dismisses(run.h) THEN "none" ELSE @]
<1>1. run # None /\ run.answer = None /\ run.at > Len(run.h.steps) /\ Answer(q, run.h.last)
  BY DEF LastStep, Serving
<1>2. /\ Found(run) /\ Coherent(run) /\ WorldOK /\ run \in Requests
      /\ run.got \in 0..run.body /\ run.h \in Handlers
  BY <1>1 DEF RunInv, Found, InTable, Requests
<1>3. run.h.last \in Answers /\ Len(run.h.steps) \in Nat /\ run.at \in Nat
  BY <1>2, OfHandler DEF Requests
<1>4. run.mid = FALSE
  BY <1>1, <1>2, <1>3 DEF Found, Halfway, Requests
<1>5. (IF Dismisses(run.h) THEN "none" ELSE run.cred) \in {"cookie", "bearer", "none"}
  BY <1>2 DEF Requests
<1>6. Serves(q) /\ q.got = run.got /\ q.did = run.did
  BY <1>2, <1>4, <1>5 DEF Serves, Requests
<1> HIDE DEF q
<1>7. Later(run, run') /\ Keeps(q, run') /\ run'.at = run.at /\ run'.answer \in Answers
  BY <1>1, <1>2, <1>3, <1>6, Answering
<1>8. Ending(run, run')
  BY <1>2, <1>6, <1>7 DEF Ending, Keeps, Later, Found, Did
<1> QED
  BY <1>2, <1>7, <1>8, EndingFound

LEMMA ArriveFound ==
    ASSUME NEW h \in Handlers, NEW cred \in {"cookie", "bearer", "none"},
           NEW csrf \in BOOLEAN, NEW body \in 0..MaxBody
    PROVE  Found(Arrive(h, cred, csrf, body))
<1> DEFINE q == Arrive(h, cred, csrf, body)
<1>1. /\ q \in Requests /\ q.h = h /\ q.at = 1 /\ q.body = body /\ q.got = 0 /\ q.seen = {}
      /\ q.did = None /\ q.mid = FALSE /\ q.answer = None
  <2>1. body \in Nat
    BY BoundAssumption
  <2> QED
    BY <2>1 DEF Arrive, Requests
<1> HIDE DEF q
<1>2. InTable(q)
  <2>1. Len(h.steps) \in Nat
    BY OfHandler
  <2> QED
    BY <1>1, <2>1, BoundAssumption DEF InTable
<1>3. Passed(q) /\ Coherent(q) /\ Halfway(q)
  BY <1>1 DEF Passed, Coherent, Halfway
<1>4. Did(q)
  <2>1. None # "logout"
    BY NoAnswer DEF Services, Changing, AccountWrites
  <2> QED
    BY <1>1, <2>1 DEF Did
<1> QED
  BY <1>2, <1>3, <1>4 DEF Found, q

LEMMA BeginFound ==
    ASSUME Begin
    PROVE  Found(run')
<1>1. PICK h \in Handlers, csrf \in BOOLEAN :
         \E cred \in {h.auth, "none"},
            body \in IF \E k \in DOMAIN h.steps : h.steps[k].do = "body"
                     THEN 0..MaxBody ELSE {0} :
             run' = Arrive(h, cred, csrf, body)
  BY DEF Begin
<1>2. PICK cred \in {h.auth, "none"}, body \in 0..MaxBody :
         run' = Arrive(h, cred, csrf, body)
  BY <1>1, BoundAssumption
<1>3. cred \in {"cookie", "bearer", "none"}
  BY <1>1, OfHandler
<1> QED
  BY <1>2, <1>3, ArriveFound

LEMMA PagesServed == \A page \in DOMAIN Pages : Pages[page] \in Handlers
BY DEF Pages, Handlers, PageHandlers

LEMMA FollowFound ==
    ASSUME RunInv, Follow
    PROVE  Found(run')
<1>1. run # None /\ run.answer \in DOMAIN Pages
      /\ run' = Arrive(Pages[run.answer], run.cred, FALSE, 0)
  BY DEF Follow
<1>2. run.cred \in {"cookie", "bearer", "none"}
  BY <1>1 DEF RunInv, Found, InTable, Requests
<1>3. Pages[run.answer] \in Handlers /\ 0 \in 0..MaxBody
  BY <1>1, PagesServed, BoundAssumption
<1> QED
  BY <1>1, <1>2, <1>3, ArriveFound

LEMMA ElsewhereFound ==
    ASSUME RunInv, WorldOK', Elsewhere
    PROVE  Found(run')
<1>1. run # None /\ run' = Notice(run)
  BY DEF Elsewhere, Serving
<1>2. Found(run) /\ Coherent(run) /\ run \in Requests /\ WorldOK
  BY <1>1 DEF RunInv, Found, InTable
<1>3. Noticed(run, run')
  BY <1>1, <1>2, Notices
<1> QED
  BY <1>2, <1>3 DEF Noticed, Found, InTable, Passed, Did, Halfway

(***************************************************************************)
(* The invariant, and what follows from it.                                *)
(***************************************************************************)
LEMMA RunInit == Init => RunInv
<1> SUFFICES ASSUME Init PROVE RunInv
  OBVIOUS
<1>1. 0 \in 0..MaxChanges
  BY BoundAssumption
<1>2. live \in BOOLEAN /\ set_up = FALSE /\ lib = "none" /\ staff \in BOOLEAN
      /\ rank \in 0..3 /\ run = None /\ changes = 0
  BY DEF Init
<1> QED
  BY <1>1, <1>2 DEF RunInv, WorldOK

LEMMA RunStep == RunInv /\ [Next]_vars => RunInv'
<1> SUFFICES ASSUME RunInv, [Next]_vars PROVE RunInv'
  OBVIOUS
<1>1. WorldOK'
  BY WorldStep DEF RunInv
<1>2. CASE Begin
  BY <1>1, <1>2, BeginFound DEF RunInv
<1>3. CASE Serve
  <2>1. Found(run')
    BY <1>1, <1>3, AskFound, ValidateFound, BodyFound, CallFound, TryFound, RereadFound,
       SetupFound, MarkFound, LastFound DEF Serve
  <2> QED
    BY <1>1, <2>1 DEF RunInv
<1>4. CASE Follow
  <2>1. Found(run')
    BY <1>4, FollowFound
  <2> QED
    BY <1>1, <2>1 DEF RunInv
<1>5. CASE Close
  BY <1>1, <1>5 DEF Close, RunInv
<1>6. CASE Elsewhere
  <2>1. Found(run')
    BY <1>1, <1>6, ElsewhereFound
  <2> QED
    BY <1>1, <2>1 DEF RunInv
<1>7. CASE UNCHANGED vars
  <2>1. run' = run
    BY <1>7 DEF vars
  <2> QED
    BY <1>1, <2>1 DEF RunInv
<1> QED
  BY <1>2, <1>3, <1>4, <1>5, <1>6, <1>7 DEF Next, Browse

LEMMA RunAlways == Spec => []RunInv
BY RunInit, RunStep, PTL DEF Spec

\* The call that stands behind what a request did, and what came before it.
LEMMA StandsBehind ==
    ASSUME RunInv, run # None, run.did # None
    PROVE  \E k \in 1..Len(run.h.steps) :
              /\ run.h.steps[k].arg = run.did
              /\ CallSound(run.h.auth, run.h.steps, k)
              /\ \A fact : Asks(run.h.steps, k, fact) => fact \in run.seen
              /\ Reads(run.h.steps, k) => run.got = run.body
<1> DEFINE s == run.h.steps
<1>1. Found(run) /\ run.h \in Handlers /\ run.at \in 1..Len(s) + 1
      /\ Len(s) \in Nat
  BY OfHandler DEF RunInv, Found, InTable, Requests
<1>2. PICK k \in 1..Len(s) : k <= run.at /\ s[k].do \in {"call", "try"} /\ s[k].arg = run.did
  BY <1>1 DEF Found, Did
<1>3. \A j \in 1..k - 1 : j \in 1..run.at - 1
  BY <1>1, <1>2
<1>4. CallSound(run.h.auth, s, k)
  BY <1>1, <1>2, <1>3, OfHandler DEF StepSound
<1>5. /\ \A fact : Asks(s, k, fact) => fact \in run.seen
      /\ Reads(s, k) => run.got = run.body
  BY <1>1, <1>3 DEF Found, Passed, Asks, Reads
<1> QED
  BY <1>2, <1>3, <1>4, <1>5

LEMMA LogoutNeeds == Needs("logout") = {"session"}
BY DEF Needs, LibraryReads, LibraryWrites, SpaceReads, SpaceWrites, SpaceSettings, StaffServices

LEMMA RunTypes == RunInv => TypeOK
BY DEF RunInv, WorldOK, TypeOK, Found, InTable, Requests, Answers

LEMMA RunGuarded == RunInv => Guarded
<1> SUFFICES ASSUME RunInv, run # None, run.did # None
             PROVE  /\ Needs(run.did) \subseteq run.seen
                    /\ run.h.auth = "cookie" /\ run.did \in Changing => run.csrf
  BY DEF Guarded
<1>1. PICK k \in 1..Len(run.h.steps) :
         /\ run.h.steps[k].arg = run.did
         /\ CallSound(run.h.auth, run.h.steps, k)
         /\ \A fact : Asks(run.h.steps, k, fact) => fact \in run.seen
  BY StandsBehind
<1>2. Coherent(run) /\ (run.did = "logout" => "session" \in run.seen)
  BY DEF RunInv, Found, Did
<1>3. ASSUME NEW fact \in Needs(run.did) PROVE fact \in run.seen
  <2>1. CASE Asks(run.h.steps, k, fact)
    BY <1>1, <2>1
  <2>2. CASE fact = "read" /\ Asks(run.h.steps, k, "admin")
    BY <1>1, <1>2, <2>2 DEF Coherent
  <2>3. CASE run.did = "logout"
    BY <1>2, <1>3, <2>3, LogoutNeeds
  <2> QED
    BY <1>1, <2>1, <2>2, <2>3 DEF CallSound
<1>4. run.h.auth = "cookie" /\ run.did \in Changing => run.csrf
  BY <1>1, <1>2 DEF CallSound, Coherent
<1> QED
  BY <1>3, <1>4

LEMMA RunBodyWhole == RunInv => BodyWhole
<1> SUFFICES ASSUME RunInv, run # None, run.did \in Uploads
             PROVE  run.got = run.body
  BY DEF BodyWhole, Uploads
<1>1. run.did # None
  BY NoAnswer DEF Uploads, Services, Changing, LibraryWrites, SpaceWrites
<1> QED
  BY <1>1, StandsBehind DEF CallSound

\* Every request is for a handler of the table, at a step of it or past the
\* last, and is answered, if at all, with a page there is; its service is one
\* there is.
THEOREM SurfaceTypes == Spec => []TypeOK
BY RunAlways, RunTypes, PTL

\* Whatever the limits and however many changes others make in between: no
\* handler of the table, and no page that redirects lead to, lets a service
\* run for a client who did not have, at some time during the request, every
\* right that the service relies on, nor changes anything on a cookie alone.
THEOREM ServicesAreGuarded == Spec => []Guarded
BY RunAlways, RunGuarded, PTL

\* For every limit that handlers put on a body, and every size of a body: what
\* an upload hands on is all of it.
THEOREM BodiesAreWhole == Spec => []BodyWhole
BY RunAlways, RunBodyWhole, PTL

=============================================================================
