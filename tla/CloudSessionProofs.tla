------------------------ MODULE CloudSessionProofs ------------------------
(***************************************************************************)
(* Proofs about CloudSession, for any accounts, any number of commands     *)
(* that overlap and every bound: its variables keep their types, an        *)
(* account's vault opens with its password, a session and what is          *)
(* synchronised belong to one account, a logout leaves nothing, and a      *)
(* session that nothing ended stays connected.                             *)
(***************************************************************************)
EXTENDS CloudSession, SequenceTheorems, TLAPS

-----------------------------------------------------------------------------
(* Devices and tokens are only ever added: what names one stays good.      *)
Issued ==
  /\ device \in Seq(Device) /\ token \in Seq(Token)
  /\ \A k \in DOMAIN token : token[k].dev \in DOMAIN device

Grows ==
  /\ DOMAIN device \subseteq DOMAIN device' /\ DOMAIN token \subseteq DOMAIN token'
  /\ \A d \in DOMAIN device : device'[d].acc = device[d].acc
  /\ \A k \in DOMAIN token : token'[k].dev = token[k].dev
  /\ \A a \in Accounts : vault[a] # None => vault'[a] # None

(* Only these tokens were revoked, or rotated.                             *)
Spends(S) ==
  /\ DOMAIN token' = DOMAIN token
  /\ \A k \in DOMAIN token : /\ token'[k].dev = token[k].dev
                             /\ k \notin S => token'[k] = token[k]

TokensOf(devices) == {k \in DOMAIN token : token[k].dev \in devices}

LEMMA IssuedFacts ==
  ASSUME Issued
  PROVE  /\ Len(device) \in Nat /\ DOMAIN device = 1 .. Len(device)
         /\ Len(token) \in Nat /\ DOMAIN token = 1 .. Len(token)
         /\ device \in [1 .. Len(device) -> Device] /\ token \in [1 .. Len(token) -> Token]
         /\ \A d \in DOMAIN device : d \in Nat \ {0} /\ device[d].acc \in Accounts
                                      /\ device[d].revoked \in BOOLEAN
         /\ \A k \in DOMAIN token : k \in Nat \ {0} /\ token[k].dev \in DOMAIN device
                                     /\ token[k].live \in BOOLEAN
<1>1. /\ Len(device) \in Nat /\ DOMAIN device = 1 .. Len(device)
      /\ device \in [1 .. Len(device) -> Device]
  BY LenProperties DEF Issued
<1>2. /\ Len(token) \in Nat /\ DOMAIN token = 1 .. Len(token)
      /\ token \in [1 .. Len(token) -> Token]
  BY LenProperties DEF Issued
<1>3. \A d \in DOMAIN device : device[d] \in Device /\ d \in Nat \ {0}
  BY <1>1
<1>4. \A k \in DOMAIN token : token[k] \in Token /\ k \in Nat \ {0}
  BY <1>2
<1>5. QED
  BY <1>1, <1>2, <1>3, <1>4 DEF Issued, Device, Token

LEMMA DeviceAdded ==
  ASSUME Issued, NEW a \in Accounts,
         device' = Append(device, [acc |-> a, revoked |-> FALSE])
  PROVE  /\ device' \in Seq(Device) /\ Len(device') = Len(device) + 1
         /\ DOMAIN device' = DOMAIN device \cup {Len(device')}
         /\ Len(device') \in Nat \ {0} /\ Len(device') \notin DOMAIN device
         /\ \A d \in DOMAIN device : device'[d] = device[d]
         /\ device'[Len(device')].acc = a /\ ~device'[Len(device')].revoked
<1>1. PICK x : x = [acc |-> a, revoked |-> FALSE]
  OBVIOUS
<1>2. x \in Device /\ x.acc = a /\ ~x.revoked
  BY <1>1 DEF Device
<1>3. device' = Append(device, x) /\ device \in Seq(Device)
  BY <1>1 DEF Issued
<1>4. /\ device' \in Seq(Device) /\ Len(device') = Len(device) + 1
      /\ Len(device) \in Nat
      /\ \A d \in 1 .. Len(device) : device'[d] = device[d]
      /\ device'[Len(device) + 1] = x
  BY <1>2, <1>3
<1>5. DOMAIN device = 1 .. Len(device) /\ DOMAIN device' = 1 .. Len(device')
  BY <1>3, <1>4, LenProperties
<1>6. QED
  BY <1>2, <1>4, <1>5

LEMMA TokenAdded ==
  ASSUME Issued, NEW d \in Nat \ {0},
         token' = Append(token, [dev |-> d, live |-> TRUE])
  PROVE  /\ token' \in Seq(Token)
         /\ DOMAIN token' = DOMAIN token \cup {Len(token')}
         /\ Len(token') \in Nat \ {0} /\ Len(token') \notin DOMAIN token
         /\ \A k \in DOMAIN token : token'[k] = token[k]
         /\ token'[Len(token')].dev = d /\ token'[Len(token')].live
<1>1. PICK x : x = [dev |-> d, live |-> TRUE]
  OBVIOUS
<1>2. x \in Token /\ x.dev = d /\ x.live
  BY <1>1 DEF Token
<1>3. token' = Append(token, x) /\ token \in Seq(Token)
  BY <1>1 DEF Issued
<1>4. /\ token' \in Seq(Token) /\ Len(token') = Len(token) + 1
      /\ Len(token) \in Nat
      /\ \A k \in 1 .. Len(token) : token'[k] = token[k]
      /\ token'[Len(token) + 1] = x
  BY <1>2, <1>3
<1>5. DOMAIN token = 1 .. Len(token) /\ DOMAIN token' = 1 .. Len(token')
  BY <1>3, <1>4, LenProperties
<1>6. QED
  BY <1>2, <1>4, <1>5

LEMMA FunctionIsSeq ==
  ASSUME NEW S, NEW n \in Nat, NEW f \in [1 .. n -> S]
  PROVE  f \in Seq(S)
BY SeqDef

LEMMA TokensRevoked ==
  ASSUME Issued, NEW S, token' = RevokedTokens(S)
  PROVE  token' \in Seq(Token) /\ Spends(TokensOf(S))
<1> DEFINE new(k) == IF token[k].dev \in S THEN [token[k] EXCEPT !.live = FALSE] ELSE token[k]
<1>1. \A k \in DOMAIN token : new(k) \in Token /\ new(k).dev = token[k].dev
  BY IssuedFacts DEF Token
<1>2. token' = [k \in DOMAIN token |-> new(k)]
  BY Zenon DEF RevokedTokens
<1>3. \A k \in DOMAIN token : k \notin TokensOf(S) => new(k) = token[k]
  BY DEF TokensOf
<1> HIDE DEF new
<1>4. token' \in [1 .. Len(token) -> Token] /\ Len(token) \in Nat
  BY <1>1, <1>2, IssuedFacts
<1>5. token' \in Seq(Token)
  BY <1>4, FunctionIsSeq, Zenon
<1>6. Spends(TokensOf(S))
  BY <1>1, <1>2, <1>3 DEF Spends
<1>7. QED
  BY <1>5, <1>6

LEMMA TokenRotated ==
  ASSUME Issued, NEW k \in DOMAIN token, token' = [token EXCEPT ![k].live = FALSE]
  PROVE  token' \in Seq(Token) /\ Spends({k})
<1>1. PICK x : x = [token[k] EXCEPT !.live = FALSE]
  OBVIOUS
<1>2. x \in Token /\ x.dev = token[k].dev
  BY <1>1, IssuedFacts DEF Token
<1>3. token' = [token EXCEPT ![k] = x]
  BY <1>1
<1>4. token' \in [1 .. Len(token) -> Token] /\ Len(token) \in Nat
  BY <1>2, <1>3, IssuedFacts
<1>5. token' \in Seq(Token)
  BY <1>4, FunctionIsSeq, Zenon
<1>6. Spends({k})
  BY <1>2, <1>3, IssuedFacts DEF Spends
<1>7. QED
  BY <1>5, <1>6

LEMMA DeviceRevoked ==
  ASSUME Issued, NEW d \in DOMAIN device, device' = [device EXCEPT ![d].revoked = TRUE]
  PROVE  /\ device' \in Seq(Device) /\ DOMAIN device' = DOMAIN device
         /\ \A e \in DOMAIN device : /\ device'[e].acc = device[e].acc
                                     /\ e # d => device'[e] = device[e]
<1>1. PICK x : x = [device[d] EXCEPT !.revoked = TRUE]
  OBVIOUS
<1>2. x \in Device /\ x.acc = device[d].acc
  BY <1>1, IssuedFacts DEF Device
<1>3. device' = [device EXCEPT ![d] = x]
  BY <1>1
<1>4. device' \in [1 .. Len(device) -> Device] /\ Len(device) \in Nat
  BY <1>2, <1>3, IssuedFacts
<1>5. device' \in Seq(Device)
  BY <1>4, FunctionIsSeq, Zenon
<1>6. QED
  BY <1>2, <1>3, <1>5, IssuedFacts

-----------------------------------------------------------------------------
(* What a handler does to its request, and what its caller sees.           *)
StepNames == {"arrived", "authorized", "verified", "selected", "rotated", "marked"}

SameButStep(q, r) ==
  /\ q \in Request
  /\ q.kind = r.kind /\ q.by = r.by /\ q.acc = r.acc /\ q.dev = r.dev
  /\ q.tok = r.tok /\ q.pw = r.pw /\ q.key = r.key /\ q.target = r.target

MovesOn(r, q) ==
  /\ SameButStep(q, r)
  /\ requests' = (requests \ {r}) \cup {q}
  /\ UNCHANGED answer

Replies(r, a) ==
  /\ a \in Answer
  /\ requests' = requests \ {r}
  /\ answer' \in [Callers -> Answer \cup {None}]
  /\ \A c \in Callers : answer'[c] = IF c = r.by THEN a ELSE answer[c]

(* A handler only touches the server, its request and its caller's answer. *)
Ours == <<session, syncKey, profile, active, keyFile, outbox, versions, auth, cmd, ends, mixed>>

LEMMA StepMoves ==
  ASSUME NEW r \in Request, NEW step \in StepNames, Step(r, step)
  PROVE  \E q : MovesOn(r, q) /\ q.step = step
<1>1. PICK q : q = [r EXCEPT !.step = step]
  OBVIOUS
<1>2. SameButStep(q, r) /\ q.step = step
  BY <1>1 DEF SameButStep, Request, StepNames
<1>3. requests' = (requests \ {r}) \cup {q} /\ UNCHANGED answer
  BY <1>1, Zenon DEF Step
<1>4. QED
  BY <1>2, <1>3 DEF MovesOn

LEMMA ReplyReplies ==
  ASSUME TypeOK, NEW r \in requests, NEW a \in Answer, Reply(r, a)
  PROVE  Replies(r, a)
<1>1. r.by \in Callers \cup {None} /\ answer \in [Callers -> Answer \cup {None}]
  BY DEF TypeOK, Request
<1>2. CASE r.by = None
  BY <1>1, <1>2, ConstantsOK DEF Reply, Replies, ConstantsOK
<1>3. CASE r.by # None
  BY <1>1, <1>3 DEF Reply, Replies
<1>4. QED
  BY <1>2, <1>3

LEMMA RequestFacts ==
  ASSUME TypeOK, NEW r \in requests
  PROVE  /\ r \in Request /\ r.by \in Callers \cup {None} /\ r.acc \in Accounts
         /\ r.dev \in Nat /\ r.tok \in Nat /\ r.pw \in Passwords /\ r.key \in Keys
         /\ r.target \in Nat /\ r.step \in StepNames
         /\ r.kind \in Kinds \cup {"register", "login", "refresh", "put_vault", "get_vault"}
BY DEF TypeOK, Request, StepNames

LEMMA PlainFacts ==
  /\ Plain \in Answer /\ Plain.ok
  /\ \A k, d \in Nat : \A a : a = [Plain EXCEPT !.tok = k, !.dev = d] =>
       a \in Answer /\ a.ok /\ a.tok = k /\ a.dev = d
  /\ \A K \in SUBSET Accounts : \A a : a = [Plain EXCEPT !.keys = K] =>
       a \in Answer /\ a.ok /\ a.keys = K
  /\ \A K \in SUBSET Accounts : \A p \in Passwords : \A a :
       a = [Plain EXCEPT !.keys = K, !.pw = p] =>
       a \in Answer /\ a.ok /\ a.keys = K /\ a.pw = p
  /\ \A a : a = [Plain EXCEPT !.ok = FALSE] => a \in Answer /\ ~a.ok
<1>1. Plain \in Answer /\ Plain.ok
  <2>1. MaxPasswords \in Nat
    BY ConstantsOK DEF ConstantsOK
  <2>2. QED
    BY <2>1 DEF Plain, Answer, Passwords
<1>2. QED
  BY <1>1 DEF Answer

-----------------------------------------------------------------------------
(* The inductive invariant.  Every request of a caller is the one that its *)
(* command, or the login, waits for, and there is one answer at most.      *)
Asks(c, r) ==
  \/ c.pc = "refresh" /\ r.kind = "refresh"
  \/ c.pc = "request" /\ r.kind = c.kind

LoginAsks(r) ==
  /\ r.acc = auth.acc /\ r.pw = auth.pw
  /\ \/ auth.pc = "tokens" /\ r.kind = (IF auth.reg THEN "register" ELSE "login")
     \/ auth.pc = "vault" /\ r.kind = (IF auth.reg THEN "put_vault" ELSE "get_vault")

Calls ==
  /\ \A r \in requests : r.by # None => answer[r.by] = None
  /\ \A r, s \in requests : r.by = s.by /\ r.by # None => r = s
  /\ \A r \in requests : r.by \in Tasks => cmd[r.by] # None /\ Asks(cmd[r.by], r)
  /\ \A r \in requests : r.by = Auth => auth # None /\ LoginAsks(r)
  /\ \A t \in Tasks : answer[t] # None => cmd[t] # None /\ cmd[t].pc \in {"refresh", "request"}
  /\ answer[Auth] # None => auth # None /\ auth.pc \in {"tokens", "vault"}

(* A vault that exists keeps existing.                                     *)
Opened(d) == d \in DOMAIN device /\ vault[device[d].acc] # None

(* Requests name what was issued.                                          *)
Names(r) ==
  /\ NeedsAccess(r) => r.dev \in DOMAIN device /\ device[r.dev].acc = r.acc
  /\ r.kind = "refresh" => /\ r.tok \in DOMAIN token /\ token[r.tok].dev = r.dev
                           /\ Opened(r.dev)
  /\ r.kind \in Kinds => vault[r.acc] # None
  /\ r.kind = "password" => r.key \in Accounts

Addressed == \A r \in requests : Names(r)

(* Answers name what was issued.                                           *)
Grants(a) == a.tok \in DOMAIN token /\ token[a.tok].dev = a.dev

Granted ==
  /\ \A t \in Tasks : answer[t] # None /\ answer[t].ok /\ cmd[t].pc = "refresh" =>
       Grants(answer[t]) /\ Opened(answer[t].dev)
  /\ answer[Auth] # None /\ answer[Auth].ok /\ auth.pc = "tokens" =>
       Grants(answer[Auth]) /\ device[answer[Auth].dev].acc = auth.acc
  /\ answer[Auth] # None /\ answer[Auth].ok /\ auth.pc = "vault" =>
       /\ vault[auth.acc] # None
       /\ ~auth.reg => answer[Auth].keys # {}

(* The session, the commands and the profiles name what was issued.        *)
ProfileOf(a) ==
  profile[a] # None =>
    /\ vault[a] # None
    /\ profile[a].dev \in DOMAIN device /\ device[profile[a].dev].acc = a
    /\ profile[a].cipher # None =>
         /\ profile[a].cipher \in DOMAIN token
         /\ device[token[profile[a].cipher].dev].acc = a

Held ==
  /\ session # None => /\ session.tok \in DOMAIN token
                       /\ Opened(session.dev) /\ Opened(token[session.tok].dev)
  /\ \A t \in Tasks : cmd[t] # None /\ cmd[t].pc \in {"request", "cursor"} =>
       cmd[t].dev \in DOMAIN device
  /\ \A a \in Accounts : ProfileOf(a)
  /\ active # None => profile[active] # None
  /\ active = None => \A a \in Accounts : profile[a] = None

(* A login goes on without a session until it opens one.                   *)
LoggingIn ==
  auth # None =>
    /\ auth.pc # "file" => session = None
    /\ auth.pc # "tokens" => Grants(auth) /\ device[auth.dev].acc = auth.acc
    /\ auth.pc \notin {"tokens", "vault"} => auth.key \in Accounts /\ vault[auth.acc] # None
    /\ auth.pc \in {"persist", "session", "file"} => active = auth.acc

(* The request that gives an account its first vault, or the answer that   *)
(* leads to it: one for an account, and nothing else may come before.      *)
Founds(r) == At(r, "register", "verified") \/ r.kind = "put_vault"

Founding ==
  /\ auth # None /\ auth.reg /\ auth.pc = "tokens"
  /\ answer[Auth] # None /\ answer[Auth].ok

First(a, pw) == vault[a] = None /\ password[a] = pw

Vaults ==
  /\ \A a \in Accounts : vault[a] # None => password[a] # None /\ vault[a].pw = password[a]
  /\ \A r \in requests : Founds(r) => First(r.acc, r.pw)
  /\ \A r, s \in requests : Founds(r) /\ Founds(s) /\ r.acc = s.acc => r = s
  /\ Founding => First(auth.acc, auth.pw)
  /\ Founding => \A r \in requests : Founds(r) => r.acc # auth.acc
  /\ \A r \in requests : r.kind = "put_vault" => r.key = r.acc

Inv == /\ TypeOK /\ Calls /\ Addressed /\ Granted /\ Held /\ LoggingIn /\ Vaults

-----------------------------------------------------------------------------
(* What the desktop does to its requests, answers and commands.            *)
Sends(c, q) == q \in Request /\ q.by = c /\ requests' = requests \cup {q}

Takes(c) ==
  /\ answer' \in [Callers -> Answer \cup {None}]
  /\ \A b \in Callers : answer'[b] = IF b = c THEN None ELSE answer[b]

Sets(t, c) ==
  /\ cmd' \in [Tasks -> Command \cup {None}]
  /\ \A s \in Tasks : cmd'[s] = IF s = t THEN c ELSE cmd[s]

(* The command goes on with its next step.                                 *)
GoesTo(t, pc) ==
  \E c \in Command :
    /\ Sets(t, c)
    /\ c.kind = cmd[t].kind /\ c.acc = cmd[t].acc /\ c.dev = cmd[t].dev
    /\ c.key = cmd[t].key /\ c.pc = pc

FailsTo(t) == IF cmd[t].kind = "logout" THEN GoesTo(t, "clear") ELSE Sets(t, None)

Orphan(r) == [r EXCEPT !.by = None]

(* The requests of some callers go on without them, or nowhere.            *)
Orphans(callers) ==
  /\ \A q \in requests' :
       \/ q \in requests /\ q.by \notin callers
       \/ \E r \in requests : r.by \in callers /\ q = Orphan(r)
  /\ answer' \in [Callers -> Answer \cup {None}]
  /\ \A c \in Callers : answer'[c] = IF c \in callers THEN None ELSE answer[c]

LEMMA NoneFacts ==
  /\ Auth \notin Tasks /\ Auth \in Callers /\ Tasks \subseteq Callers
  /\ None \notin Callers /\ None \notin Accounts /\ None \notin Nat
  /\ {MaxDevices, MaxTokens, MaxPasswords, MaxEnds, MaxLate} \subseteq Nat
  /\ 0 \in Passwords /\ Passwords \subseteq Nat /\ Commands \subseteq Kinds
BY ConstantsOK DEF ConstantsOK, Callers, Passwords

LEMMA CommandFacts ==
  ASSUME TypeOK, NEW t \in Tasks, cmd[t] # None
  PROVE  /\ cmd[t] \in Command /\ cmd[t].kind \in Kinds /\ cmd[t].acc \in Keys
         /\ cmd[t].dev \in Nat /\ cmd[t].key \in Keys /\ cmd[t].pw \in Passwords
         /\ cmd[t].target \in Nat
         /\ cmd[t].pc \in {"refresh", "request", "cursor", "clear", "drop"}
BY DEF TypeOK, Command

LEMMA AnswerFacts ==
  ASSUME TypeOK, NEW c \in Callers, answer[c] # None
  PROVE  /\ answer[c] \in Answer /\ answer[c].ok \in BOOLEAN /\ answer[c].tok \in Nat
         /\ answer[c].dev \in Nat /\ answer[c].keys \subseteq Accounts /\ answer[c].pw \in Passwords
BY DEF TypeOK, Answer

LEMMA SessionFacts ==
  ASSUME TypeOK, session # None
  PROVE  /\ session \in Session /\ session.tok \in Nat /\ session.dev \in Nat
         /\ session.key \in Accounts /\ session.cursor \in {0, 1}
BY DEF TypeOK, Session

LEMMA AuthFacts ==
  ASSUME TypeOK, auth # None
  PROVE  /\ auth \in AuthTask /\ auth.reg \in BOOLEAN /\ auth.acc \in Accounts
         /\ auth.pw \in Passwords /\ auth.tok \in Nat /\ auth.dev \in Nat /\ auth.key \in Keys
         /\ auth.pc \in {"tokens", "vault", "activate", "persist", "session", "file"}
BY DEF TypeOK, AuthTask

LEMMA OrphanFacts ==
  ASSUME NEW r \in Request
  PROVE  /\ Orphan(r) \in Request /\ Orphan(r).by = None
         /\ Orphan(r).kind = r.kind /\ Orphan(r).step = r.step /\ Orphan(r).acc = r.acc
         /\ Orphan(r).dev = r.dev /\ Orphan(r).tok = r.tok /\ Orphan(r).pw = r.pw
         /\ Orphan(r).key = r.key /\ Orphan(r).target = r.target
BY DEF Orphan, Request

LEMMA AbandonDoes ==
  ASSUME TypeOK, NEW callers \in SUBSET Callers, Abandon(callers)
  PROVE  Orphans(callers) /\ requests' \subseteq Request
<1>1. PICK kept \in SUBSET {r \in requests : r.by \in callers} :
        /\ requests' = {r \in requests : r.by \notin callers} \cup {Orphan(r) : r \in kept}
        /\ answer' = [c \in Callers |-> IF c \in callers THEN None ELSE answer[c]]
  BY Zenon DEF Abandon, Orphan
<1>2. answer \in [Callers -> Answer \cup {None}] /\ requests \subseteq Request
  BY DEF TypeOK
<1>3. \A q \in requests' :
       \/ q \in requests /\ q.by \notin callers
       \/ \E r \in requests : r.by \in callers /\ q = Orphan(r)
  BY <1>1
<1>4. requests' \subseteq Request
  BY <1>2, <1>3, OrphanFacts
<1>5. QED
  BY <1>1, <1>2, <1>3, <1>4 DEF Orphans

LEMMA SendSends ==
  ASSUME TypeOK, NEW c \in Callers, NEW r \in Request, Send(c, r)
  PROVE  \E q : /\ Sends(c, q) /\ q.kind = r.kind /\ q.step = r.step /\ q.acc = r.acc
                /\ q.dev = r.dev /\ q.tok = r.tok /\ q.pw = r.pw /\ q.key = r.key
                /\ q.target = r.target
<1>1. PICK q : q = [r EXCEPT !.by = c]
  OBVIOUS
<1>2. /\ q \in Request /\ q.by = c /\ q.kind = r.kind /\ q.step = r.step /\ q.acc = r.acc
      /\ q.dev = r.dev /\ q.tok = r.tok /\ q.pw = r.pw /\ q.key = r.key
      /\ q.target = r.target
  BY <1>1 DEF Request
<1>3. requests' = requests \cup {q}
  BY <1>1, Zenon DEF Send
<1>4. QED
  BY <1>2, <1>3 DEF Sends

LEMMA TakeTakes ==
  ASSUME TypeOK, NEW c \in Callers, Take(c)
  PROVE  Takes(c)
BY DEF TypeOK, Take, Takes

LEMMA SetSets ==
  ASSUME TypeOK, NEW t \in Tasks, NEW c \in Command \cup {None}, Set(t, c)
  PROVE  Sets(t, c)
BY DEF TypeOK, Set, Sets

LEMMA GotoGoes ==
  ASSUME TypeOK, NEW t \in Tasks, cmd[t] # None,
         NEW pc \in {"refresh", "request", "cursor", "clear", "drop"}, Goto(t, pc)
  PROVE  GoesTo(t, pc)
<1>1. PICK c : c = [cmd[t] EXCEPT !.pc = pc]
  OBVIOUS
<1>2. /\ c \in Command /\ c.kind = cmd[t].kind /\ c.acc = cmd[t].acc /\ c.dev = cmd[t].dev
      /\ c.key = cmd[t].key /\ c.pc = pc
  BY <1>1, CommandFacts DEF Command
<1>3. Set(t, c)
  BY <1>1, Zenon DEF Goto
<1>4. QED
  BY <1>2, <1>3, SetSets DEF GoesTo

LEMMA FailedFails ==
  ASSUME TypeOK, NEW t \in Tasks, cmd[t] # None, Failed(t)
  PROVE  FailsTo(t)
<1>1. CASE cmd[t].kind = "logout"
  BY <1>1, GotoGoes DEF Failed, FailsTo
<1>2. CASE cmd[t].kind # "logout"
  BY <1>2, SetSets DEF Failed, FailsTo
<1>3. QED
  BY <1>1, <1>2

-----------------------------------------------------------------------------
(* What the steps of a command do, field by field.                         *)
LEMMA ReqOfFacts ==
  ASSUME NEW kind \in Kinds \cup {"register", "login", "refresh", "put_vault", "get_vault"},
         NEW c \in Callers, NEW a \in Accounts, NEW d \in Nat
  PROVE  /\ ReqOf(kind, c, a, d) \in Request
         /\ ReqOf(kind, c, a, d).kind = kind /\ ReqOf(kind, c, a, d).step = "arrived"
         /\ ReqOf(kind, c, a, d).acc = a /\ ReqOf(kind, c, a, d).dev = d
<1>1. 0 \in Passwords /\ None \in Keys
  BY NoneFacts DEF Keys
<1>2. QED
  BY <1>1 DEF ReqOf, Request

LEMMA StartDoes ==
  ASSUME Inv, NEW t \in Tasks, NEW kind \in Commands, Start(t, kind)
  PROVE  /\ UNCHANGED <<server, answer, memory, disk, auth, ends, cut, mixed>>
         /\ cmd[t] = None /\ session # None
         /\ \A s \in Tasks : cmd[s] # None => cmd[s].kind # kind
         /\ \E c \in Command : /\ Sets(t, c) /\ c.kind = kind /\ c.acc = session.key
                               /\ c.pc = "refresh"
         /\ \E q : /\ Sends(t, q) /\ q.kind = "refresh" /\ q.step = "arrived"
                   /\ q.tok = session.tok /\ q.dev = token[session.tok].dev
<1> DEFINE a == device[session.dev].acc
           e == token[session.tok].dev
<1>1. /\ UNCHANGED <<server, answer, memory, disk, auth, ends, cut, mixed>>
      /\ cmd[t] = None /\ session # None
      /\ \A s \in Tasks : cmd[s] # None => cmd[s].kind # kind
  BY Zenon DEF Start
<1>2. PICK d \in IF kind = "revoke" THEN DevicesOf(a) ELSE {0} :
        /\ Set(t, [kind |-> kind, acc |-> session.key, dev |-> 0, key |-> None,
                   pw |-> password[a], target |-> d, pc |-> "refresh"])
        /\ Send(t, [ReqOf("refresh", t, a, e) EXCEPT !.tok = session.tok])
  BY Zenon DEF Start
<1>3. Issued
  BY DEF Inv, TypeOK, Issued
<1>4. /\ a \in Accounts /\ e \in DOMAIN device /\ e \in Nat /\ session.tok \in Nat
      /\ session.key \in Keys
  BY <1>1, <1>3, IssuedFacts, SessionFacts DEF Inv, Held, Opened, Keys
<1>5. vault[a] # None
  BY <1>1 DEF Inv, Held, Opened
<1>6. password[a] \in Passwords
  BY <1>4, <1>5 DEF Inv, TypeOK, Vaults
<1>7. d \in Nat
  BY <1>2, <1>3, IssuedFacts DEF DevicesOf
<1> HIDE DEF a, e
<1>8. PICK c : c = [kind |-> kind, acc |-> session.key, dev |-> 0, key |-> None,
                    pw |-> password[a], target |-> d, pc |-> "refresh"]
  OBVIOUS
<1>9. c \in Command /\ c.kind = kind /\ c.acc = session.key /\ c.pc = "refresh"
  BY <1>4, <1>6, <1>7, <1>8, NoneFacts DEF Command, Keys
<1>10. Set(t, c)
  BY <1>2, <1>8, Zenon
<1>11. PICK p : p = ReqOf("refresh", t, a, e)
  OBVIOUS
<1>12. p \in Request /\ p.kind = "refresh" /\ p.step = "arrived" /\ p.dev = e
  <2>1. t \in Callers /\ e \in Nat /\ a \in Accounts
    BY <1>4, NoneFacts
  <2>2. QED
    BY <1>11, <2>1, ReqOfFacts
<1>13. PICK r : r = [p EXCEPT !.tok = session.tok]
  OBVIOUS
<1>14. r \in Request /\ r.kind = "refresh" /\ r.step = "arrived" /\ r.dev = e /\ r.tok = session.tok
  BY <1>4, <1>12, <1>13 DEF Request
<1>15. Send(t, r)
  BY <1>2, <1>11, <1>13, Zenon
<1>16. \E q : /\ Sends(t, q) /\ q.kind = "refresh" /\ q.step = "arrived"
              /\ q.tok = session.tok /\ q.dev = e
  BY <1>14, <1>15, SendSends, NoneFacts DEF Inv
<1>17. \E c2 \in Command : /\ Sets(t, c2) /\ c2.kind = kind /\ c2.acc = session.key
                           /\ c2.pc = "refresh"
  BY <1>9, <1>10, SetSets DEF Inv
<1>18. QED
  BY <1>1, <1>16, <1>17 DEF e

(* The fresh tokens go into the session there is; revoking the device of   *)
(* the session itself is refused, every other command sends its request.   *)
LEMMA RefreshAnsweredDoes ==
  ASSUME Inv, NEW t \in Tasks, RefreshAnswered(t)
  PROVE  /\ UNCHANGED <<server, syncKey, profile, active, keyFile, versions, auth, ends, cut>>
         /\ cmd[t] # None /\ cmd[t].pc = "refresh" /\ answer[t] # None /\ answer[t].ok
         /\ session # None /\ session' \in Session
         /\ session'.tok = answer[t].tok /\ session'.dev = answer[t].dev
         /\ session'.key = session.key /\ session'.cursor = session.cursor
         /\ mixed' = (mixed \/ cmd[t].acc # session.key)
         /\ outbox' = IF cmd[t].kind = "push" THEN outbox \cup {session.key} ELSE outbox
         /\ Takes(t)
         /\ \/ cmd[t].kind = "revoke" /\ Sets(t, None) /\ UNCHANGED requests
            \/ \E c \in Command : \E q :
                 /\ Sets(t, c) /\ c.kind = cmd[t].kind /\ c.acc = cmd[t].acc
                 /\ c.dev = answer[t].dev /\ c.key = session.key /\ c.pc = "request"
                 /\ Sends(t, q) /\ q.kind = cmd[t].kind /\ q.step = "arrived"
                 /\ q.acc = device[answer[t].dev].acc /\ q.dev = answer[t].dev
                 /\ q.key = session.key
<1> DEFINE d == answer[t].dev
           a == device[d].acc
<1>1. /\ UNCHANGED <<server, syncKey, profile, active, keyFile, versions, auth, ends, cut>>
      /\ cmd[t] # None /\ cmd[t].pc = "refresh" /\ answer[t] # None /\ answer[t].ok
      /\ session # None
      /\ session' = [session EXCEPT !.tok = answer[t].tok, !.dev = d]
      /\ mixed' = (mixed \/ cmd[t].acc # session.key)
      /\ outbox' = IF cmd[t].kind = "push" THEN outbox \cup {session.key} ELSE outbox
      /\ Take(t)
  BY Zenon DEF RefreshAnswered
<1>2. IF cmd[t].kind = "revoke" /\ cmd[t].target = d
        THEN Set(t, None) /\ UNCHANGED requests
        ELSE /\ Set(t, [cmd[t] EXCEPT !.dev = d, !.key = session.key, !.pc = "request"])
             /\ Send(t, [ReqOf(cmd[t].kind, t, a, d)
                         EXCEPT !.key = session.key, !.pw = cmd[t].pw, !.target = cmd[t].target])
  BY Zenon DEF RefreshAnswered
<1>3. Issued /\ TypeOK
  BY DEF Inv, TypeOK, Issued
<1>4. d \in Nat /\ answer[t].tok \in Nat /\ d \in DOMAIN device
  BY <1>1, <1>3, AnswerFacts, NoneFacts DEF Inv, Granted, Opened
<1>5. a \in Accounts
  BY <1>3, <1>4, IssuedFacts
<1>6. /\ session' \in Session
      /\ session'.tok = answer[t].tok /\ session'.dev = d
      /\ session'.key = session.key /\ session'.cursor = session.cursor
  <2>1. PICK s : s = [session EXCEPT !.tok = answer[t].tok, !.dev = d]
    OBVIOUS
  <2>2. /\ s \in Session /\ s.tok = answer[t].tok /\ s.dev = d
        /\ s.key = session.key /\ s.cursor = session.cursor
    BY <1>1, <1>3, <1>4, <2>1, SessionFacts DEF Session
  <2>3. session' = s
    BY <1>1, <2>1, Zenon
  <2>4. QED
    BY <2>2, <2>3
<1>7. CASE cmd[t].kind = "revoke" /\ cmd[t].target = d
  BY <1>1, <1>2, <1>3, <1>6, <1>7, SetSets, TakeTakes, NoneFacts
<1>8. CASE ~(cmd[t].kind = "revoke" /\ cmd[t].target = d)
  <2> HIDE DEF a, d
  <2>1. PICK c : c = [cmd[t] EXCEPT !.dev = d, !.key = session.key, !.pc = "request"]
    OBVIOUS
  <2>2. /\ c \in Command /\ c.kind = cmd[t].kind /\ c.acc = cmd[t].acc
        /\ c.dev = d /\ c.key = session.key /\ c.pc = "request"
    BY <1>1, <1>3, <1>4, <2>1, CommandFacts, SessionFacts DEF Command, Keys
  <2>3. Set(t, c)
    BY <1>2, <1>8, <2>1, Zenon
  <2>4. PICK p : p = ReqOf(cmd[t].kind, t, a, d)
    OBVIOUS
  <2>5. p \in Request /\ p.kind = cmd[t].kind /\ p.step = "arrived" /\ p.acc = a /\ p.dev = d
    BY <1>1, <1>3, <1>4, <1>5, <2>4, NoneFacts, CommandFacts, ReqOfFacts
  <2>6. PICK r : r = [p EXCEPT !.key = session.key, !.pw = cmd[t].pw, !.target = cmd[t].target]
    OBVIOUS
  <2>7. /\ r \in Request /\ r.kind = cmd[t].kind /\ r.step = "arrived" /\ r.acc = a /\ r.dev = d
        /\ r.key = session.key
    BY <1>1, <1>3, <2>5, <2>6, CommandFacts, SessionFacts DEF Request, Keys
  <2>8. Send(t, r)
    BY <1>2, <1>8, <2>4, <2>6, Zenon
  <2>9. PICK q : /\ Sends(t, q) /\ q.kind = cmd[t].kind /\ q.step = "arrived" /\ q.acc = a
                 /\ q.dev = d /\ q.key = session.key
    BY <1>3, <2>7, <2>8, SendSends, NoneFacts
  <2>10. Sets(t, c) /\ Takes(t)
    BY <1>1, <1>3, <2>2, <2>3, SetSets, TakeTakes, NoneFacts
  <2>11. QED
    BY <1>1, <1>6, <2>2, <2>9, <2>10 DEF a, d
<1>9. QED
  BY <1>7, <1>8

LEMMA AnswerFailsDoes ==
  ASSUME Inv, NEW t \in Tasks, AnswerFails(t)
  PROVE  /\ UNCHANGED <<server, requests, memory, disk, auth, ends, cut, mixed>>
         /\ cmd[t] # None /\ answer[t] # None /\ Fails(t) /\ Takes(t) /\ FailsTo(t)
<1>1. /\ UNCHANGED <<server, requests, memory, disk, auth, ends, cut, mixed>>
      /\ cmd[t] # None /\ Fails(t) /\ Take(t) /\ Failed(t)
  BY Zenon DEF AnswerFails
<1>2. QED
  BY <1>1, FailedFails, TakeTakes, NoneFacts DEF Inv, Fails

(* The answer a command waited for.                                        *)
LEMMA ServedDoes ==
  ASSUME Inv, NEW t \in Tasks, Listed(t) \/ Pushed(t) \/ Pulled(t) \/ LoggedOut(t)
  PROVE  /\ UNCHANGED <<server, requests, memory, profile, active, keyFile, auth, ends, cut>>
         /\ cmd[t] # None /\ cmd[t].pc = "request" /\ answer[t] # None /\ Takes(t)
         /\ \/ /\ Sets(t, None) /\ outbox' \subseteq outbox /\ UNCHANGED <<versions, mixed>>
            \/ /\ cmd[t].kind \in {"logout", "password"} /\ GoesTo(t, "clear")
               /\ UNCHANGED <<outbox, versions, mixed>>
            \/ /\ cmd[t].kind = "pull" /\ GoesTo(t, "cursor") /\ UNCHANGED outbox
               /\ versions' = versions \cup {device[cmd[t].dev].acc}
               /\ mixed' = (mixed \/ device[cmd[t].dev].acc # active)
<1>1. /\ UNCHANGED <<server, requests, memory, profile, active, keyFile, auth, ends, cut>>
      /\ cmd[t] # None /\ cmd[t].pc = "request" /\ answer[t] # None /\ Take(t)
  BY Zenon DEF Listed, Pushed, Pulled, LoggedOut, Served
<1>2. Takes(t)
  BY <1>1, TakeTakes, NoneFacts DEF Inv
<1>3. CASE Listed(t)
  BY <1>1, <1>2, <1>3, SetSets DEF Listed, Inv
<1>4. CASE Pushed(t)
  BY <1>1, <1>2, <1>4, SetSets DEF Pushed, Inv
<1>5. CASE Pulled(t)
  BY <1>1, <1>2, <1>5, SetSets, GotoGoes DEF Pulled, Served, Mixing, Inv
<1>6. CASE LoggedOut(t)
  BY <1>1, <1>2, <1>6, GotoGoes DEF LoggedOut, Served, Inv
<1>7. QED
  BY <1>3, <1>4, <1>5, <1>6

(* A step changes one profile at most, a local one the active profile.     *)
Profiled(b, p) ==
  /\ profile' \in [Accounts -> Profile \cup {None}]
  /\ \A a \in Accounts : profile'[a] = IF a = b THEN p ELSE profile[a]

LEMMA ActiveFacts ==
  ASSUME Inv, active # None
  PROVE  /\ active \in Accounts /\ profile[active] # None /\ profile[active] \in Profile
         /\ profile[active].dev \in Nat /\ profile[active].cipher \in Nat \cup {None}
         /\ profile[active].cursor \in {0, 1}
BY DEF Inv, Held, TypeOK, Keys, Profile

LEMMA SetActiveDoes ==
  ASSUME Inv, NEW p \in Profile, SetActive(p)
  PROVE  IF active = None THEN UNCHANGED profile ELSE Profiled(active, p)
BY ActiveFacts DEF SetActive, Profiled, Inv, TypeOK

LEMMA LocalDoes ==
  ASSUME Inv, NEW t \in Tasks, SaveCursor(t) \/ ClearRefresh(t) \/ DropSession(t) \/ LocalFails(t)
  PROVE  /\ UNCHANGED <<server, requests, answer, syncKey, active, keyFile, outbox, versions,
                        auth, ends, cut>>
         /\ cmd[t] # None
         /\ \/ /\ cmd[t].pc = "cursor" /\ Sets(t, None)
               /\ session = None => session' = None
               /\ session # None =>
                    /\ session' \in Session /\ session'.tok = session.tok
                    /\ session'.dev = session.dev /\ session'.key = session.key
               /\ active = None => UNCHANGED profile
               /\ active # None => \E p \in Profile :
                    /\ Profiled(active, p) /\ p.dev = profile[active].dev
                    /\ p.cipher = profile[active].cipher /\ p.cursor = 1
               /\ mixed' = (mixed \/ device[cmd[t].dev].acc # active)
            \/ /\ cmd[t].pc = "clear" /\ GoesTo(t, "drop") /\ UNCHANGED <<session, mixed>>
               /\ active = None => UNCHANGED profile
               /\ active # None => \E p \in Profile :
                    /\ Profiled(active, p) /\ p.dev = profile[active].dev
                    /\ p.cipher = None /\ p.cursor = profile[active].cursor
            \/ /\ cmd[t].pc = "drop" /\ Sets(t, None) /\ session' = None /\ UNCHANGED profile
               /\ mixed' = (mixed \/ (session # None /\ active # None
                                        /\ profile[active].cipher # None))
            \/ /\ cmd[t].pc \in {"cursor", "clear"} /\ Sets(t, None)
               /\ session = None => session' = None
               /\ session # None =>
                    /\ session' \in Session /\ session'.tok = session.tok
                    /\ session'.dev = session.dev /\ session'.key = session.key
               /\ UNCHANGED <<profile, mixed>>
<1>1. /\ UNCHANGED <<server, requests, answer, syncKey, active, keyFile, outbox, versions,
                     auth, ends, cut>>
      /\ cmd[t] # None
  BY Zenon DEF SaveCursor, ClearRefresh, DropSession, LocalFails, Local
<1>2. CASE SaveCursor(t)
  <2>1. /\ cmd[t].pc = "cursor" /\ Set(t, None)
        /\ session' = IF session = None THEN None ELSE [session EXCEPT !.cursor = 1]
        /\ SetActive([profile[active] EXCEPT !.cursor = 1])
        /\ mixed' = (mixed \/ device[cmd[t].dev].acc # active)
    BY <1>2, Zenon DEF SaveCursor, Local, Mixing
  <2>2. session # None =>
          /\ session' \in Session /\ session'.tok = session.tok
          /\ session'.dev = session.dev /\ session'.key = session.key
    <3>1. SUFFICES ASSUME session # None
                   PROVE  /\ session' \in Session /\ session'.tok = session.tok
                          /\ session'.dev = session.dev /\ session'.key = session.key
      OBVIOUS
    <3>2. PICK s : s = [session EXCEPT !.cursor = 1]
      OBVIOUS
    <3>3. s \in Session /\ s.tok = session.tok /\ s.dev = session.dev /\ s.key = session.key
      BY <3>1, <3>2, SessionFacts DEF Session, Inv
    <3>4. session' = s
      BY <2>1, <3>1, <3>2, Zenon
    <3>5. QED
      BY <3>3, <3>4
  <2>3. active # None => \E p \in Profile :
          /\ Profiled(active, p) /\ p.dev = profile[active].dev
          /\ p.cipher = profile[active].cipher /\ p.cursor = 1
    <3>1. SUFFICES ASSUME active # None
                   PROVE  \E p \in Profile :
                            /\ Profiled(active, p) /\ p.dev = profile[active].dev
                            /\ p.cipher = profile[active].cipher /\ p.cursor = 1
      OBVIOUS
    <3>2. PICK p : p = [profile[active] EXCEPT !.cursor = 1]
      OBVIOUS
    <3>3. /\ p \in Profile /\ p.dev = profile[active].dev
          /\ p.cipher = profile[active].cipher /\ p.cursor = 1
      BY <3>1, <3>2, ActiveFacts DEF Profile
    <3>4. SetActive(p)
      BY <2>1, <3>2, Zenon
    <3>5. QED
      BY <3>1, <3>3, <3>4, SetActiveDoes
  <2>4. active = None => UNCHANGED profile
    BY <2>1, Zenon DEF SetActive
  <2>5. QED
    BY <1>1, <2>1, <2>2, <2>3, <2>4, SetSets DEF Inv
<1>3. CASE ClearRefresh(t)
  <2>1. /\ cmd[t].pc = "clear" /\ Goto(t, "drop") /\ UNCHANGED <<session, mixed>>
        /\ SetActive([profile[active] EXCEPT !.cipher = None])
    BY <1>3, Zenon DEF ClearRefresh, Local
  <2>2. active # None => \E p \in Profile :
          /\ Profiled(active, p) /\ p.dev = profile[active].dev
          /\ p.cipher = None /\ p.cursor = profile[active].cursor
    <3>1. SUFFICES ASSUME active # None
                   PROVE  \E p \in Profile :
                            /\ Profiled(active, p) /\ p.dev = profile[active].dev
                            /\ p.cipher = None /\ p.cursor = profile[active].cursor
      OBVIOUS
    <3>2. PICK p : p = [profile[active] EXCEPT !.cipher = None]
      OBVIOUS
    <3>3. /\ p \in Profile /\ p.dev = profile[active].dev
          /\ p.cipher = None /\ p.cursor = profile[active].cursor
      BY <3>1, <3>2, ActiveFacts DEF Profile
    <3>4. SetActive(p)
      BY <2>1, <3>2, Zenon
    <3>5. QED
      BY <3>1, <3>3, <3>4, SetActiveDoes
  <2>3. active = None => UNCHANGED profile
    BY <2>1, Zenon DEF SetActive
  <2>4. QED
    BY <1>1, <2>1, <2>2, <2>3, GotoGoes DEF Inv
<1>4. CASE DropSession(t)
  <2>1. /\ cmd[t].pc = "drop" /\ Set(t, None) /\ session' = None /\ UNCHANGED profile
        /\ mixed' = (mixed \/ (session # None /\ active # None
                                 /\ profile[active].cipher # None))
    BY <1>4, Zenon DEF DropSession, Local
  <2>2. QED
    BY <1>1, <2>1, SetSets DEF Inv
<1>5. CASE LocalFails(t)
  <2>1. /\ cmd[t].pc \in {"cursor", "clear"} /\ Set(t, None) /\ UNCHANGED <<profile, mixed>>
        /\ session' \in {session} \cup (IF session = None \/ cmd[t].pc = "clear" THEN {}
                                        ELSE {[session EXCEPT !.cursor = 1]})
    BY <1>5, Zenon DEF LocalFails, Local
  <2>2. PICK s : s = [session EXCEPT !.cursor = 1]
    OBVIOUS
  <2>3. session # None =>
          /\ session \in Session
          /\ s \in Session /\ s.tok = session.tok /\ s.dev = session.dev /\ s.key = session.key
    BY <2>2, SessionFacts DEF Session, Inv
  <2>4. session' = session \/ (session # None /\ session' = s)
    BY <2>1, <2>2, Zenon
  <2>5. QED
    BY <1>1, <2>1, <2>3, <2>4, SetSets DEF Inv
<1>6. QED
  BY <1>2, <1>3, <1>4, <1>5

(* A refused statement: the command ends, and the session is kept.         *)
LEMMA LocalFailsDoes ==
  ASSUME Inv, NEW t \in Tasks, LocalFails(t)
  PROVE  /\ UNCHANGED <<profile, active, auth, mixed>>
         /\ cmd[t] # None /\ cmd[t].pc \in {"cursor", "clear"} /\ Sets(t, None)
         /\ session # None => session' # None
<1>1. /\ UNCHANGED <<profile, active, auth, mixed>>
      /\ cmd[t] # None /\ cmd[t].pc \in {"cursor", "clear"} /\ Set(t, None)
      /\ session' \in {session} \cup (IF session = None \/ cmd[t].pc = "clear" THEN {}
                                      ELSE {[session EXCEPT !.cursor = 1]})
  BY Zenon DEF LocalFails, Local
<1>2. session # None => [session EXCEPT !.cursor = 1] \in Session
  BY SessionFacts DEF Session, Inv
<1>3. QED
  BY <1>1, <1>2, SetSets, NoneOK DEF Inv

-----------------------------------------------------------------------------
(* What the steps of a login do.                                           *)
Begins(p, a, reg) ==
  p \in AuthTask /\ auth' = p /\ p.acc = a /\ p.reg = reg /\ p.pc = "tokens"

Advances(p, pc) ==
  /\ auth # None /\ p \in AuthTask /\ auth' = p
  /\ p.reg = auth.reg /\ p.acc = auth.acc /\ p.pw = auth.pw /\ p.pc = pc

Keeps(p) == p.tok = auth.tok /\ p.dev = auth.dev /\ p.key = auth.key

LEMMA AuthStartDoes ==
  ASSUME Inv, NEW a \in Accounts, NEW reg \in BOOLEAN, AuthStart(a, reg)
  PROVE  /\ UNCHANGED <<server, answer, memory, disk, cmd, ends, cut, mixed>>
         /\ auth = None /\ session = None
         /\ \E p, q : /\ Begins(p, a, reg)
                      /\ Sends(Auth, q) /\ q.acc = a /\ q.pw = p.pw /\ q.step = "arrived"
                      /\ q.kind = (IF reg THEN "register" ELSE "login")
<1> DEFINE pw == IF password[a] = None THEN 0 ELSE password[a]
           kind == IF reg THEN "register" ELSE "login"
<1>1. /\ UNCHANGED <<server, answer, memory, disk, cmd, ends, cut, mixed>>
      /\ auth = None /\ session = None
      /\ auth' = [reg |-> reg, acc |-> a, pw |-> pw, tok |-> 0, dev |-> 0, key |-> None,
                  pc |-> "tokens"]
      /\ Send(Auth, [ReqOf(kind, Auth, a, 0) EXCEPT !.pw = pw])
  BY Zenon DEF AuthStart, Serving
<1>2. pw \in Passwords /\ None \in Keys /\ kind \in {"register", "login"}
  BY NoneFacts DEF Inv, TypeOK, Keys
<1> HIDE DEF pw
<1>3. PICK p : p = [reg |-> reg, acc |-> a, pw |-> pw, tok |-> 0, dev |-> 0, key |-> None,
                    pc |-> "tokens"]
  OBVIOUS
<1>4. Begins(p, a, reg) /\ p.pw = pw
  BY <1>1, <1>2, <1>3 DEF AuthTask, Begins
<1> HIDE DEF kind
<1>5. PICK r0 : r0 = ReqOf(kind, Auth, a, 0)
  OBVIOUS
<1>6. r0 \in Request /\ r0.kind = kind /\ r0.step = "arrived" /\ r0.acc = a
  BY <1>2, <1>5, NoneFacts, ReqOfFacts
<1>7. PICK r : r = [r0 EXCEPT !.pw = pw]
  OBVIOUS
<1>8. r \in Request /\ r.kind = kind /\ r.step = "arrived" /\ r.acc = a /\ r.pw = pw
  BY <1>2, <1>6, <1>7 DEF Request
<1>9. Send(Auth, r)
  BY <1>1, <1>5, <1>7, Zenon
<1>10. PICK q : Sends(Auth, q) /\ q.kind = kind /\ q.step = "arrived" /\ q.acc = a /\ q.pw = pw
  BY <1>8, <1>9, SendSends, NoneFacts DEF Inv
<1>11. QED
  BY <1>1, <1>4, <1>10 DEF kind

LEMMA AuthTokensDoes ==
  ASSUME Inv, AuthTokens
  PROVE  /\ UNCHANGED <<server, memory, disk, cmd, ends, cut, mixed>>
         /\ auth.pc = "tokens" /\ answer[Auth] # None /\ answer[Auth].ok /\ Takes(Auth)
         /\ \E p, q : /\ Advances(p, "vault") /\ p.tok = answer[Auth].tok
                      /\ p.dev = answer[Auth].dev
                      /\ Sends(Auth, q) /\ q.acc = auth.acc /\ q.dev = answer[Auth].dev
                      /\ q.pw = auth.pw /\ q.key = auth.acc /\ q.step = "arrived"
                      /\ q.kind = (IF auth.reg THEN "put_vault" ELSE "get_vault")
<1> DEFINE kind == IF auth.reg THEN "put_vault" ELSE "get_vault"
           d == answer[Auth].dev
<1>1. /\ UNCHANGED <<server, memory, disk, cmd, ends, cut, mixed>>
      /\ auth # None /\ auth.pc = "tokens" /\ answer[Auth] # None /\ answer[Auth].ok
      /\ Take(Auth)
      /\ auth' = [auth EXCEPT !.tok = answer[Auth].tok, !.dev = d, !.pc = "vault"]
      /\ Send(Auth, [ReqOf(kind, Auth, auth.acc, d) EXCEPT !.pw = auth.pw, !.key = auth.acc])
  BY Zenon DEF AuthTokens, Serving
<1>2. /\ auth \in AuthTask /\ auth.acc \in Accounts /\ auth.pw \in Passwords
      /\ answer[Auth].tok \in Nat /\ d \in Nat
      /\ kind \in {"put_vault", "get_vault"}
  BY <1>1, AuthFacts, AnswerFacts, NoneFacts DEF Inv
<1> HIDE DEF kind, d
<1>3. PICK p : p = [auth EXCEPT !.tok = answer[Auth].tok, !.dev = d, !.pc = "vault"]
  OBVIOUS
<1>4. /\ p \in AuthTask /\ p.tok = answer[Auth].tok /\ p.dev = d
      /\ p.reg = auth.reg /\ p.acc = auth.acc /\ p.pw = auth.pw /\ p.pc = "vault"
  BY <1>2, <1>3 DEF AuthTask
<1>5. auth' = p
  BY <1>1, <1>3, Zenon
<1>6. PICK r0 : r0 = ReqOf(kind, Auth, auth.acc, d)
  OBVIOUS
<1>7. r0 \in Request /\ r0.kind = kind /\ r0.step = "arrived" /\ r0.acc = auth.acc /\ r0.dev = d
  BY <1>2, <1>6, NoneFacts, ReqOfFacts
<1>8. PICK r : r = [r0 EXCEPT !.pw = auth.pw, !.key = auth.acc]
  OBVIOUS
<1>9. /\ r \in Request /\ r.kind = kind /\ r.step = "arrived" /\ r.acc = auth.acc /\ r.dev = d
      /\ r.pw = auth.pw /\ r.key = auth.acc
  BY <1>2, <1>7, <1>8 DEF Request, Keys
<1>10. Send(Auth, r)
  BY <1>1, <1>6, <1>8, Zenon
<1>11. PICK q : /\ Sends(Auth, q) /\ q.kind = kind /\ q.step = "arrived" /\ q.acc = auth.acc
                /\ q.dev = d /\ q.pw = auth.pw /\ q.key = auth.acc
  BY <1>9, <1>10, SendSends, NoneFacts DEF Inv
<1>12. Takes(Auth)
  BY <1>1, TakeTakes, NoneFacts DEF Inv
<1>13. QED
  BY <1>1, <1>4, <1>5, <1>11, <1>12 DEF kind, d, Advances

LEMMA AuthVaultDoes ==
  ASSUME Inv, AuthVault
  PROVE  /\ UNCHANGED <<server, requests, memory, disk, cmd, ends, cut, mixed>>
         /\ auth.pc = "vault" /\ answer[Auth] # None /\ answer[Auth].ok /\ Takes(Auth)
         /\ \E p : /\ Advances(p, "activate") /\ p.tok = auth.tok /\ p.dev = auth.dev
                   /\ p.key \in Accounts
                   /\ auth.reg => p.key = auth.acc
                   /\ ~auth.reg => p.key \in answer[Auth].keys
<1> DEFINE key == IF auth.reg THEN auth.acc ELSE CHOOSE k \in answer[Auth].keys : TRUE
<1>1. /\ UNCHANGED <<server, requests, memory, disk, cmd, ends, cut, mixed>>
      /\ auth # None /\ auth.pc = "vault" /\ answer[Auth] # None /\ answer[Auth].ok
      /\ Take(Auth)
      /\ auth' = [auth EXCEPT !.pc = "activate", !.key = key]
  BY Zenon DEF AuthVault, Serving, Opens
<1>2. auth \in AuthTask /\ auth.acc \in Accounts /\ answer[Auth].keys \subseteq Accounts
  BY <1>1, AuthFacts, AnswerFacts, NoneFacts DEF Inv
<1>3. ~auth.reg => answer[Auth].keys # {}
  BY <1>1 DEF Inv, Granted
<1>4. auth.reg => key = auth.acc
  OBVIOUS
<1>5. ~auth.reg => key \in answer[Auth].keys
  BY <1>3
<1> HIDE DEF key
<1>6. key \in Accounts
  BY <1>2, <1>4, <1>5
<1>7. PICK p : p = [auth EXCEPT !.pc = "activate", !.key = key]
  OBVIOUS
<1>8. /\ p \in AuthTask /\ p.tok = auth.tok /\ p.dev = auth.dev /\ p.key = key
      /\ p.reg = auth.reg /\ p.acc = auth.acc /\ p.pw = auth.pw /\ p.pc = "activate"
  BY <1>2, <1>6, <1>7 DEF AuthTask, Keys
<1>9. auth' = p
  BY <1>1, <1>7, Zenon
<1>10. Takes(Auth)
  BY <1>1, TakeTakes, NoneFacts DEF Inv
<1>11. QED
  BY <1>1, <1>4, <1>5, <1>6, <1>8, <1>9, <1>10 DEF Advances

LEMMA AuthFailsDoes ==
  ASSUME Inv, AuthFails
  PROVE  /\ UNCHANGED <<server, requests, memory, disk, cmd, ends, cut, mixed>>
         /\ auth # None /\ auth' = None /\ auth.pc \in {"tokens", "vault"} /\ Takes(Auth)
<1>1. /\ UNCHANGED <<server, requests, memory, disk, cmd, ends, cut, mixed>>
      /\ auth # None /\ auth' = None /\ Take(Auth)
      /\ IF auth.pc = "tokens" THEN ~answer[Auth].ok ELSE auth.pc = "vault" /\ ~Opens
  BY Zenon DEF AuthFails, Serving
<1>2. QED
  BY <1>1, TakeTakes, NoneFacts DEF Inv

LEMMA ActivateDoes ==
  ASSUME Inv, Activate
  PROVE  /\ UNCHANGED <<server, requests, answer, memory, keyFile, cmd, ends, cut>>
         /\ auth.pc = "activate" /\ active' = auth.acc
         /\ \E p : Advances(p, "persist") /\ Keeps(p)
         /\ \E x \in Profile :
              /\ Profiled(auth.acc, x) /\ x.dev = auth.dev
              /\ profile[auth.acc] = None => x.cipher = None /\ x.cursor = 0
              /\ profile[auth.acc] # None =>
                   /\ x.cipher = profile[auth.acc].cipher
                   /\ x.cursor = IF Switched THEN 0 ELSE profile[auth.acc].cursor
         /\ outbox' = IF Switched THEN {} ELSE outbox
         /\ versions' = IF Switched THEN {} ELSE versions
         /\ mixed' = (mixed \/ (Switched /\ \E t \in Tasks : cmd[t] # None /\ cmd[t].pc = "cursor"))
<1> DEFINE old == profile[auth.acc]
           cursor == IF Switched THEN 0 ELSE old.cursor
<1>1. /\ UNCHANGED <<server, requests, answer, memory, keyFile, cmd, ends, cut>>
      /\ auth # None /\ auth.pc = "activate" /\ active' = auth.acc
      /\ auth' = [auth EXCEPT !.pc = "persist"]
      /\ profile' = [profile EXCEPT ![auth.acc] =
            IF profile[auth.acc] = None THEN [dev |-> auth.dev, cipher |-> None, cursor |-> 0]
            ELSE [profile[auth.acc] EXCEPT !.dev = auth.dev,
                     !.cursor = IF Switched THEN 0 ELSE profile[auth.acc].cursor]]
      /\ outbox' = IF Switched THEN {} ELSE outbox
      /\ versions' = IF Switched THEN {} ELSE versions
      /\ mixed' = (mixed \/ (Switched /\ \E t \in Tasks : cmd[t] # None /\ cmd[t].pc = "cursor"))
  BY Zenon DEF Activate, Serving
<1>2. auth \in AuthTask /\ auth.acc \in Accounts /\ auth.dev \in Nat
  BY <1>1, AuthFacts DEF Inv
<1>3. profile \in [Accounts -> Profile \cup {None}]
  BY DEF Inv, TypeOK
<1>4. PICK x : x = IF profile[auth.acc] = None
                     THEN [dev |-> auth.dev, cipher |-> None, cursor |-> 0]
                     ELSE [profile[auth.acc] EXCEPT !.dev = auth.dev,
                             !.cursor = IF Switched THEN 0 ELSE profile[auth.acc].cursor]
  OBVIOUS
<1>5. profile' = [profile EXCEPT ![auth.acc] = x]
  BY <1>1, <1>4, Zenon
<1>8. /\ x \in Profile /\ x.dev = auth.dev
      /\ old = None => x.cipher = None /\ x.cursor = 0
      /\ old # None => x.cipher = old.cipher /\ x.cursor = cursor
  <2> HIDE DEF cursor
  <2>1. CASE old = None
    <3>1. x = [dev |-> auth.dev, cipher |-> None, cursor |-> 0]
      BY <1>4, <2>1, Zenon
    <3>2. x \in Profile /\ x.dev = auth.dev /\ x.cipher = None /\ x.cursor = 0
      BY <1>2, <3>1 DEF Profile
    <3>3. QED
      BY <2>1, <3>2
  <2>2. CASE old # None
    <3>1. old \in Profile /\ cursor \in {0, 1}
      BY <1>2, <1>3, <2>2 DEF Profile, cursor
    <3>2. x = [old EXCEPT !.dev = auth.dev, !.cursor = cursor]
      BY <1>4, <2>2, Zenon DEF cursor
    <3>3. x \in Profile /\ x.dev = auth.dev /\ x.cipher = old.cipher /\ x.cursor = cursor
      BY <1>2, <3>1, <3>2 DEF Profile
    <3>4. QED
      BY <2>2, <3>3
  <2>3. QED
    BY <2>1, <2>2
<1>9. Profiled(auth.acc, x)
  BY <1>2, <1>3, <1>5, <1>8 DEF Profiled
<1>10. \E p : Advances(p, "persist") /\ Keeps(p)
  <2>1. PICK p : p = [auth EXCEPT !.pc = "persist"]
    OBVIOUS
  <2>2. /\ p \in AuthTask /\ Keeps(p)
        /\ p.reg = auth.reg /\ p.acc = auth.acc /\ p.pw = auth.pw /\ p.pc = "persist"
    BY <1>2, <2>1 DEF AuthTask, Keeps
  <2>3. auth' = p
    BY <1>1, <2>1, Zenon
  <2>4. QED
    BY <1>1, <2>2, <2>3 DEF Advances
<1>11. QED
  BY <1>1, <1>8, <1>9, <1>10

LEMMA PersistDoes ==
  ASSUME Inv, PersistRefresh
  PROVE  /\ UNCHANGED <<server, requests, answer, memory, active, keyFile, outbox, versions,
                        cmd, ends, cut, mixed>>
         /\ auth.pc = "persist"
         /\ \E p : Advances(p, "session") /\ Keeps(p)
         /\ \E x \in Profile : /\ Profiled(auth.acc, x) /\ x.dev = profile[auth.acc].dev
                               /\ x.cipher = auth.tok /\ x.cursor = profile[auth.acc].cursor
<1>1. /\ UNCHANGED <<server, requests, answer, memory, active, keyFile, outbox, versions,
                     cmd, ends, cut, mixed>>
      /\ auth # None /\ auth.pc = "persist"
      /\ auth' = [auth EXCEPT !.pc = "session"]
      /\ profile' = [profile EXCEPT ![auth.acc].cipher = auth.tok]
  BY Zenon DEF PersistRefresh, Serving
<1>2. auth \in AuthTask /\ auth.acc \in Accounts /\ auth.tok \in Nat
  BY <1>1, AuthFacts DEF Inv
<1>3. profile \in [Accounts -> Profile \cup {None}] /\ profile[auth.acc] \in Profile
  BY <1>1, <1>2, ActiveFacts, NoneFacts DEF Inv, TypeOK, LoggingIn
<1>4. PICK x : x = [profile[auth.acc] EXCEPT !.cipher = auth.tok]
  OBVIOUS
<1>5. profile' = [profile EXCEPT ![auth.acc] = x]
  BY <1>1, <1>4, Zenon
<1>6. /\ x \in Profile /\ x.dev = profile[auth.acc].dev /\ x.cipher = auth.tok
      /\ x.cursor = profile[auth.acc].cursor
  BY <1>2, <1>3, <1>4 DEF Profile
<1>7. Profiled(auth.acc, x)
  BY <1>2, <1>3, <1>5, <1>6 DEF Profiled
<1>8. PICK p : p = [auth EXCEPT !.pc = "session"]
  OBVIOUS
<1>9. /\ p \in AuthTask /\ Keeps(p)
      /\ p.reg = auth.reg /\ p.acc = auth.acc /\ p.pw = auth.pw /\ p.pc = "session"
  BY <1>2, <1>8 DEF AuthTask, Keeps
<1>10. auth' = p
  BY <1>1, <1>8, Zenon
<1>11. QED
  BY <1>1, <1>6, <1>7, <1>9, <1>10 DEF Advances

LEMMA OpenSessionDoes ==
  ASSUME Inv, OpenSession
  PROVE  /\ UNCHANGED <<server, requests, answer, syncKey, disk, cmd, ends, cut, mixed>>
         /\ auth.pc = "session" /\ session' \in Session
         /\ session'.tok = auth.tok /\ session'.dev = auth.dev /\ session'.key = auth.key
         /\ \E p : Advances(p, "file") /\ Keeps(p)
<1>1. /\ UNCHANGED <<server, requests, answer, syncKey, disk, cmd, ends, cut, mixed>>
      /\ auth # None /\ auth.pc = "session"
      /\ session' = [tok |-> auth.tok, dev |-> auth.dev, key |-> auth.key,
                     cursor |-> profile[auth.acc].cursor]
      /\ auth' = [auth EXCEPT !.pc = "file"]
  BY Zenon DEF OpenSession
<1>2. /\ auth \in AuthTask /\ auth.acc \in Accounts /\ auth.tok \in Nat /\ auth.dev \in Nat
      /\ auth.key \in Accounts
  BY <1>1, AuthFacts DEF Inv, LoggingIn
<1>3. profile[auth.acc].cursor \in {0, 1}
  BY <1>1, <1>2, ActiveFacts, NoneFacts DEF Inv, LoggingIn
<1>4. /\ session' \in Session
      /\ session'.tok = auth.tok /\ session'.dev = auth.dev /\ session'.key = auth.key
  BY <1>1, <1>2, <1>3 DEF Session
<1>5. PICK p : p = [auth EXCEPT !.pc = "file"]
  OBVIOUS
<1>6. /\ p \in AuthTask /\ Keeps(p)
      /\ p.reg = auth.reg /\ p.acc = auth.acc /\ p.pw = auth.pw /\ p.pc = "file"
  BY <1>2, <1>5 DEF AuthTask, Keeps
<1>7. auth' = p
  BY <1>1, <1>5, Zenon
<1>8. QED
  BY <1>1, <1>4, <1>6, <1>7 DEF Advances

LEMMA AuthEndDoes ==
  ASSUME Inv, AuthDone \/ LoginFails
  PROVE  /\ UNCHANGED <<server, requests, answer, session, profile, active, outbox, versions,
                        cmd, ends, cut>>
         /\ auth # None /\ auth' = None
         /\ \/ auth.pc = "file" /\ keyFile' = auth.key /\ syncKey' = auth.key /\ UNCHANGED mixed
            \/ /\ auth.pc \in {"activate", "persist", "file"}
               /\ UNCHANGED <<keyFile, syncKey>> /\ mixed' = (mixed \/ Unfiled)
BY Zenon DEF AuthDone, LoginFails, memory, disk

-----------------------------------------------------------------------------
(* What a timeout and a restart do.                                        *)
LEMMA LostFacts ==
  ASSUME Inv, NEW c \in Callers
  PROVE  /\ LostRefresh(c) \subseteq Nat
         /\ \A r \in requests : r.by = c /\ At(r, "refresh", "rotated") => r.dev \in LostRefresh(c)
         /\ c \in Tasks /\ cmd[c] # None /\ cmd[c].pc = "refresh" /\ answer[c] # None
              /\ answer[c].ok => answer[c].dev \in LostRefresh(c)
<1> DEFINE S(r) == IF r.by = c /\ At(r, "refresh", "rotated") THEN {r.dev} ELSE {}
           A == UNION {S(r) : r \in requests}
           B == IF answer[c] # None /\ answer[c].ok /\ c \in Tasks /\ cmd[c].pc = "refresh"
                  THEN {answer[c].dev} ELSE {}
<1>1. LostRefresh(c) = A \cup B
  BY Zenon DEF LostRefresh
<1>2. \A r \in requests : S(r) \subseteq Nat
  BY RequestFacts DEF Inv
<1>3. B \subseteq Nat
  BY AnswerFacts DEF Inv
<1>4. \A r \in requests : r.by = c /\ At(r, "refresh", "rotated") => r.dev \in S(r)
  OBVIOUS
<1>5. c \in Tasks /\ cmd[c].pc = "refresh" /\ answer[c] # None /\ answer[c].ok => answer[c].dev \in B
  OBVIOUS
<1> HIDE DEF S, B
<1>6. A \subseteq Nat
  BY <1>2
<1>7. \A r \in requests : S(r) \subseteq A
  OBVIOUS
<1>8. QED
  BY <1>1, <1>3, <1>4, <1>5, <1>6, <1>7

LEMMA GiveUpDoes ==
  ASSUME Inv, NEW c \in Callers, GiveUp(c)
  PROVE  /\ UNCHANGED <<server, memory, disk, ends, mixed>>
         /\ Orphans({c}) /\ requests' \subseteq Request
         /\ cut' = cut \cup LostRefresh(c)
         /\ \/ c = Auth /\ auth # None /\ auth.pc \in {"tokens", "vault"} /\ auth' = None /\ UNCHANGED cmd
            \/ c \in Tasks /\ cmd[c] # None /\ cmd[c].pc \in {"refresh", "request"}
               /\ FailsTo(c) /\ UNCHANGED auth
<1>1. /\ UNCHANGED <<server, memory, disk, ends, mixed>>
      /\ Abandon({c}) /\ cut' = cut \cup LostRefresh(c) /\ Waiting(c)
      /\ IF c = Auth THEN auth' = None /\ UNCHANGED cmd ELSE Failed(c) /\ UNCHANGED auth
  BY Zenon DEF GiveUp
<1>2. Orphans({c}) /\ requests' \subseteq Request
  BY <1>1, AbandonDoes DEF Inv
<1>3. CASE c = Auth
  <2>1. auth # None /\ auth.pc \in {"tokens", "vault"}
    BY <1>1, <1>3, AuthFacts DEF Waiting, Inv, Calls, LoginAsks
  <2>2. QED
    BY <1>1, <1>2, <1>3, <2>1
<1>4. CASE c # Auth
  <2>1. c \in Tasks
    BY <1>4 DEF Callers
  <2>2. cmd[c] # None /\ cmd[c].pc \in {"refresh", "request"}
    BY <1>1, <2>1 DEF Waiting, Inv, Calls, Asks
  <2>3. QED
    BY <1>1, <1>2, <1>4, <2>1, <2>2, FailedFails DEF Inv
<1>5. QED
  BY <1>3, <1>4

LEMMA RestartDoes ==
  ASSUME Inv, Restart
  PROVE  /\ UNCHANGED <<server, disk>>
         /\ Orphans(Callers) /\ requests' \subseteq Request
         /\ auth' = None /\ cmd' = [t \in Tasks |-> None]
         /\ ends' \in 0 .. MaxEnds /\ ends' # ends /\ syncKey' = keyFile
         /\ session' = None => active = None \/ keyFile = None \/ profile[active].cipher = None
         /\ session' # None =>
              /\ active # None /\ keyFile # None /\ profile[active].cipher # None
              /\ session' \in Session /\ session'.tok = profile[active].cipher
              /\ session'.dev = profile[active].dev /\ session'.key = keyFile
         /\ mixed' = (mixed \/ Unfiled)
         /\ cut \subseteq cut' /\ cut' \subseteq Nat
         /\ \A t \in Tasks : cmd[t] # None => LostRefresh(t) \subseteq cut'
         /\ session # None /\ session' # None /\ session.tok # session'.tok => session'.dev \in cut'
         /\ session' # None /\ token[session'.tok].dev # session'.dev => session'.dev \in cut'
<1> DEFINE L == UNION {LostRefresh(c) : c \in {t \in Tasks : cmd[t] # None}}
           M == IF session # None /\ Restored # None /\ session.tok # Restored.tok
                  THEN {session.dev, Restored.dev} ELSE {}
           N == IF Restored # None /\ token[Restored.tok].dev # Restored.dev
                  THEN {Restored.dev} ELSE {}
<1>1. /\ UNCHANGED <<server, disk>> /\ Abandon(Callers)
      /\ ends < MaxEnds /\ ends' = ends + 1
      /\ auth' = None /\ cmd' = [t \in Tasks |-> None]
      /\ syncKey' = keyFile /\ session' = Restored
      /\ mixed' = (mixed \/ Unfiled)
  BY Zenon DEF Restart
<1>2. cut' = cut \cup L \cup M \cup N
  BY Zenon DEF Restart
<1>3. Orphans(Callers) /\ requests' \subseteq Request
  BY <1>1, AbandonDoes DEF Inv
<1>4. ends' \in 0 .. MaxEnds /\ ends' # ends
  BY <1>1, NoneFacts DEF Inv, TypeOK
<1>5. CASE active = None \/ keyFile = None \/ profile[active].cipher = None
  <2>1. session' = None /\ Restored = None
    BY <1>1, <1>5 DEF Restored
  <2>2. M = {} /\ N = {}
    BY <2>1
  <2> HIDE DEF M, N
  <2>3. L \subseteq Nat /\ \A t \in Tasks : cmd[t] # None => LostRefresh(t) \subseteq L
    BY LostFacts, NoneFacts
  <2> HIDE DEF L
  <2>4. cut \subseteq Nat
    BY DEF Inv, TypeOK
  <2>5. QED
    BY <1>1, <1>2, <1>3, <1>4, <1>5, <2>1, <2>2, <2>3, <2>4
<1>6. CASE active # None /\ keyFile # None /\ profile[active].cipher # None
  <2>1. session' = [tok |-> profile[active].cipher, dev |-> profile[active].dev, key |-> keyFile,
                    cursor |-> profile[active].cursor]
    BY <1>1, <1>6, Zenon DEF Restored
  <2>2. keyFile \in Accounts
    BY <1>6 DEF Inv, TypeOK, Keys
  <2>3. /\ session' \in Session /\ session'.tok = profile[active].cipher
        /\ session'.dev = profile[active].dev /\ session'.key = keyFile
    BY <1>6, <2>1, <2>2, ActiveFacts DEF Session
  <2>4. session.dev \in Nat \/ session = None
    BY SessionFacts DEF Inv
  <2>5. /\ M \subseteq Nat /\ N \subseteq Nat
        /\ session # None /\ session' # None /\ session.tok # session'.tok => session'.dev \in M
        /\ session' # None /\ token[session'.tok].dev # session'.dev => session'.dev \in N
    BY <1>1, <2>3, <2>4, ActiveFacts, <1>6
  <2> HIDE DEF M, N
  <2>6. L \subseteq Nat /\ \A t \in Tasks : cmd[t] # None => LostRefresh(t) \subseteq L
    BY LostFacts, NoneFacts
  <2> HIDE DEF L
  <2>7. cut \subseteq Nat /\ token' = token
    BY <1>1 DEF Inv, TypeOK, server
  <2>8. cut \subseteq cut' /\ cut' \subseteq Nat /\ L \subseteq cut' /\ M \subseteq cut' /\ N \subseteq cut'
    BY <1>2, <2>5, <2>6, <2>7
  <2>9. /\ session # None /\ session' # None /\ session.tok # session'.tok => session'.dev \in cut'
        /\ session' # None /\ token[session'.tok].dev # session'.dev => session'.dev \in cut'
    BY <2>5, <2>8
  <2>10. \A t \in Tasks : cmd[t] # None => LostRefresh(t) \subseteq cut'
    BY <2>6, <2>8
  <2>11. session' # None
    BY <2>3, NoneOK
  <2>12. QED
    BY <1>1, <1>3, <1>4, <1>6, <2>3, <2>8, <2>9, <2>10, <2>11
<1>7. QED
  BY <1>5, <1>6

-----------------------------------------------------------------------------
(* What the handlers of the server do.                                     *)
LEMMA IssuedHolds ==
  ASSUME Inv
  PROVE  Issued
BY DEF Inv, TypeOK, Issued

(* A check, or the choice of the token.                                    *)
LEMMA CheckDoes ==
  ASSUME Inv, NEW r \in requests,
         LoginVerify(r) \/ RefreshSelect(r) \/ Authorize(r) \/ PasswordVerify(r)
  PROVE  /\ UNCHANGED <<server, cut, Ours>> /\ r.kind \in TwoSteps \cup {"login", "refresh"}
         /\ \E q : MovesOn(r, q) /\ q.step \in {"verified", "selected", "authorized"}
<1>1. UNCHANGED <<server, cut, Ours>>
  BY Zenon DEF LoginVerify, RefreshSelect, Authorize, PasswordVerify, Elsewhere, memory, disk,
     tasks, Ours
<1>2. r \in Request
  BY RequestFacts DEF Inv
<1>3. \/ Step(r, "verified") /\ r.kind \in {"login", "password"}
      \/ Step(r, "selected") /\ r.kind = "refresh"
      \/ Step(r, "authorized") /\ r.kind \in TwoSteps
  BY Zenon DEF LoginVerify, RefreshSelect, Authorize, PasswordVerify, At
<1>4. QED
  BY <1>1, <1>2, <1>3, StepMoves DEF StepNames, TwoSteps

(* An answer that changes nothing at the server.                           *)
LEMMA LookupDoes ==
  ASSUME Inv, NEW r \in requests, GetVault(r) \/ ServeRecords(r) \/ Refuse(r)
  PROVE  /\ UNCHANGED <<server, cut, Ours>>
         /\ \E a : /\ Replies(r, a)
                   /\ \/ r.kind = "get_vault" /\ vault[r.acc] # None /\ a.keys = {vault[r.acc].key}
                      \/ r.kind \in {"devices", "push", "pull"}
                      \/ ~a.ok
<1>1. UNCHANGED <<server, cut, Ours>>
  BY Zenon DEF GetVault, ServeRecords, Refuse, Elsewhere, memory, disk, tasks, Ours
<1>2. TypeOK /\ r.acc \in Accounts
  BY RequestFacts DEF Inv
<1>3. CASE GetVault(r)
  <2>1. /\ r.kind = "get_vault" /\ vault[r.acc] # None
        /\ Reply(r, [Plain EXCEPT !.keys = {vault[r.acc].key}, !.pw = vault[r.acc].pw])
    BY <1>3, Zenon DEF GetVault
  <2>2. vault[r.acc].key \in Accounts /\ vault[r.acc].pw \in Passwords
    BY <1>2, <2>1 DEF TypeOK, Vault
  <2>3. PICK a : a = [Plain EXCEPT !.keys = {vault[r.acc].key}, !.pw = vault[r.acc].pw]
    OBVIOUS
  <2>4. a \in Answer /\ a.keys = {vault[r.acc].key}
    BY <2>2, <2>3, PlainFacts DEF Answer
  <2>5. Reply(r, a)
    BY <2>1, <2>3, Zenon
  <2>6. QED
    BY <1>1, <1>2, <2>1, <2>4, <2>5, ReplyReplies
<1>4. CASE ServeRecords(r)
  <2>1. PICK keys \in IF r.kind = "pull" THEN {{}, {r.acc}} ELSE {{}} :
          Reply(r, [Plain EXCEPT !.keys = keys]) /\ r.kind \in {"devices", "push", "pull"}
    BY <1>4, Zenon DEF ServeRecords
  <2>2. keys \subseteq Accounts
    BY <1>2, <2>1
  <2>3. PICK a : a = [Plain EXCEPT !.keys = keys]
    OBVIOUS
  <2>4. a \in Answer
    BY <2>2, <2>3, PlainFacts DEF Answer
  <2>5. Reply(r, a)
    BY <2>1, <2>3, Zenon
  <2>6. QED
    BY <1>1, <1>2, <2>1, <2>4, <2>5, ReplyReplies
<1>5. CASE Refuse(r)
  <2>1. Reply(r, [Plain EXCEPT !.ok = FALSE])
    BY <1>5, Zenon DEF Refuse
  <2>2. PICK a : a = [Plain EXCEPT !.ok = FALSE]
    OBVIOUS
  <2>3. a \in Answer /\ ~a.ok
    BY <2>2, PlainFacts DEF Answer
  <2>4. Reply(r, a)
    BY <2>1, <2>2, Zenon
  <2>5. QED
    BY <1>1, <1>2, <2>3, <2>4, ReplyReplies
<1>6. QED
  BY <1>3, <1>4, <1>5

LEMMA RegisterDoes ==
  ASSUME Inv, NEW r \in requests, RegisterUser(r)
  PROVE  /\ UNCHANGED <<vault, device, token, cut, Ours>>
         /\ r.kind = "register" /\ r.step = "arrived" /\ password[r.acc] = None
         /\ password' = [password EXCEPT ![r.acc] = r.pw]
         /\ \E q : MovesOn(r, q) /\ q.step = "verified"
<1>1. /\ UNCHANGED <<vault, device, token, cut, Ours>>
      /\ r.kind = "register" /\ r.step = "arrived" /\ password[r.acc] = None
      /\ password' = [password EXCEPT ![r.acc] = r.pw] /\ Step(r, "verified")
  BY Zenon DEF RegisterUser, Elsewhere, memory, disk, tasks, Ours, At
<1>2. QED
  BY <1>1, RequestFacts, StepMoves DEF Inv, StepNames

LEMMA IssueDoes ==
  ASSUME Inv, NEW r \in requests, IssueTokens(r)
  PROVE  /\ UNCHANGED <<password, vault, cut, Ours>>
         /\ r.kind \in {"register", "login"} /\ r.step = "verified"
         /\ device' = Append(device, [acc |-> r.acc, revoked |-> FALSE])
         /\ token' = Append(token, [dev |-> Len(device'), live |-> TRUE])
         /\ \E a : Replies(r, a) /\ a.ok /\ a.tok = Len(token') /\ a.dev = Len(device')
<1>1. /\ UNCHANGED <<password, vault, cut, Ours>>
      /\ r.kind \in {"register", "login"} /\ r.step = "verified"
      /\ device' = Append(device, [acc |-> r.acc, revoked |-> FALSE])
      /\ token' = Append(token, [dev |-> Len(device'), live |-> TRUE])
      /\ Reply(r, [Plain EXCEPT !.tok = Len(token'), !.dev = Len(device')])
  BY Zenon DEF IssueTokens, Elsewhere, memory, disk, tasks, Ours
<1>2. Len(device') \in Nat \ {0}
  BY <1>1, IssuedHolds, DeviceAdded, RequestFacts, Zenon DEF Inv
<1>3. Len(token') \in Nat
  BY <1>1, <1>2, IssuedHolds, TokenAdded, Zenon
<1>4. PICK a : a = [Plain EXCEPT !.tok = Len(token'), !.dev = Len(device')]
  OBVIOUS
<1>5. PICK k, d : k = Len(token') /\ d = Len(device')
  OBVIOUS
<1>6. a = [Plain EXCEPT !.tok = k, !.dev = d] /\ k \in Nat /\ d \in Nat
  BY <1>2, <1>3, <1>4, <1>5, Zenon
<1>7. a \in Answer /\ a.ok /\ a.tok = k /\ a.dev = d
  BY <1>6, PlainFacts DEF Answer
<1>8. Reply(r, a)
  BY <1>1, <1>4, Zenon
<1>9. Replies(r, a)
  BY <1>7, <1>8, ReplyReplies DEF Inv
<1>10. QED
  BY <1>1, <1>5, <1>7, <1>9, Zenon

LEMMA RotateDoes ==
  ASSUME Inv, NEW r \in requests, RefreshRotate(r)
  PROVE  /\ UNCHANGED <<password, vault, device, Ours>>
         /\ r.kind = "refresh" /\ r.tok \in DOMAIN token /\ token[r.tok].dev = r.dev
         /\ token' \in Seq(Token) /\ Spends({r.tok})
         /\ cut' = IF r.by = None THEN cut \cup {r.dev} ELSE cut
         /\ \E q : MovesOn(r, q) /\ q.step = "rotated"
<1>1. /\ UNCHANGED <<password, vault, device, Ours>>
      /\ r.kind = "refresh" /\ Step(r, "rotated")
      /\ token' = [token EXCEPT ![r.tok].live = FALSE]
      /\ cut' = IF r.by = None THEN cut \cup {r.dev} ELSE cut
  BY Zenon DEF RefreshRotate, Elsewhere, memory, disk, tasks, Ours, At
<1>2. r.tok \in DOMAIN token /\ token[r.tok].dev = r.dev
  BY <1>1 DEF Inv, Addressed, Names
<1>3. PICK k : k = r.tok
  OBVIOUS
<1>4. token' \in Seq(Token) /\ Spends({k})
  BY <1>1, <1>2, <1>3, IssuedHolds, TokenRotated, Zenon
<1>5. \E q : MovesOn(r, q) /\ q.step = "rotated"
  BY <1>1, RequestFacts, StepMoves DEF Inv, StepNames
<1>6. QED
  BY <1>1, <1>2, <1>3, <1>4, <1>5, Zenon

LEMMA ReissueDoes ==
  ASSUME Inv, NEW r \in requests, RefreshIssue(r)
  PROVE  /\ UNCHANGED <<password, vault, device, cut, Ours>>
         /\ r.kind = "refresh" /\ r.step = "rotated"
         /\ token' = Append(token, [dev |-> r.dev, live |-> TRUE])
         /\ \E a : Replies(r, a) /\ a.ok /\ a.tok = Len(token') /\ a.dev = r.dev
<1>1. /\ UNCHANGED <<password, vault, device, cut, Ours>>
      /\ r.kind = "refresh" /\ r.step = "rotated"
      /\ token' = Append(token, [dev |-> r.dev, live |-> TRUE])
      /\ Reply(r, [Plain EXCEPT !.tok = Len(token'), !.dev = r.dev])
  BY Zenon DEF RefreshIssue, Elsewhere, memory, disk, tasks, Ours, At
<1>2. r.dev \in Nat \ {0}
  BY <1>1, IssuedHolds, IssuedFacts DEF Inv, Addressed, Names, Opened
<1>3. Len(token') \in Nat
  BY <1>1, <1>2, IssuedHolds, TokenAdded, Zenon
<1>4. PICK a : a = [Plain EXCEPT !.tok = Len(token'), !.dev = r.dev]
  OBVIOUS
<1>5. PICK k, d : k = Len(token') /\ d = r.dev
  OBVIOUS
<1>6. a = [Plain EXCEPT !.tok = k, !.dev = d] /\ k \in Nat /\ d \in Nat
  BY <1>2, <1>3, <1>4, <1>5, Zenon
<1>7. a \in Answer /\ a.ok /\ a.tok = k /\ a.dev = d
  BY <1>6, PlainFacts DEF Answer
<1>8. Reply(r, a)
  BY <1>1, <1>4, Zenon
<1>9. Replies(r, a)
  BY <1>7, <1>8, ReplyReplies DEF Inv
<1>10. QED
  BY <1>1, <1>5, <1>7, <1>9, Zenon

(* Tokens are revoked: those of a device, or of every device of an account.*)
LEMMA LogoutDoes ==
  ASSUME Inv, NEW r \in requests, Logout(r)
  PROVE  /\ UNCHANGED <<password, vault, device, Ours>> /\ r.kind = "logout"
         /\ token' \in Seq(Token) /\ Spends(TokensOf({r.dev})) /\ cut' = cut \cup {r.dev}
         /\ \E a : Replies(r, a)
<1>1. /\ UNCHANGED <<password, vault, device, Ours>> /\ r.kind = "logout"
      /\ token' = RevokedTokens({r.dev}) /\ cut' = cut \cup {r.dev} /\ Reply(r, Plain)
  BY Zenon DEF Logout, Elsewhere, memory, disk, tasks, Ours, At
<1>2. token' \in Seq(Token) /\ Spends(TokensOf({r.dev}))
  BY <1>1, IssuedHolds, TokensRevoked, Zenon
<1>3. Replies(r, Plain)
  BY <1>1, PlainFacts, ReplyReplies DEF Inv
<1>4. QED
  BY <1>1, <1>2, <1>3

LEMMA ChangeDoes ==
  ASSUME Inv, NEW r \in requests, ChangePassword(r)
  PROVE  /\ UNCHANGED <<device, Ours>> /\ r.kind = "password"
         /\ password[r.acc] \in Passwords /\ password[r.acc] + 1 \in Passwords
         /\ password' = [password EXCEPT ![r.acc] = password[r.acc] + 1]
         /\ \E v \in Vault : /\ vault' = [vault EXCEPT ![r.acc] = v]
                            /\ v.key = r.key /\ v.pw = password[r.acc] + 1
         /\ token' \in Seq(Token) /\ Spends(TokensOf(DevicesOf(r.acc)))
         /\ cut' = cut \cup DevicesOf(r.acc)
         /\ \E a : Replies(r, a)
<1>1. /\ UNCHANGED <<device, Ours>> /\ r.kind = "password"
      /\ password[r.acc] < MaxPasswords
      /\ password' = [password EXCEPT ![r.acc] = password[r.acc] + 1]
      /\ vault' = [vault EXCEPT ![r.acc] = [key |-> r.key, pw |-> password[r.acc] + 1]]
      /\ token' = RevokedTokens(DevicesOf(r.acc))
      /\ cut' = cut \cup DevicesOf(r.acc) /\ Reply(r, Plain)
  BY Zenon DEF ChangePassword, Elsewhere, memory, disk, tasks, Ours, At
<1>2. vault[r.acc] # None /\ r.acc \in Accounts
  BY <1>1, RequestFacts DEF Inv, Addressed, Names, Kinds
<1>3. password[r.acc] \in Passwords
  BY <1>2 DEF Inv, TypeOK, Vaults
<1>4. password[r.acc] + 1 \in Passwords
  BY <1>1, <1>3, NoneFacts DEF Passwords
<1>5. token' \in Seq(Token) /\ Spends(TokensOf(DevicesOf(r.acc)))
  BY <1>1, IssuedHolds, TokensRevoked, Zenon
<1>6. Replies(r, Plain)
  BY <1>1, PlainFacts, ReplyReplies DEF Inv
<1>7. PICK v : v = [key |-> r.key, pw |-> password[r.acc] + 1]
  OBVIOUS
<1>8. v \in Vault /\ v.key = r.key /\ v.pw = password[r.acc] + 1
  BY <1>1, <1>4, <1>7 DEF Vault, Inv, Addressed, Names
<1>9. vault' = [vault EXCEPT ![r.acc] = v]
  BY <1>1, <1>7, Zenon
<1>10. QED
  BY <1>1, <1>3, <1>4, <1>5, <1>6, <1>8, <1>9, Zenon

LEMMA RevokeDoes ==
  ASSUME Inv, NEW r \in requests, RevokeDevice(r)
  PROVE  /\ UNCHANGED <<password, vault, token, Ours>>
         /\ r.kind = "revoke" /\ r.target \in DOMAIN device
         /\ device' \in Seq(Device) /\ DOMAIN device' = DOMAIN device
         /\ \A e \in DOMAIN device : /\ device'[e].acc = device[e].acc
                                     /\ e # r.target => device'[e] = device[e]
         /\ cut' = cut \cup {r.target}
         /\ \E q : MovesOn(r, q) /\ q.step = "marked"
<1>1. /\ UNCHANGED <<password, vault, token, Ours>> /\ r.kind = "revoke"
      /\ r.target \in DevicesOf(r.acc)
      /\ device' = [device EXCEPT ![r.target].revoked = TRUE]
      /\ cut' = cut \cup {r.target} /\ Step(r, "marked")
  BY Zenon DEF RevokeDevice, Elsewhere, memory, disk, tasks, Ours, At
<1>2. PICK d : d = r.target
  OBVIOUS
<1>3. d \in DOMAIN device
  BY <1>1, <1>2 DEF DevicesOf
<1>4. /\ device' \in Seq(Device) /\ DOMAIN device' = DOMAIN device
      /\ \A e \in DOMAIN device : /\ device'[e].acc = device[e].acc
                                  /\ e # d => device'[e] = device[e]
  BY <1>1, <1>2, <1>3, IssuedHolds, DeviceRevoked, Zenon
<1>5. \E q : MovesOn(r, q) /\ q.step = "marked"
  BY <1>1, RequestFacts, StepMoves DEF Inv, StepNames
<1>6. QED
  BY <1>1, <1>2, <1>3, <1>4, <1>5, Zenon

LEMMA RevokeTokensDoes ==
  ASSUME Inv, NEW r \in requests, RevokeTokens(r)
  PROVE  /\ UNCHANGED <<password, vault, device, cut, Ours>>
         /\ r.kind = "revoke" /\ r.step = "marked"
         /\ token' \in Seq(Token) /\ Spends(TokensOf({r.target}))
         /\ \E a : Replies(r, a)
<1>1. /\ UNCHANGED <<password, vault, device, cut, Ours>>
      /\ r.kind = "revoke" /\ r.step = "marked"
      /\ token' = RevokedTokens({r.target}) /\ Reply(r, Plain)
  BY Zenon DEF RevokeTokens, Elsewhere, memory, disk, tasks, Ours, At
<1>2. token' \in Seq(Token) /\ Spends(TokensOf({r.target}))
  BY <1>1, IssuedHolds, TokensRevoked, Zenon
<1>3. Replies(r, Plain)
  BY <1>1, PlainFacts, ReplyReplies DEF Inv
<1>4. QED
  BY <1>1, <1>2, <1>3

LEMMA PutDoes ==
  ASSUME Inv, NEW r \in requests, PutVault(r)
  PROVE  /\ UNCHANGED <<password, device, token, cut, Ours>> /\ r.kind = "put_vault"
         /\ \E v \in Vault : /\ vault' = [vault EXCEPT ![r.acc] = v]
                            /\ v.key = r.acc /\ v.pw = r.pw
         /\ \E a : Replies(r, a)
<1>1. /\ UNCHANGED <<password, device, token, cut, Ours>> /\ r.kind = "put_vault"
      /\ vault' = [vault EXCEPT ![r.acc] = [key |-> r.key, pw |-> r.pw]] /\ Reply(r, Plain)
  BY Zenon DEF PutVault, Elsewhere, memory, disk, tasks, Ours
<1>2. Replies(r, Plain)
  BY <1>1, PlainFacts, ReplyReplies DEF Inv
<1>3. r.key = r.acc /\ r.acc \in Accounts /\ r.pw \in Passwords
  BY <1>1, RequestFacts DEF Inv, Vaults
<1>4. PICK v : v = [key |-> r.key, pw |-> r.pw]
  OBVIOUS
<1>5. v \in Vault /\ v.key = r.acc /\ v.pw = r.pw
  BY <1>3, <1>4 DEF Vault
<1>6. vault' = [vault EXCEPT ![r.acc] = v]
  BY <1>1, <1>4, Zenon
<1>7. QED
  BY <1>1, <1>2, <1>5, <1>6

(* Another desktop changes the password, or revokes a device.              *)
LEMMA OtherDoes ==
  ASSUME Inv, NEW a \in Accounts, OtherDesktop(a)
  PROVE  /\ UNCHANGED <<requests, answer, Ours>> /\ vault[a] # None
         /\ token' \in Seq(Token)
         /\ \/ /\ password[a] \in Passwords /\ password[a] + 1 \in Passwords
               /\ password' = [password EXCEPT ![a] = password[a] + 1]
               /\ \E v \in Vault :
                    /\ vault' = [vault EXCEPT ![a] = v]
                    /\ v.key = vault[a].key /\ v.pw = password[a] + 1
               /\ Spends(TokensOf(DevicesOf(a)))
               /\ cut' = cut \cup DevicesOf(a) /\ UNCHANGED device
            \/ \E d \in DOMAIN device :
               /\ device' \in Seq(Device) /\ DOMAIN device' = DOMAIN device
               /\ Spends(TokensOf({d}))
               /\ cut' = cut \cup {d} /\ UNCHANGED <<password, vault>>
               /\ \A e \in DOMAIN device : /\ device'[e].acc = device[e].acc
                                           /\ e # d => device'[e] = device[e]
<1>1. UNCHANGED <<requests, answer, Ours>> /\ vault[a] # None
  BY Zenon DEF OtherDesktop, Elsewhere, memory, disk, tasks, Ours
<1>2. CASE /\ password[a] < MaxPasswords
           /\ password' = [password EXCEPT ![a] = password[a] + 1]
           /\ vault' = [vault EXCEPT ![a].pw = password[a] + 1]
           /\ token' = RevokedTokens(DevicesOf(a))
           /\ cut' = cut \cup DevicesOf(a)
           /\ UNCHANGED device
  <2>1. /\ password[a] \in Passwords /\ vault \in [Accounts -> Vault \cup {None}]
    BY <1>1 DEF Inv, TypeOK, Vaults, Vault
  <2>2. password[a] + 1 \in Passwords
    BY <1>2, <2>1, NoneFacts DEF Passwords
  <2>3. PICK v : v = [vault[a] EXCEPT !.pw = password[a] + 1]
    OBVIOUS
  <2>4. v \in Vault /\ v.key = vault[a].key /\ v.pw = password[a] + 1
    BY <1>1, <2>1, <2>2, <2>3 DEF Vault
  <2>5. vault' = [vault EXCEPT ![a] = v]
    BY <1>2, <2>3, Zenon
  <2>6. token' \in Seq(Token) /\ Spends(TokensOf(DevicesOf(a)))
    BY <1>2, IssuedHolds, TokensRevoked, Zenon
  <2>7. QED
    BY <1>1, <1>2, <2>1, <2>2, <2>4, <2>5, <2>6, Zenon
<1>3. ASSUME NEW d \in DevicesOf(a),
             device' = [device EXCEPT ![d].revoked = TRUE],
             token' = RevokedTokens({d}), cut' = cut \cup {d}, UNCHANGED <<password, vault>>
      PROVE  /\ d \in DOMAIN device
             /\ device' \in Seq(Device) /\ DOMAIN device' = DOMAIN device
             /\ token' \in Seq(Token) /\ Spends(TokensOf({d}))
             /\ \A e \in DOMAIN device : /\ device'[e].acc = device[e].acc
                                         /\ e # d => device'[e] = device[e]
  <2>1. d \in DOMAIN device
    BY Zenon DEF DevicesOf
  <2>2. QED
    BY <1>3, <2>1, IssuedHolds, DeviceRevoked, TokensRevoked, Zenon
<1>4. CASE \E d \in DevicesOf(a) :
             /\ device' = [device EXCEPT ![d].revoked = TRUE]
             /\ token' = RevokedTokens({d}) /\ cut' = cut \cup {d}
             /\ UNCHANGED <<password, vault>>
  BY <1>1, <1>3, <1>4, Zenon
<1>5. QED
  BY <1>2, <1>4, Zenon DEF OtherDesktop

-----------------------------------------------------------------------------
(* Every step only adds devices and tokens.                                *)
LEMMA GrowsStill ==
  ASSUME Inv, UNCHANGED server
  PROVE  Grows /\ Issued'
BY IssuedHolds DEF Grows, Issued, server

LEMMA GrowsSpent ==
  ASSUME Inv, token' \in Seq(Token), NEW S, Spends(S), device' \in Seq(Device),
         DOMAIN device' = DOMAIN device,
         \A d \in DOMAIN device : device'[d].acc = device[d].acc,
         \A a \in Accounts : vault[a] # None => vault'[a] # None
  PROVE  Grows /\ Issued'
BY IssuedHolds DEF Grows, Issued, Spends

(* An envelope is replaced by another one.                                 *)
LEMMA VaultPut ==
  ASSUME Inv, NEW a \in Accounts, NEW v \in Vault, vault' = [vault EXCEPT ![a] = v]
  PROVE  /\ vault' \in [Accounts -> Vault \cup {None}]
         /\ \A b \in Accounts : vault'[b] = IF b = a THEN v ELSE vault[b]
         /\ \A b \in Accounts : vault[b] # None => vault'[b] # None
         /\ v # None
BY NoneOK DEF Inv, TypeOK

LEMMA GrowsHandler ==
  ASSUME Inv, NEW r \in requests, Handler(r)
  PROVE  Grows /\ Issued'
<1>1. CASE LoginVerify(r) \/ RefreshSelect(r) \/ Authorize(r) \/ PasswordVerify(r)
  BY <1>1, CheckDoes, GrowsStill
<1>2. CASE GetVault(r) \/ ServeRecords(r) \/ Refuse(r)
  BY <1>2, LookupDoes, GrowsStill
<1>3. CASE RegisterUser(r)
  BY <1>3, RegisterDoes, IssuedHolds DEF Grows, Issued
<1>4. CASE IssueTokens(r)
  <2>1. r.acc \in Accounts
    BY RequestFacts DEF Inv
  <2>2. /\ UNCHANGED vault
        /\ device' = Append(device, [acc |-> r.acc, revoked |-> FALSE])
        /\ token' = Append(token, [dev |-> Len(device'), live |-> TRUE])
    BY <1>4, IssueDoes, Zenon
  <2>3. /\ device' \in Seq(Device) /\ DOMAIN device' = DOMAIN device \cup {Len(device')}
        /\ Len(device') \in Nat \ {0}
        /\ \A d \in DOMAIN device : device'[d] = device[d]
    BY <2>1, <2>2, IssuedHolds, DeviceAdded, Zenon
  <2>4. /\ token' \in Seq(Token) /\ DOMAIN token' = DOMAIN token \cup {Len(token')}
        /\ \A k \in DOMAIN token : token'[k] = token[k]
        /\ token'[Len(token')].dev = Len(device')
    BY <2>2, <2>3, IssuedHolds, TokenAdded, Zenon
  <2>5. QED
    BY <2>2, <2>3, <2>4, IssuedHolds, Zenon DEF Grows, Issued
<1>5. CASE RefreshRotate(r)
  BY <1>5, RotateDoes, GrowsSpent, IssuedHolds DEF Issued
<1>6. CASE RefreshIssue(r)
  <2>1. r.dev \in DOMAIN device /\ r.dev \in Nat \ {0}
    BY <1>6, ReissueDoes, IssuedHolds, IssuedFacts DEF Inv, Addressed, Names, Opened
  <2>2. UNCHANGED <<vault, device>> /\ token' = Append(token, [dev |-> r.dev, live |-> TRUE])
    BY <1>6, ReissueDoes, Zenon
  <2>3. PICK d : d = r.dev
    OBVIOUS
  <2>4. /\ token' \in Seq(Token) /\ DOMAIN token' = DOMAIN token \cup {Len(token')}
        /\ \A k \in DOMAIN token : token'[k] = token[k]
        /\ token'[Len(token')].dev = d
    BY <2>1, <2>2, <2>3, IssuedHolds, TokenAdded, Zenon
  <2>5. QED
    BY <2>1, <2>2, <2>3, <2>4, IssuedHolds, Zenon DEF Grows, Issued
<1>7. CASE Logout(r)
  BY <1>7, LogoutDoes, GrowsSpent, IssuedHolds DEF Issued
<1>8. CASE ChangePassword(r)
  <2>1. \A a \in Accounts : vault[a] # None => vault'[a] # None
    BY <1>8, ChangeDoes, RequestFacts, VaultPut DEF Inv
  <2>2. QED
    BY <1>8, <2>1, ChangeDoes, GrowsSpent, IssuedHolds DEF Issued
<1>9. CASE RevokeDevice(r)
  BY <1>9, RevokeDoes, IssuedHolds DEF Issued, Grows
<1>10. CASE RevokeTokens(r)
  BY <1>10, RevokeTokensDoes, GrowsSpent, IssuedHolds DEF Issued
<1>11. CASE PutVault(r)
  <2>1. \A a \in Accounts : vault[a] # None => vault'[a] # None
    BY <1>11, PutDoes, RequestFacts, VaultPut DEF Inv
  <2>2. QED
    BY <1>11, <2>1, PutDoes, IssuedHolds DEF Issued, Grows
<1>12. QED
  BY <1>1, <1>2, <1>3, <1>4, <1>5, <1>6, <1>7, <1>8, <1>9, <1>10, <1>11 DEF Handler

LEMMA GrowsOther ==
  ASSUME Inv, NEW a \in Accounts, OtherDesktop(a)
  PROVE  Grows /\ Issued'
<1>1. token' \in Seq(Token)
  BY OtherDoes
<1>2. ASSUME NEW v \in Vault, vault' = [vault EXCEPT ![a] = v], UNCHANGED device,
             Spends(TokensOf(DevicesOf(a)))
      PROVE  Grows /\ Issued'
  BY <1>1, <1>2, VaultPut, GrowsSpent, IssuedHolds DEF Issued
<1>3. ASSUME NEW d \in DOMAIN device, device' \in Seq(Device), DOMAIN device' = DOMAIN device,
             Spends(TokensOf({d})), UNCHANGED vault,
             \A e \in DOMAIN device : device'[e].acc = device[e].acc
      PROVE  Grows /\ Issued'
  BY <1>1, <1>3, GrowsSpent
<1>4. QED
  BY <1>2, <1>3, OtherDoes

LEMMA GrowsStep ==
  ASSUME Inv, [Next]_vars
  PROVE  Grows /\ Issued'
<1>1. CASE \E r \in requests : Handler(r)
  BY <1>1, GrowsHandler
<1>2. CASE \E a \in Accounts : OtherDesktop(a)
  BY <1>2, GrowsOther
<1>3. CASE UNCHANGED server
  BY <1>3, GrowsStill
<1>4. ASSUME NEW t \in Tasks, TaskStep(t)
      PROVE  UNCHANGED server
  BY <1>4, RefreshAnsweredDoes, AnswerFailsDoes, ServedDoes, LocalDoes DEF TaskStep
<1>5. CASE AuthStep
  BY <1>3, <1>5, AuthTokensDoes, AuthVaultDoes, AuthFailsDoes, ActivateDoes, PersistDoes,
     OpenSessionDoes, AuthEndDoes DEF AuthStep
<1>6. CASE Enqueue \/ Restart \/ UNCHANGED vars
  BY <1>3, <1>6, Zenon DEF Enqueue, Restart, vars
<1>7. ASSUME NEW t \in Tasks, NEW kind \in Commands, Start(t, kind)
      PROVE  UNCHANGED server
  BY <1>7, StartDoes
<1>8. ASSUME NEW a \in Accounts, NEW reg \in BOOLEAN, AuthStart(a, reg)
      PROVE  UNCHANGED server
  BY <1>8, AuthStartDoes
<1>9. ASSUME NEW c \in Callers, GiveUp(c)
      PROVE  UNCHANGED server
  BY <1>9, GiveUpDoes
<1>10. QED
  BY <1>1, <1>2, <1>3, <1>4, <1>5, <1>6, <1>7, <1>8, <1>9 DEF Next

-----------------------------------------------------------------------------
(* Requests, answers and those who wait for them.                          *)
LEMMA CallsHandler ==
  ASSUME Inv, NEW r \in requests, (\E q : MovesOn(r, q)) \/ (\E a : Replies(r, a)),
         UNCHANGED <<auth, cmd>>
  PROVE  Calls'
<1>1. Calls
  BY DEF Inv
<1>2. ASSUME NEW q, MovesOn(r, q)
      PROVE  Calls'
  BY <1>1, <1>2 DEF Calls, MovesOn, SameButStep, Asks, LoginAsks
<1>3. ASSUME NEW a, Replies(r, a)
      PROVE  Calls'
  <2>1. \A s \in requests' : s \in requests /\ s # r
    BY <1>3 DEF Replies
  <2>2. \A s \in requests' : s.by # None => s.by # r.by
    BY <1>1, <2>1 DEF Calls
  <2>3. \A s \in requests' : s.by # None => s.by \in Callers /\ answer'[s.by] = answer[s.by]
    BY <1>3, <2>1, <2>2, RequestFacts DEF Replies, Inv
  <2>4. \A t \in Tasks : answer'[t] # None => cmd[t] # None /\ cmd[t].pc \in {"refresh", "request"}
    BY <1>1, <1>3, NoneFacts DEF Calls, Replies, Asks
  <2>5. answer'[Auth] # None => auth # None /\ auth.pc \in {"tokens", "vault"}
    BY <1>1, <1>3, NoneFacts DEF Calls, Replies, LoginAsks
  <2>6. /\ \A s \in requests' : s.by # None => answer'[s.by] = None
        /\ \A s, u \in requests' : s.by = u.by /\ s.by # None => s = u
        /\ \A s \in requests' : s.by \in Tasks => cmd[s.by] # None /\ Asks(cmd[s.by], s)
        /\ \A s \in requests' : s.by = Auth => auth # None /\ LoginAsks(s)
    BY <1>1, <2>1, <2>3 DEF Calls
  <2>7. QED
    BY <2>4, <2>5, <2>6, Zenon DEF Calls, LoginAsks
<1>4. QED
  BY <1>2, <1>3

(* A command that does not wait, or has its answer, goes on.               *)
LEMMA CallsTask ==
  ASSUME Inv, NEW t \in Tasks, \A r \in requests : r.by # t, UNCHANGED auth,
         \A b \in Callers : b # t => answer'[b] = answer[b], answer'[t] = None,
         \E c : /\ Sets(t, c)
                /\ UNCHANGED requests \/ \E q : Sends(t, q) /\ c # None /\ Asks(c, q)
  PROVE  Calls'
<1>1. Calls /\ t # Auth /\ t # None /\ t \in Callers /\ Auth \in Callers /\ Tasks \subseteq Callers
  BY NoneFacts DEF Inv
<1>2. PICK c : /\ Sets(t, c)
               /\ UNCHANGED requests \/ \E q : Sends(t, q) /\ c # None /\ Asks(c, q)
  OBVIOUS
<1>3. CASE UNCHANGED requests
  <2>1. \A r \in requests : r.by \in Callers \cup {None}
    BY RequestFacts DEF Inv
  <2>2. QED
    BY <1>1, <1>2, <1>3, <2>1 DEF Calls, Sets, LoginAsks
<1>4. ASSUME NEW q, Sends(t, q), c # None, Asks(c, q)
      PROVE  Calls'
  <2>1. \A r \in requests : r.by \in Callers \cup {None}
    BY RequestFacts DEF Inv
  <2>2. \A r \in requests' : r = q \/ (r \in requests /\ r.by # t)
    BY <1>4 DEF Sends
  <2>3. q.by = t /\ cmd'[t] = c /\ \A s \in Tasks : s # t => cmd'[s] = cmd[s]
    BY <1>2, <1>4 DEF Sends, Sets
  <2>4. \A r \in requests' : r.by # None => answer'[r.by] = None
    BY <1>1, <2>1, <2>2, <2>3 DEF Calls
  <2>5. \A r, s \in requests' : r.by = s.by /\ r.by # None => r = s
    BY <1>1, <2>1, <2>2, <2>3 DEF Calls
  <2>6. \A r \in requests' : r.by \in Tasks => cmd'[r.by] # None /\ Asks(cmd'[r.by], r)
    BY <1>1, <1>4, <2>2, <2>3 DEF Calls
  <2>7. \A r \in requests' : r.by = Auth => auth # None /\ LoginAsks(r)
    BY <1>1, <2>2, <2>3 DEF Calls
  <2>8. QED
    BY <1>1, <2>3, <2>4, <2>5, <2>6, <2>7 DEF Calls, LoginAsks
<1>5. QED
  BY <1>2, <1>3, <1>4

(* The same for the login.                                                 *)
LEMMA CallsLogin ==
  ASSUME Inv, \A r \in requests : r.by # Auth, UNCHANGED cmd,
         \A b \in Callers : b # Auth => answer'[b] = answer[b], answer'[Auth] = None,
         UNCHANGED requests \/ \E q : Sends(Auth, q) /\ auth' # None /\ LoginAsks(q)'
  PROVE  Calls'
<1>1. Calls /\ Auth \notin Tasks /\ Auth # None /\ Auth \in Callers /\ Tasks \subseteq Callers
  BY NoneFacts DEF Inv
<1>2. \A r \in requests : r.by \in Callers \cup {None}
  BY RequestFacts DEF Inv
<1>3. CASE UNCHANGED requests
  BY <1>1, <1>2, <1>3 DEF Calls
<1>4. ASSUME NEW q, Sends(Auth, q), auth' # None, LoginAsks(q)'
      PROVE  Calls'
  <2>1. \A r \in requests' : r = q \/ (r \in requests /\ r.by # Auth)
    BY <1>4 DEF Sends
  <2>2. q.by = Auth
    BY <1>4 DEF Sends
  <2>3. \A r \in requests' : r.by # None => answer'[r.by] = None
    BY <1>1, <1>2, <2>1, <2>2 DEF Calls
  <2>4. \A r, s \in requests' : r.by = s.by /\ r.by # None => r = s
    BY <1>1, <1>2, <2>1, <2>2 DEF Calls
  <2>5. \A r \in requests' : r.by \in Tasks => cmd'[r.by] # None /\ Asks(cmd'[r.by], r)
    BY <1>1, <2>1, <2>2 DEF Calls
  <2>6. \A r \in requests' : r.by = Auth => auth' # None /\ LoginAsks(r)'
    BY <1>4, <2>1, <2>2 DEF LoginAsks
  <2>7. QED
    BY <1>1, <2>3, <2>4, <2>5, <2>6 DEF Calls
<1>5. QED
  BY <1>3, <1>4

(* Callers give up: they wait for nothing any more.                        *)
LEMMA CallsOrphans ==
  ASSUME Inv, NEW callers \in SUBSET Callers, Orphans(callers),
         \A t \in Tasks \ callers : cmd'[t] = cmd[t],
         Auth \notin callers => UNCHANGED auth
  PROVE  Calls'
<1>1. Calls /\ Auth \in Callers /\ Tasks \subseteq Callers /\ None \notin Callers
  BY NoneFacts DEF Inv
<1>2. \A r \in requests : Orphan(r).by = None
  BY OrphanFacts, RequestFacts DEF Inv
<1>3. \A q \in requests' : q.by # None => q \in requests /\ q.by \notin callers
  BY <1>2 DEF Orphans
<1>4. \A q \in requests' : q.by # None => q.by \in Callers
  BY <1>3, RequestFacts DEF Inv
<1>5. \A c \in Callers : answer'[c] = IF c \in callers THEN None ELSE answer[c]
  BY DEF Orphans
<1>6. \A q \in requests' : q.by # None => answer'[q.by] = None
  BY <1>1, <1>3, <1>4, <1>5 DEF Calls
<1>7. \A r, s \in requests' : r.by = s.by /\ r.by # None => r = s
  BY <1>1, <1>3 DEF Calls
<1>8. \A r \in requests' : r.by \in Tasks => cmd'[r.by] # None /\ Asks(cmd'[r.by], r)
  BY <1>1, <1>3 DEF Calls
<1>9. \A r \in requests' : r.by = Auth => auth' # None /\ LoginAsks(r)'
  BY <1>1, <1>3 DEF Calls, LoginAsks
<1>10. \A t \in Tasks : answer'[t] # None => cmd'[t] # None /\ cmd'[t].pc \in {"refresh", "request"}
  BY <1>1, <1>5 DEF Calls
<1>11. answer'[Auth] # None => auth' # None /\ auth'.pc \in {"tokens", "vault"}
  BY <1>1, <1>5 DEF Calls
<1>12. QED
  BY <1>6, <1>7, <1>8, <1>9, <1>10, <1>11 DEF Calls

(* Whoever has an answer, or is not waiting, has no request.               *)
LEMMA NoRequest ==
  ASSUME Inv
  PROVE  /\ \A c \in Callers : answer[c] # None => \A r \in requests : r.by # c
         /\ \A t \in Tasks : cmd[t] = None \/ cmd[t].pc \in {"cursor", "clear", "drop"} =>
              answer[t] = None /\ \A r \in requests : r.by # t
         /\ auth = None \/ auth.pc \notin {"tokens", "vault"} =>
              answer[Auth] = None /\ \A r \in requests : r.by # Auth
BY NoneFacts DEF Inv, Calls, Asks, LoginAsks

LEMMA GoesSets ==
  ASSUME NEW t \in Tasks, FailsTo(t) \/ \E pc : GoesTo(t, pc)
  PROVE  \E c : Sets(t, c)
BY DEF FailsTo, GoesTo

LEMMA CallsTaskStep ==
  ASSUME Inv, NEW t \in Tasks, TaskStep(t)
  PROVE  Calls'
<1>1. t \in Callers
  BY NoneFacts
<1>2. CASE RefreshAnswered(t)
  <2>1. \A r \in requests : r.by # t
    BY <1>1, <1>2, RefreshAnsweredDoes, NoRequest
  <2>2. UNCHANGED auth /\ Takes(t)
    BY <1>2, RefreshAnsweredDoes
  <2>3. CASE Sets(t, None) /\ UNCHANGED requests
    BY <1>1, <2>1, <2>2, <2>3, CallsTask DEF Takes
  <2>4. ASSUME NEW c \in Command, NEW q, Sets(t, c), Sends(t, q), c.kind = cmd[t].kind,
               c.pc = "request", q.kind = cmd[t].kind
        PROVE  Calls'
    <3>1. c # None /\ Asks(c, q)
      BY <2>4, NoneOK DEF Asks
    <3>2. QED
      BY <1>1, <2>1, <2>2, <2>4, <3>1, CallsTask DEF Takes
  <2>5. QED
    BY <1>2, <2>3, <2>4, RefreshAnsweredDoes
<1>3. CASE AnswerFails(t)
  BY <1>1, <1>3, AnswerFailsDoes, NoRequest, GoesSets, CallsTask DEF Takes
<1>4. CASE Listed(t) \/ Pushed(t) \/ Pulled(t) \/ LoggedOut(t)
  <2>1. /\ UNCHANGED <<requests, auth>> /\ Takes(t) /\ answer[t] # None
        /\ Sets(t, None) \/ GoesTo(t, "clear") \/ GoesTo(t, "cursor")
    BY <1>4, ServedDoes
  <2>2. \E c : Sets(t, c)
    BY <2>1 DEF GoesTo
  <2>3. QED
    BY <1>1, <2>1, <2>2, NoRequest, CallsTask DEF Takes
<1>5. CASE SaveCursor(t) \/ ClearRefresh(t) \/ DropSession(t) \/ LocalFails(t)
  <2>1. /\ UNCHANGED <<requests, answer, auth>> /\ cmd[t].pc \in {"cursor", "clear", "drop"}
        /\ Sets(t, None) \/ GoesTo(t, "drop")
    BY <1>5, LocalDoes
  <2>2. \E c : Sets(t, c)
    BY <2>1 DEF GoesTo
  <2>3. QED
    BY <1>1, <2>1, <2>2, NoRequest, CallsTask
<1>6. QED
  BY <1>2, <1>3, <1>4, <1>5 DEF TaskStep

LEMMA CallsAuthStep ==
  ASSUME Inv, AuthStep
  PROVE  Calls'
<1>1. Auth \in Callers
  BY NoneFacts
<1>2. CASE AuthTokens
  <2>1. PICK p, q : /\ Advances(p, "vault") /\ Sends(Auth, q) /\ q.acc = auth.acc
                    /\ q.pw = auth.pw
                    /\ q.kind = (IF auth.reg THEN "put_vault" ELSE "get_vault")
    BY <1>2, AuthTokensDoes
  <2>2. auth' # None /\ LoginAsks(q)'
    BY <2>1, NoneOK DEF Advances, LoginAsks
  <2>3. QED
    BY <1>1, <1>2, <2>1, <2>2, AuthTokensDoes, NoRequest, CallsLogin DEF Takes
<1>3. CASE AuthVault
  BY <1>1, <1>3, AuthVaultDoes, NoRequest, CallsLogin DEF Takes
<1>4. CASE AuthFails
  <2>1. answer[Auth] # None
    BY <1>4 DEF AuthFails
  <2>2. QED
    BY <1>1, <1>4, <2>1, AuthFailsDoes, NoRequest, CallsLogin DEF Takes
<1>5. CASE Activate \/ PersistRefresh \/ OpenSession \/ AuthDone \/ LoginFails
  <2>1. UNCHANGED <<requests, answer, cmd>> /\ auth.pc \notin {"tokens", "vault"}
    BY <1>5, ActivateDoes, PersistDoes, OpenSessionDoes, AuthEndDoes
  <2>2. QED
    BY <1>1, <2>1, NoRequest, CallsLogin
<1>6. QED
  BY <1>2, <1>3, <1>4, <1>5 DEF AuthStep

LEMMA CallsStep ==
  ASSUME Inv, [Next]_vars
  PROVE  Calls'
<1>1. ASSUME NEW r \in requests, Handler(r)
      PROVE  Calls'
  <2>1. UNCHANGED Ours /\ ((\E q : MovesOn(r, q)) \/ (\E a : Replies(r, a)))
    BY <1>1, CheckDoes, LookupDoes, RegisterDoes, IssueDoes, RotateDoes, ReissueDoes, LogoutDoes,
       ChangeDoes, RevokeDoes, RevokeTokensDoes, PutDoes, Zenon DEF Handler
  <2>2. QED
    BY <2>1, CallsHandler DEF Ours
<1>2. ASSUME NEW a \in Accounts, OtherDesktop(a)
      PROVE  UNCHANGED <<requests, answer, auth, cmd>>
  BY <1>2, OtherDoes DEF Ours
<1>3. CASE UNCHANGED <<requests, answer, auth, cmd>>
  BY <1>3 DEF Inv, Calls, LoginAsks
<1>4. CASE Enqueue \/ UNCHANGED vars
  BY <1>3, <1>4, Zenon DEF Enqueue, vars, tasks
<1>5. ASSUME NEW t \in Tasks, NEW kind \in Commands, Start(t, kind)
      PROVE  Calls'
  <2>1. PICK c, q : /\ c \in Command /\ Sets(t, c) /\ c.pc = "refresh"
                    /\ Sends(t, q) /\ q.kind = "refresh"
    BY <1>5, StartDoes
  <2>2. c # None /\ Asks(c, q)
    BY <2>1, NoneOK DEF Asks
  <2>3. QED
    BY <1>5, <2>1, <2>2, StartDoes, NoneFacts, NoRequest, CallsTask
<1>6. ASSUME NEW a \in Accounts, NEW reg \in BOOLEAN, AuthStart(a, reg)
      PROVE  Calls'
  <2>1. PICK p, q : /\ Begins(p, a, reg) /\ Sends(Auth, q) /\ q.acc = a /\ q.pw = p.pw
                    /\ q.kind = (IF reg THEN "register" ELSE "login")
    BY <1>6, AuthStartDoes
  <2>2. auth' # None /\ LoginAsks(q)'
    BY <2>1, NoneOK DEF Begins, LoginAsks
  <2>3. QED
    BY <1>6, <2>1, <2>2, AuthStartDoes, NoneFacts, NoRequest, CallsLogin
<1>7. ASSUME NEW c \in Callers, GiveUp(c)
      PROVE  Calls'
  BY <1>7, GiveUpDoes, NoneFacts, CallsOrphans DEF FailsTo, GoesTo, Sets
<1>8. CASE Restart
  BY <1>8, RestartDoes, NoneFacts, CallsOrphans
<1>9. QED
  BY <1>1, <1>2, <1>3, <1>4, <1>5, <1>6, <1>7, <1>8, CallsTaskStep, CallsAuthStep DEF Next

-----------------------------------------------------------------------------
(* Types.                                                                  *)
TypeServer ==
  /\ password \in [Accounts -> Passwords \cup {None}]
  /\ vault \in [Accounts -> Vault \cup {None}]
  /\ cut \subseteq Nat

TypeQueues ==
  requests \subseteq Request /\ answer \in [Callers -> Answer \cup {None}]

TypeDesktop ==
  /\ session \in Session \cup {None} /\ syncKey \in Keys
  /\ session # None => session.tok \in DOMAIN token
  /\ profile \in [Accounts -> Profile \cup {None}] /\ active \in Keys
  /\ keyFile \in Keys
  /\ outbox \subseteq Accounts /\ versions \subseteq Accounts
  /\ ends \in 0 .. MaxEnds /\ mixed \in BOOLEAN

TypeTasks == auth \in AuthTask \cup {None} /\ cmd \in [Tasks -> Command \cup {None}]

LEMMA TypeParts ==
  TypeOK <=> Issued /\ TypeServer /\ TypeQueues /\ TypeDesktop /\ TypeTasks
BY DEF TypeOK, Issued, TypeServer, TypeQueues, TypeDesktop, TypeTasks

LEMMA QueuesHandler ==
  ASSUME Inv, NEW r \in requests, (\E q : MovesOn(r, q)) \/ (\E a : Replies(r, a))
  PROVE  TypeQueues'
BY DEF Inv, TypeOK, TypeQueues, MovesOn, SameButStep, Replies

(* The queues of the desktop: a request sent, an answer taken, or neither. *)
Queues ==
  /\ UNCHANGED requests \/ \E c, q : Sends(c, q)
  /\ UNCHANGED answer \/ \E c : Takes(c)

LEMMA QueuesDesktop ==
  ASSUME Inv, Queues
  PROVE  TypeQueues'
BY DEF Inv, TypeOK, TypeQueues, Queues, Sends, Takes

LEMMA HandlerMoves ==
  ASSUME Inv, NEW r \in requests, Handler(r)
  PROVE  UNCHANGED Ours /\ ((\E q : MovesOn(r, q)) \/ (\E a : Replies(r, a)))
BY CheckDoes, LookupDoes, RegisterDoes, IssueDoes, RotateDoes, ReissueDoes, LogoutDoes,
   ChangeDoes, RevokeDoes, RevokeTokensDoes, PutDoes, Zenon DEF Handler

(* What a step of the desktop does not touch.                              *)
LEMMA DesktopSteps ==
  ASSUME Inv
  PROVE  /\ \A t \in Tasks : TaskStep(t) => UNCHANGED <<server, auth, ends, cut>> /\ Queues
         /\ \A t \in Tasks, kind \in Commands :
              Start(t, kind) => UNCHANGED <<server, memory, disk, auth, ends, cut, mixed>> /\ Queues
         /\ \A a \in Accounts, reg \in BOOLEAN :
              AuthStart(a, reg) => UNCHANGED <<server, memory, disk, cmd, ends, cut, mixed>> /\ Queues
         /\ AuthStep => UNCHANGED <<server, cmd, ends, cut>> /\ Queues
         /\ Enqueue => UNCHANGED <<server, requests, answer, tasks, ends, cut>>
<1>1. ASSUME NEW t \in Tasks, TaskStep(t)
      PROVE  UNCHANGED <<server, auth, ends, cut>> /\ Queues
  <2>1. CASE RefreshAnswered(t)
    BY <2>1, RefreshAnsweredDoes DEF Queues
  <2>2. CASE AnswerFails(t)
    BY <2>2, AnswerFailsDoes DEF Queues
  <2>3. CASE Listed(t) \/ Pushed(t) \/ Pulled(t) \/ LoggedOut(t)
    BY <2>3, ServedDoes DEF Queues
  <2>4. CASE SaveCursor(t) \/ ClearRefresh(t) \/ DropSession(t) \/ LocalFails(t)
    BY <2>4, LocalDoes DEF Queues
  <2>5. QED
    BY <1>1, <2>1, <2>2, <2>3, <2>4 DEF TaskStep
<1>2. ASSUME NEW t \in Tasks, NEW kind \in Commands, Start(t, kind)
      PROVE  UNCHANGED <<server, memory, disk, auth, ends, cut, mixed>> /\ Queues
  BY <1>2, StartDoes DEF Queues
<1>3. ASSUME NEW a \in Accounts, NEW reg \in BOOLEAN, AuthStart(a, reg)
      PROVE  UNCHANGED <<server, memory, disk, cmd, ends, cut, mixed>> /\ Queues
  BY <1>3, AuthStartDoes DEF Queues
<1>4. ASSUME AuthStep
      PROVE  UNCHANGED <<server, cmd, ends, cut>> /\ Queues
  <2>1. CASE AuthTokens
    BY <2>1, AuthTokensDoes DEF Queues
  <2>2. CASE AuthVault
    BY <2>2, AuthVaultDoes DEF Queues
  <2>3. CASE AuthFails
    BY <2>3, AuthFailsDoes DEF Queues
  <2>4. CASE Activate \/ PersistRefresh \/ OpenSession \/ AuthDone \/ LoginFails
    BY <2>4, ActivateDoes, PersistDoes, OpenSessionDoes, AuthEndDoes DEF Queues
  <2>5. QED
    BY <1>4, <2>1, <2>2, <2>3, <2>4 DEF AuthStep
<1>5. Enqueue => UNCHANGED <<server, requests, answer, tasks, ends, cut>>
  BY Zenon DEF Enqueue
<1>6. QED
  BY <1>1, <1>2, <1>3, <1>4, <1>5

LEMMA QueuesStep ==
  ASSUME Inv, [Next]_vars
  PROVE  TypeQueues'
<1>1. ASSUME NEW r \in requests, Handler(r)
      PROVE  TypeQueues'
  BY <1>1, HandlerMoves, QueuesHandler
<1>2. CASE UNCHANGED <<requests, answer>>
  BY <1>2, QueuesDesktop DEF Queues
<1>3. ASSUME NEW a \in Accounts, OtherDesktop(a)
      PROVE  TypeQueues'
  BY <1>2, <1>3, OtherDoes
<1>4. CASE Enqueue \/ UNCHANGED vars
  BY <1>2, <1>4, Zenon DEF Enqueue, vars
<1>5. ASSUME NEW c \in Callers, GiveUp(c)
      PROVE  TypeQueues'
  BY <1>5, GiveUpDoes DEF Orphans, TypeQueues
<1>6. CASE Restart
  BY <1>6, RestartDoes DEF Orphans, TypeQueues
<1>7. QED
  BY <1>1, <1>2, <1>3, <1>4, <1>5, <1>6, DesktopSteps, QueuesDesktop DEF Next

LEMMA DevicesAreNumbers ==
  ASSUME Inv, NEW a
  PROVE  DevicesOf(a) \subseteq Nat
BY IssuedHolds, IssuedFacts DEF DevicesOf

LEMMA ServerTypes ==
  ASSUME Inv, [Next]_vars
  PROVE  TypeServer'
<1>1. /\ password \in [Accounts -> Passwords \cup {None}]
      /\ vault \in [Accounts -> Vault \cup {None}] /\ cut \subseteq Nat
  BY DEF Inv, TypeOK
<1>2. ASSUME NEW r \in requests, Handler(r)
      PROVE  TypeServer'
  <2>1. /\ r.acc \in Accounts /\ r.pw \in Passwords /\ r.dev \in Nat /\ r.target \in Nat
        /\ DevicesOf(r.acc) \subseteq Nat
    BY RequestFacts, DevicesAreNumbers DEF Inv
  <2>2. CASE LoginVerify(r) \/ RefreshSelect(r) \/ Authorize(r) \/ PasswordVerify(r)
             \/ GetVault(r) \/ ServeRecords(r) \/ Refuse(r)
    BY <1>1, <2>2, CheckDoes, LookupDoes DEF TypeServer, server
  <2>3. CASE RegisterUser(r)
    BY <1>1, <2>1, <2>3, RegisterDoes DEF TypeServer
  <2>4. CASE IssueTokens(r) \/ RefreshIssue(r) \/ RevokeTokens(r)
    BY <1>1, <2>4, IssueDoes, ReissueDoes, RevokeTokensDoes DEF TypeServer
  <2>5. CASE RefreshRotate(r)
    BY <1>1, <2>1, <2>5, RotateDoes DEF TypeServer
  <2>6. CASE Logout(r)
    BY <1>1, <2>1, <2>6, LogoutDoes DEF TypeServer
  <2>7. CASE RevokeDevice(r)
    BY <1>1, <2>1, <2>7, RevokeDoes DEF TypeServer
  <2>8. CASE ChangePassword(r)
    <3>1. password' \in [Accounts -> Passwords \cup {None}] /\ cut' \subseteq Nat
      BY <1>1, <2>1, <2>8, ChangeDoes
    <3>2. vault' \in [Accounts -> Vault \cup {None}]
      BY <2>1, <2>8, ChangeDoes, VaultPut
    <3>3. QED
      BY <3>1, <3>2 DEF TypeServer
  <2>9. CASE PutVault(r)
    BY <1>1, <2>1, <2>9, PutDoes, VaultPut DEF TypeServer
  <2>10. QED
    BY <1>2, <2>2, <2>3, <2>4, <2>5, <2>6, <2>7, <2>8, <2>9 DEF Handler
<1>3. ASSUME NEW a \in Accounts, OtherDesktop(a)
      PROVE  TypeServer'
  <2>1. CASE /\ password[a] + 1 \in Passwords
             /\ password' = [password EXCEPT ![a] = password[a] + 1]
             /\ \E v \in Vault : vault' = [vault EXCEPT ![a] = v]
             /\ cut' = cut \cup DevicesOf(a)
    BY <1>1, <2>1, VaultPut, DevicesAreNumbers DEF TypeServer
  <2>2. CASE UNCHANGED <<password, vault>> /\ \E d \in DOMAIN device : cut' = cut \cup {d}
    BY <1>1, <2>2, IssuedHolds, IssuedFacts DEF TypeServer
  <2>3. QED
    BY <1>3, <2>1, <2>2, OtherDoes
<1>4. CASE UNCHANGED <<server, cut>>
  BY <1>1, <1>4 DEF TypeServer, server
<1>5. ASSUME NEW c \in Callers, GiveUp(c)
      PROVE  TypeServer'
  BY <1>1, <1>5, GiveUpDoes, LostFacts DEF TypeServer, server
<1>6. CASE Restart
  BY <1>1, <1>6, RestartDoes DEF TypeServer, server
<1>7. CASE UNCHANGED vars
  BY <1>4, <1>7 DEF vars
<1>8. QED
  BY <1>2, <1>3, <1>4, <1>5, <1>6, <1>7, DesktopSteps DEF Next

LEMMA TaskTypes ==
  ASSUME Inv, [Next]_vars
  PROVE  TypeTasks'
<1>1. auth \in AuthTask \cup {None} /\ cmd \in [Tasks -> Command \cup {None}]
  BY DEF Inv, TypeOK
<1>2. CASE UNCHANGED <<auth, cmd>>
  BY <1>1, <1>2 DEF TypeTasks
<1>3. ASSUME NEW t \in Tasks, \E c : Sets(t, c), UNCHANGED auth
      PROVE  TypeTasks'
  BY <1>1, <1>3 DEF TypeTasks, Sets
<1>4. ASSUME auth' \in AuthTask \cup {None}, UNCHANGED cmd
      PROVE  TypeTasks'
  BY <1>1, <1>4 DEF TypeTasks
<1>5. ASSUME NEW t \in Tasks, TaskStep(t)
      PROVE  TypeTasks'
  <2>1. (\E c : Sets(t, c)) \/ FailsTo(t) \/ \E pc : GoesTo(t, pc)
    BY <1>5, RefreshAnsweredDoes, AnswerFailsDoes, ServedDoes, LocalDoes DEF TaskStep
  <2>2. UNCHANGED auth
    BY <1>5, DesktopSteps
  <2>3. QED
    BY <1>3, <2>1, <2>2, GoesSets
<1>6. CASE AuthStep
  <2>1. auth' \in AuthTask \cup {None}
    BY <1>6, AuthTokensDoes, AuthVaultDoes, AuthFailsDoes, ActivateDoes, PersistDoes,
       OpenSessionDoes, AuthEndDoes DEF AuthStep, Advances
  <2>2. QED
    BY <1>4, <1>6, <2>1, DesktopSteps
<1>7. ASSUME NEW c \in Callers, GiveUp(c)
      PROVE  TypeTasks'
  BY <1>3, <1>4, <1>7, GiveUpDoes, GoesSets
<1>8. CASE Restart
  BY <1>8, RestartDoes DEF TypeTasks
<1>9. ASSUME NEW r \in requests, Handler(r)
      PROVE  TypeTasks'
  BY <1>2, <1>9, HandlerMoves DEF Ours
<1>10. ASSUME NEW a \in Accounts, OtherDesktop(a)
      PROVE  TypeTasks'
  BY <1>2, <1>10, OtherDoes DEF Ours
<1>11. ASSUME NEW t \in Tasks, NEW kind \in Commands, Start(t, kind)
      PROVE  TypeTasks'
  BY <1>3, <1>11, StartDoes
<1>12. ASSUME NEW a \in Accounts, NEW reg \in BOOLEAN, AuthStart(a, reg)
      PROVE  TypeTasks'
  BY <1>4, <1>12, AuthStartDoes DEF Begins
<1>13. CASE Enqueue \/ UNCHANGED vars
  BY <1>2, <1>13, Zenon DEF Enqueue, vars, tasks
<1>14. QED
  BY <1>5, <1>6, <1>7, <1>8, <1>9, <1>10, <1>11, <1>12, <1>13 DEF Next

LEMMA TokenStays ==
  ASSUME Inv, [Next]_vars
  PROVE  /\ DOMAIN token \subseteq DOMAIN token' /\ DOMAIN device \subseteq DOMAIN device'
         /\ DOMAIN token \subseteq Nat /\ DOMAIN device \subseteq Nat
BY GrowsStep, IssuedHolds, IssuedFacts DEF Grows

LEMMA DesktopTypes ==
  ASSUME Inv, [Next]_vars
  PROVE  TypeDesktop'
<1>1. /\ session \in Session \cup {None} /\ syncKey \in Keys
      /\ session # None => session.tok \in DOMAIN token
      /\ profile \in [Accounts -> Profile \cup {None}] /\ active \in Keys
      /\ keyFile \in Keys
      /\ outbox \subseteq Accounts /\ versions \subseteq Accounts
      /\ ends \in 0 .. MaxEnds /\ mixed \in BOOLEAN
      /\ DOMAIN token \subseteq DOMAIN token'
  BY TokenStays DEF Inv, TypeOK
<1>2. CASE UNCHANGED <<memory, disk, ends, mixed>>
  BY <1>1, <1>2 DEF TypeDesktop, memory, disk
<1>3. ASSUME NEW t \in Tasks, TaskStep(t)
      PROVE  TypeDesktop'
  <2>1. CASE RefreshAnswered(t)
    <3>1. /\ answer[t].tok \in DOMAIN token /\ session.key \in Accounts
      BY <2>1, RefreshAnsweredDoes, SessionFacts DEF Inv, Granted, Grants
    <3>2. UNCHANGED ends
      BY <2>1, RefreshAnsweredDoes
    <3>3. outbox' \subseteq Accounts /\ mixed' \in BOOLEAN
      <4>1. /\ mixed' = (mixed \/ cmd[t].acc # session.key)
            /\ outbox' = IF cmd[t].kind = "push" THEN outbox \cup {session.key} ELSE outbox
        BY <2>1, RefreshAnsweredDoes, Zenon
      <4>2. mixed' \in BOOLEAN
        BY <4>1
      <4>3. outbox' \subseteq Accounts
        BY <1>1, <3>1, <4>1
      <4>4. QED
        BY <4>2, <4>3
    <3>4. session' \in Session /\ session'.tok = answer[t].tok
          /\ UNCHANGED <<syncKey, profile, active, keyFile, versions>>
      BY <2>1, RefreshAnsweredDoes
    <3>5. QED
      BY <1>1, <3>1, <3>2, <3>3, <3>4 DEF TypeDesktop
  <2>2. CASE AnswerFails(t)
    BY <1>2, <2>2, AnswerFailsDoes
  <2>3. CASE Listed(t) \/ Pushed(t) \/ Pulled(t) \/ LoggedOut(t)
    <3>1. device[cmd[t].dev].acc \in Accounts
      BY <2>3, ServedDoes, IssuedHolds, IssuedFacts DEF Inv, Held
    <3>2. outbox' \subseteq Accounts /\ versions' \subseteq Accounts /\ mixed' \in BOOLEAN
      BY <1>1, <2>3, <3>1, ServedDoes
    <3>3. UNCHANGED <<memory, profile, active, keyFile, ends>>
      BY <2>3, ServedDoes
    <3>4. QED
      BY <1>1, <3>2, <3>3 DEF TypeDesktop, memory
  <2>4. CASE SaveCursor(t) \/ ClearRefresh(t) \/ DropSession(t) \/ LocalFails(t)
    <3>1. profile' \in [Accounts -> Profile \cup {None}]
      BY <1>1, <2>4, LocalDoes DEF Profiled
    <3>2. \/ session' = None
          \/ session' = session
          \/ session # None /\ session' \in Session /\ session'.tok = session.tok
      BY <2>4, LocalDoes
    <3>3. mixed' \in BOOLEAN /\ UNCHANGED <<syncKey, active, keyFile, outbox, versions, ends>>
      BY <1>1, <2>4, LocalDoes
    <3>4. QED
      BY <1>1, <3>1, <3>2, <3>3 DEF TypeDesktop
  <2>5. QED
    BY <1>3, <2>1, <2>2, <2>3, <2>4 DEF TaskStep
<1>4. CASE AuthStep
  <2>1. CASE AuthTokens \/ AuthVault \/ AuthFails
    BY <1>2, <2>1, AuthTokensDoes, AuthVaultDoes, AuthFailsDoes
  <2>2. CASE Activate
    <3>1. auth.acc \in Accounts
      BY <2>2, ActivateDoes, AuthFacts DEF Inv, Advances
    <3>2. active' \in Keys /\ profile' \in [Accounts -> Profile \cup {None}]
      BY <2>2, <3>1, ActivateDoes DEF Keys, Profiled
    <3>3. /\ outbox' \subseteq Accounts /\ versions' \subseteq Accounts /\ mixed' \in BOOLEAN
          /\ UNCHANGED <<memory, keyFile, ends>>
      BY <1>1, <2>2, ActivateDoes
    <3>4. QED
      BY <1>1, <3>2, <3>3 DEF TypeDesktop, memory
  <2>3. CASE PersistRefresh
    BY <1>1, <2>3, PersistDoes DEF TypeDesktop, memory, Profiled
  <2>4. CASE OpenSession
    BY <1>1, <2>4, OpenSessionDoes DEF TypeDesktop, disk, Inv, LoggingIn, Grants, Advances
  <2>5. CASE AuthDone \/ LoginFails
    BY <1>1, <2>5, AuthEndDoes, AuthFacts DEF TypeDesktop, Inv
  <2>6. QED
    BY <1>4, <2>1, <2>2, <2>3, <2>4, <2>5 DEF AuthStep
<1>5. CASE Enqueue
  <2>1. /\ EnqueueKey \notin outbox \cup {None} /\ outbox' = outbox \cup {EnqueueKey}
        /\ mixed' = (mixed \/ Unfiled)
        /\ UNCHANGED <<memory, profile, active, keyFile, versions, ends>>
    BY <1>5, Zenon DEF Enqueue
  <2>2. EnqueueKey \in Accounts
    BY <1>1, <2>1, SessionFacts DEF EnqueueKey, Keys, Inv
  <2>3. QED
    BY <1>1, <2>1, <2>2 DEF TypeDesktop, memory
<1>6. CASE Restart
  <2>1. session' # None => session'.tok \in DOMAIN token
    BY <1>6, RestartDoes, ActiveFacts DEF Inv, Held, ProfileOf
  <2>2. session' \in Session \cup {None} /\ ends' \in 0 .. MaxEnds /\ mixed' = (mixed \/ Unfiled)
        /\ syncKey' = keyFile /\ UNCHANGED disk
    BY <1>6, RestartDoes
  <2>3. QED
    BY <1>1, <2>1, <2>2 DEF TypeDesktop, disk
<1>7. ASSUME NEW r \in requests, Handler(r)
      PROVE  UNCHANGED <<memory, disk, ends, mixed>>
  BY <1>7, HandlerMoves DEF Ours, memory, disk
<1>8. ASSUME NEW a \in Accounts, OtherDesktop(a)
      PROVE  UNCHANGED <<memory, disk, ends, mixed>>
  BY <1>8, OtherDoes DEF Ours, memory, disk
<1>9. ASSUME NEW c \in Callers, GiveUp(c)
      PROVE  UNCHANGED <<memory, disk, ends, mixed>>
  BY <1>9, GiveUpDoes
<1>10. CASE UNCHANGED vars
  BY <1>2, <1>10 DEF vars
<1>11. QED
  BY <1>2, <1>3, <1>4, <1>5, <1>6, <1>7, <1>8, <1>9, <1>10, DesktopSteps DEF Next

LEMMA TypeStep ==
  ASSUME Inv, [Next]_vars
  PROVE  TypeOK'
<1>1. Issued' /\ TypeServer' /\ TypeQueues' /\ TypeDesktop' /\ TypeTasks'
  BY GrowsStep, ServerTypes, QueuesStep, DesktopTypes, TaskTypes
<1>2. QED
  BY <1>1 DEF TypeOK, Issued, TypeServer, TypeQueues, TypeDesktop, TypeTasks

-----------------------------------------------------------------------------
(* Requests keep naming what was issued.                                   *)
LEMMA OpenedStays ==
  ASSUME Inv, Grows, NEW d, Opened(d)
  PROVE  Opened(d)' /\ device'[d].acc = device[d].acc /\ device[d].acc \in Accounts
BY IssuedHolds, IssuedFacts DEF Opened, Grows

LEMMA GrantsStays ==
  ASSUME Inv, Grows, NEW a, Grants(a)
  PROVE  /\ a.tok \in DOMAIN token' /\ token'[a.tok].dev = a.dev /\ a.dev \in DOMAIN device
         /\ device'[a.dev].acc = device[a.dev].acc
BY IssuedHolds, IssuedFacts DEF Grants, Grows

SameNames(q, r) ==
  q.kind = r.kind /\ q.acc = r.acc /\ q.dev = r.dev /\ q.tok = r.tok /\ q.key = r.key

LEMMA NamesStays ==
  ASSUME Inv, Grows, NEW r \in requests, NEW q, SameNames(q, r)
  PROVE  Names(q)'
<1>1. Names(r) /\ r.acc \in Accounts
  BY RequestFacts DEF Inv, Addressed
<1>2. NeedsAccess(q) => q.dev \in DOMAIN device' /\ device'[q.dev].acc = q.acc
  BY <1>1 DEF Names, SameNames, Grows, NeedsAccess
<1>3. q.kind = "refresh" => q.tok \in DOMAIN token' /\ token'[q.tok].dev = q.dev
  BY <1>1 DEF Names, SameNames, Grows
<1>4. q.kind = "refresh" => Opened(q.dev)'
  <2>1. q.kind = "refresh" => Opened(r.dev) /\ q.dev = r.dev
    BY <1>1 DEF Names, SameNames
  <2>2. PICK d : d = q.dev
    OBVIOUS
  <2>3. q.kind = "refresh" => Opened(d)'
    BY <2>1, <2>2, OpenedStays, Zenon
  <2>4. QED
    BY <2>2, <2>3
<1>5. q.kind \in Kinds => vault'[q.acc] # None
  BY <1>1 DEF Names, SameNames, Grows
<1>6. q.kind = "password" => q.key \in Accounts
  BY <1>1 DEF Names, SameNames
<1>7. QED
  BY <1>2, <1>3, <1>4, <1>5, <1>6 DEF Names, NeedsAccess

LEMMA AddressedAfter ==
  ASSUME Inv, Grows,
         \A q \in requests' : (\E r \in requests : SameNames(q, r)) \/ Names(q)'
  PROVE  Addressed'
BY NamesStays DEF Addressed

LEMMA AddressedStep ==
  ASSUME Inv, [Next]_vars
  PROVE  Addressed'
<1>1. Grows
  BY GrowsStep
<1>2. CASE requests' \subseteq requests
  BY <1>1, <1>2, AddressedAfter DEF SameNames
<1>3. ASSUME NEW r \in requests, Handler(r)
      PROVE  Addressed'
  BY <1>1, <1>3, HandlerMoves, AddressedAfter DEF MovesOn, SameButStep, Replies, SameNames
<1>4. ASSUME NEW callers, Orphans(callers)
      PROVE  Addressed'
  <2>1. \A q \in requests' : \E r \in requests : SameNames(q, r)
    BY <1>4, OrphanFacts, RequestFacts DEF Orphans, Inv, SameNames
  <2>2. QED
    BY <1>1, <2>1, AddressedAfter
<1>5. ASSUME NEW c, NEW q, Sends(c, q), Names(q), UNCHANGED server
      PROVE  Addressed'
  <2>1. Names(q)'
    BY <1>5 DEF Names, Opened, server, NeedsAccess
  <2>2. QED
    BY <1>1, <1>5, <2>1, AddressedAfter DEF Sends, SameNames
<1>6. ASSUME NEW t \in Tasks, NEW kind \in Commands, Start(t, kind)
      PROVE  Addressed'
  <2>1. PICK q : /\ Sends(t, q) /\ q.kind = "refresh"
                 /\ q.tok = session.tok /\ q.dev = token[session.tok].dev
    BY <1>6, StartDoes
  <2>2. session # None /\ UNCHANGED server
    BY <1>6, StartDoes
  <2>3. Names(q)
    BY <2>1, <2>2 DEF Names, NeedsAccess, Kinds, Inv, Held
  <2>4. QED
    BY <1>5, <2>1, <2>2, <2>3
<1>7. ASSUME NEW t \in Tasks, RefreshAnswered(t)
      PROVE  Addressed'
  <2>1. CASE UNCHANGED requests
    BY <1>2, <2>1
  <2>2. ASSUME NEW q, Sends(t, q), q.kind = cmd[t].kind,
               q.acc = device[answer[t].dev].acc, q.dev = answer[t].dev, q.key = session.key
        PROVE  Addressed'
    <3>1. Opened(answer[t].dev) /\ session.key \in Accounts /\ cmd[t].kind \in Kinds
          /\ UNCHANGED server
      BY <1>7, RefreshAnsweredDoes, SessionFacts, CommandFacts DEF Inv, Granted
    <3>2. Names(q)
      BY <2>2, <3>1 DEF Names, Opened, Kinds
    <3>3. QED
      BY <1>5, <2>2, <3>1, <3>2
  <2>3. QED
    BY <1>7, <2>1, <2>2, RefreshAnsweredDoes
<1>8. ASSUME NEW t \in Tasks, TaskStep(t), ~RefreshAnswered(t)
      PROVE  Addressed'
  BY <1>2, <1>8, AnswerFailsDoes, ServedDoes, LocalDoes DEF TaskStep
<1>9. ASSUME NEW a \in Accounts, NEW reg \in BOOLEAN, AuthStart(a, reg)
      PROVE  Addressed'
  <2>1. PICK q : Sends(Auth, q) /\ q.kind = (IF reg THEN "register" ELSE "login")
    BY <1>9, AuthStartDoes
  <2>2. Names(q)
    BY <2>1 DEF Names, NeedsAccess, Kinds
  <2>3. QED
    BY <1>5, <1>9, <2>1, <2>2, AuthStartDoes
<1>10. CASE AuthTokens
  <2>1. PICK q : /\ Sends(Auth, q) /\ q.acc = auth.acc /\ q.dev = answer[Auth].dev
                 /\ q.kind = (IF auth.reg THEN "put_vault" ELSE "get_vault")
    BY <1>10, AuthTokensDoes
  <2>2. Grants(answer[Auth]) /\ device[answer[Auth].dev].acc = auth.acc
    BY <1>10, AuthTokensDoes DEF Inv, Granted, Advances
  <2>3. answer[Auth].dev \in DOMAIN device
    BY <2>2, IssuedHolds, IssuedFacts DEF Grants
  <2>4. Names(q)
    BY <2>1, <2>2, <2>3 DEF Names, Kinds
  <2>5. QED
    BY <1>5, <1>10, <2>1, <2>4, AuthTokensDoes
<1>11. CASE AuthStep /\ ~AuthTokens
  BY <1>2, <1>11, AuthVaultDoes, AuthFailsDoes, ActivateDoes, PersistDoes, OpenSessionDoes,
     AuthEndDoes DEF AuthStep
<1>12. CASE Enqueue \/ UNCHANGED vars
  BY <1>2, <1>12, Zenon DEF Enqueue, vars
<1>13. ASSUME NEW a \in Accounts, OtherDesktop(a)
      PROVE  Addressed'
  BY <1>2, <1>13, OtherDoes
<1>14. QED
  BY <1>3, <1>4, <1>6, <1>7, <1>8, <1>9, <1>10, <1>11, <1>12, <1>13, GiveUpDoes, RestartDoes DEF Next

-----------------------------------------------------------------------------
(* Answers keep granting what was issued.                                  *)
Lends(t) ==
  answer[t] # None /\ answer[t].ok /\ cmd[t].pc = "refresh" =>
    Grants(answer[t]) /\ Opened(answer[t].dev)

Admits ==
  /\ answer[Auth] # None /\ answer[Auth].ok /\ auth.pc = "tokens" =>
       Grants(answer[Auth]) /\ device[answer[Auth].dev].acc = auth.acc
  /\ answer[Auth] # None /\ answer[Auth].ok /\ auth.pc = "vault" =>
       /\ vault[auth.acc] # None
       /\ ~auth.reg => answer[Auth].keys # {}

LEMMA LendsStays ==
  ASSUME Inv, Grows, NEW t \in Tasks,
         answer'[t] = None \/ (answer'[t] = answer[t] /\ cmd'[t] = cmd[t])
  PROVE  Lends(t)'
<1>1. PICK a, d : a = answer[t] /\ d = answer[t].dev
  OBVIOUS
<1>2. SUFFICES ASSUME a # None, a.ok, answer'[t] = a, cmd'[t] = cmd[t], cmd[t].pc = "refresh"
               PROVE  Lends(t)'
  BY <1>1 DEF Lends
<1>3. Grants(a) /\ Opened(d)
  BY <1>1, <1>2 DEF Inv, Granted
<1>4. a.tok \in DOMAIN token' /\ token'[a.tok].dev = a.dev
  BY <1>3, GrantsStays, Zenon
<1>5. Opened(d)'
  BY <1>3, OpenedStays, Zenon
<1>6. QED
  BY <1>1, <1>2, <1>4, <1>5 DEF Lends, Grants, Opened

LEMMA AdmitsStays ==
  ASSUME Inv, Grows,
         answer'[Auth] = None \/ (answer'[Auth] = answer[Auth] /\ auth' = auth)
  PROVE  Admits'
<1>1. PICK a : a = answer[Auth]
  OBVIOUS
<1>2. SUFFICES ASSUME a # None, a.ok, answer'[Auth] = a, auth' = auth
               PROVE  Admits'
  BY <1>1 DEF Admits
<1>3. auth # None /\ auth.acc \in Accounts
  BY <1>1, <1>2, AuthFacts DEF Inv, Calls
<1>4. CASE auth.pc = "tokens"
  <2>1. Grants(a) /\ device[a.dev].acc = auth.acc
    BY <1>1, <1>2, <1>4 DEF Inv, Granted
  <2>2. /\ a.tok \in DOMAIN token' /\ token'[a.tok].dev = a.dev
        /\ device'[a.dev].acc = device[a.dev].acc
    BY <2>1, GrantsStays, Zenon
  <2>3. QED
    BY <1>2, <1>4, <2>1, <2>2 DEF Admits, Grants
<1>5. CASE auth.pc # "tokens"
  BY <1>1, <1>2, <1>3, <1>5 DEF Inv, Granted, Admits, Grows
<1>6. QED
  BY <1>4, <1>5

(* A handler grants what it has issued, or found.                          *)
Fulfils(r, a) ==
  a.ok =>
    /\ r.kind \in {"refresh", "register", "login"} =>
         a.tok \in DOMAIN token' /\ token'[a.tok].dev = a.dev
    /\ r.kind = "refresh" =>
         a.dev = r.dev /\ a.dev \in DOMAIN device' /\ vault'[device'[a.dev].acc] # None
    /\ r.kind \in {"register", "login"} => device'[a.dev].acc = r.acc
    /\ r.kind \in {"put_vault", "get_vault"} => vault'[r.acc] # None
    /\ r.kind = "get_vault" => vault[r.acc] # None /\ a.keys = {vault[r.acc].key}

LEMMA HandlerFulfils ==
  ASSUME Inv, NEW r \in requests, Handler(r)
  PROVE  (\E q : MovesOn(r, q)) \/ (\E a : Replies(r, a) /\ Fulfils(r, a))
<1>1. r.acc \in Accounts
  BY RequestFacts DEF Inv
<1>2. CASE LoginVerify(r) \/ RefreshSelect(r) \/ Authorize(r) \/ PasswordVerify(r)
  BY <1>2, CheckDoes
<1>3. CASE GetVault(r) \/ ServeRecords(r) \/ Refuse(r)
  BY <1>3, LookupDoes DEF Fulfils, server
<1>4. CASE RegisterUser(r) \/ RefreshRotate(r) \/ RevokeDevice(r)
  BY <1>4, RegisterDoes, RotateDoes, RevokeDoes
<1>5. CASE IssueTokens(r)
  <2>1. /\ r.kind \in {"register", "login"}
        /\ device' = Append(device, [acc |-> r.acc, revoked |-> FALSE])
        /\ token' = Append(token, [dev |-> Len(device'), live |-> TRUE])
    BY <1>5, IssueDoes, Zenon
  <2>2. /\ Len(device') \in Nat \ {0} /\ device'[Len(device')].acc = r.acc
    BY <1>1, <2>1, IssuedHolds, DeviceAdded, Zenon
  <2>3. /\ DOMAIN token' = DOMAIN token \cup {Len(token')}
        /\ token'[Len(token')].dev = Len(device')
    BY <2>1, <2>2, IssuedHolds, TokenAdded, Zenon
  <2>4. PICK a : Replies(r, a) /\ a.ok /\ a.tok = Len(token') /\ a.dev = Len(device')
    BY <1>5, IssueDoes, Zenon
  <2>5. Fulfils(r, a)
    BY <2>1, <2>2, <2>3, <2>4 DEF Fulfils
  <2>6. QED
    BY <2>4, <2>5
<1>6. CASE RefreshIssue(r)
  <2>1. /\ r.kind = "refresh" /\ UNCHANGED <<device, vault>>
        /\ token' = Append(token, [dev |-> r.dev, live |-> TRUE])
    BY <1>6, ReissueDoes, Zenon
  <2>2. Opened(r.dev) /\ r.dev \in Nat \ {0}
    BY <2>1, IssuedHolds, IssuedFacts DEF Inv, Addressed, Names, Opened
  <2>3. PICK d : d = r.dev
    OBVIOUS
  <2>4. /\ DOMAIN token' = DOMAIN token \cup {Len(token')}
        /\ token'[Len(token')].dev = d
    BY <2>1, <2>2, <2>3, IssuedHolds, TokenAdded, Zenon
  <2>5. PICK a : Replies(r, a) /\ a.ok /\ a.tok = Len(token') /\ a.dev = r.dev
    BY <1>6, ReissueDoes, Zenon
  <2>6. Fulfils(r, a)
    BY <2>1, <2>2, <2>3, <2>4, <2>5 DEF Fulfils, Opened
  <2>7. QED
    BY <2>5, <2>6
<1>7. CASE Logout(r) \/ ChangePassword(r) \/ RevokeTokens(r)
  BY <1>7, LogoutDoes, ChangeDoes, RevokeTokensDoes DEF Fulfils
<1>8. CASE PutVault(r)
  BY <1>1, <1>8, PutDoes, VaultPut DEF Fulfils
<1>9. QED
  BY <1>2, <1>3, <1>4, <1>5, <1>6, <1>7, <1>8 DEF Handler

LEMMA GrantedHandler ==
  ASSUME Inv, NEW r \in requests, Handler(r)
  PROVE  Granted'
<1>1. Grows /\ UNCHANGED <<auth, cmd>> /\ Auth \in Callers /\ Tasks \subseteq Callers
      /\ Auth \notin Tasks
  BY GrowsHandler, HandlerMoves, NoneFacts DEF Ours
<1>2. CASE \E q : MovesOn(r, q)
  BY <1>1, <1>2, LendsStays, AdmitsStays DEF MovesOn, Granted, Lends, Admits
<1>3. ASSUME NEW a, Replies(r, a), Fulfils(r, a)
      PROVE  Granted'
  <2>1. \A c \in Callers : answer'[c] = IF c = r.by THEN a ELSE answer[c]
    BY <1>3 DEF Replies
  <2>2. ASSUME NEW t \in Tasks
        PROVE  Lends(t)'
    <3>1. CASE t # r.by
      BY <1>1, <2>1, <3>1, LendsStays
    <3>2. CASE t = r.by
      <4>1. cmd[t].pc = "refresh" => r.kind = "refresh"
        BY <3>2 DEF Inv, Calls, Asks
      <4>2. QED
        BY <1>1, <1>3, <2>1, <3>2, <4>1 DEF Lends, Fulfils, Grants, Opened
    <3>3. QED
      BY <3>1, <3>2
  <2>3. Admits'
    <3>1. CASE Auth # r.by
      BY <1>1, <2>1, <3>1, AdmitsStays
    <3>2. CASE Auth = r.by
      <4>1. auth # None /\ LoginAsks(r)
        BY <3>2 DEF Inv, Calls
      <4>2. answer'[Auth] = a /\ auth' = auth /\ auth.reg \in BOOLEAN
        BY <1>1, <2>1, <3>2, <4>1, AuthFacts DEF Inv
      <4>3. CASE auth.pc = "tokens"
        BY <1>3, <4>1, <4>2, <4>3 DEF Admits, Fulfils, Grants, LoginAsks
      <4>4. CASE auth.pc # "tokens"
        BY <1>3, <4>1, <4>2, <4>4 DEF Admits, Fulfils, LoginAsks
      <4>5. QED
        BY <4>3, <4>4
    <3>3. QED
      BY <3>1, <3>2
  <2>4. QED
    BY <2>2, <2>3 DEF Granted, Lends, Admits
<1>4. QED
  BY <1>2, <1>3, HandlerFulfils

LEMMA GrantedStep ==
  ASSUME Inv, [Next]_vars
  PROVE  Granted'
<1>1. Grows /\ Auth \in Callers /\ Tasks \subseteq Callers /\ Auth \notin Tasks
  BY GrowsStep, NoneFacts
<1>2. ASSUME \A t \in Tasks : answer'[t] = None \/ (answer'[t] = answer[t] /\ cmd'[t] = cmd[t]),
             answer'[Auth] = None \/ (answer'[Auth] = answer[Auth] /\ auth' = auth)
      PROVE  Granted'
  BY <1>1, <1>2, LendsStays, AdmitsStays DEF Granted, Lends, Admits
<1>3. ASSUME NEW r \in requests, Handler(r)
      PROVE  Granted'
  BY <1>3, GrantedHandler
<1>4. ASSUME NEW a \in Accounts, OtherDesktop(a)
      PROVE  Granted'
  BY <1>2, <1>4, OtherDoes DEF Ours
<1>5. ASSUME NEW t \in Tasks, \E c : Sets(t, c), UNCHANGED auth,
             Takes(t) \/ (UNCHANGED answer /\ answer[t] = None)
      PROVE  Granted'
  BY <1>1, <1>2, <1>5 DEF Sets, Takes
<1>6. ASSUME Takes(Auth) \/ (UNCHANGED answer /\ answer[Auth] = None), UNCHANGED cmd
      PROVE  Granted'
  BY <1>1, <1>2, <1>6 DEF Takes
<1>7. ASSUME NEW t \in Tasks, TaskStep(t)
      PROVE  Granted'
  <2>1. UNCHANGED auth
    BY <1>7, DesktopSteps
  <2>2. CASE RefreshAnswered(t)
    BY <1>5, <2>1, <2>2, RefreshAnsweredDoes
  <2>3. CASE AnswerFails(t)
    BY <1>5, <2>1, <2>3, AnswerFailsDoes, GoesSets
  <2>4. CASE Listed(t) \/ Pushed(t) \/ Pulled(t) \/ LoggedOut(t)
    BY <1>5, <2>1, <2>4, ServedDoes, GoesSets
  <2>5. CASE SaveCursor(t) \/ ClearRefresh(t) \/ DropSession(t) \/ LocalFails(t)
    <3>1. UNCHANGED answer /\ answer[t] = None
      BY <2>5, LocalDoes, NoRequest
    <3>2. \E c : Sets(t, c)
      BY <2>5, LocalDoes, GoesSets
    <3>3. QED
      BY <1>5, <2>1, <3>1, <3>2
  <2>6. QED
    BY <1>7, <2>2, <2>3, <2>4, <2>5 DEF TaskStep
<1>8. ASSUME NEW t \in Tasks, NEW kind \in Commands, Start(t, kind)
      PROVE  Granted'
  BY <1>5, <1>8, StartDoes, NoRequest
<1>9. ASSUME NEW a \in Accounts, NEW reg \in BOOLEAN, AuthStart(a, reg)
      PROVE  Granted'
  BY <1>6, <1>9, AuthStartDoes, NoRequest
<1>10. CASE AuthStep
  <2>1. CASE AuthTokens \/ AuthVault \/ AuthFails
    BY <1>6, <2>1, AuthTokensDoes, AuthVaultDoes, AuthFailsDoes
  <2>2. CASE Activate \/ PersistRefresh \/ OpenSession \/ AuthDone \/ LoginFails
    <3>1. UNCHANGED <<answer, cmd>> /\ auth.pc \notin {"tokens", "vault"}
      BY <2>2, ActivateDoes, PersistDoes, OpenSessionDoes, AuthEndDoes
    <3>2. QED
      BY <1>6, <3>1, NoRequest
  <2>3. QED
    BY <1>10, <2>1, <2>2 DEF AuthStep
<1>11. CASE Enqueue \/ UNCHANGED vars
  BY <1>2, <1>11, Zenon DEF Enqueue, vars, tasks
<1>12. ASSUME NEW c \in Callers, GiveUp(c)
      PROVE  Granted'
  <2>1. \A b \in Callers : answer'[b] = IF b = c THEN None ELSE answer[b]
    BY <1>12, GiveUpDoes DEF Orphans
  <2>2. c # Auth => UNCHANGED auth /\ \E x : Sets(c, x)
    BY <1>12, GiveUpDoes, GoesSets
  <2>3. c = Auth => UNCHANGED cmd
    BY <1>1, <1>12, GiveUpDoes
  <2>4. QED
    BY <1>1, <1>2, <2>1, <2>2, <2>3 DEF Sets
<1>13. CASE Restart
  BY <1>1, <1>2, <1>13, RestartDoes DEF Orphans
<1>14. QED
  BY <1>3, <1>4, <1>7, <1>8, <1>9, <1>10, <1>11, <1>12, <1>13 DEF Next

-----------------------------------------------------------------------------
(* What the session, the commands and the profiles name.                   *)
HeldSession ==
  session # None => /\ session.tok \in DOMAIN token
                    /\ Opened(session.dev) /\ Opened(token[session.tok].dev)

HeldCommands ==
  \A t \in Tasks : cmd[t] # None /\ cmd[t].pc \in {"request", "cursor"} =>
    cmd[t].dev \in DOMAIN device

HeldProfiles ==
  /\ \A a \in Accounts : ProfileOf(a)
  /\ active # None => profile[active] # None
  /\ active = None => \A a \in Accounts : profile[a] = None

LEMMA SessionStays ==
  ASSUME Inv, Grows,
         session' = None \/ (session # None /\ session'.tok = session.tok
                               /\ session'.dev = session.dev)
  PROVE  HeldSession'
<1>1. PICK d, k, e : d = session.dev /\ k = session.tok /\ e = token[k].dev
  OBVIOUS
<1>2. SUFFICES ASSUME session # None, session'.tok = k, session'.dev = d
               PROVE  k \in DOMAIN token' /\ Opened(d)' /\ Opened(token[k].dev)'
  BY <1>1 DEF HeldSession, Opened
<1>3. k \in DOMAIN token /\ Opened(d) /\ Opened(e)
  BY <1>1, <1>2 DEF Inv, Held
<1>4. Opened(d)' /\ Opened(e)'
  BY <1>3, OpenedStays, Zenon
<1>5. k \in DOMAIN token' /\ token'[k].dev = e
  BY <1>1, <1>3 DEF Grows
<1>6. QED
  BY <1>4, <1>5 DEF Opened

LEMMA CommandsStay ==
  ASSUME Inv, Grows,
         \A t \in Tasks : cmd'[t] # None /\ cmd'[t].pc \in {"request", "cursor"} =>
           \/ cmd'[t].dev \in DOMAIN device
           \/ cmd[t] # None /\ cmd[t].pc \in {"request", "cursor"} /\ cmd'[t].dev = cmd[t].dev
  PROVE  HeldCommands'
BY DEF Grows, HeldCommands, Inv, Held

LEMMA ProfileStays ==
  ASSUME Inv, Grows, NEW a \in Accounts, NEW p \in Profile, profile'[a] = p,
         vault'[a] # None, p.dev \in DOMAIN device, device[p.dev].acc = a,
         p.cipher # None => p.cipher \in DOMAIN token /\ device[token[p.cipher].dev].acc = a
  PROVE  ProfileOf(a)'
<1>1. p.dev \in DOMAIN device' /\ device'[p.dev].acc = a
  BY DEF Grows
<1>2. p.cipher # None => /\ p.cipher \in DOMAIN token'
                         /\ device'[token'[p.cipher].dev].acc = a
  BY IssuedHolds DEF Issued, Grows
<1>3. QED
  BY <1>1, <1>2 DEF ProfileOf

LEMMA ProfilesStay ==
  ASSUME Inv, Grows, UNCHANGED profile
  PROVE  \A a \in Accounts : ProfileOf(a)'
<1>1. ASSUME NEW a \in Accounts, profile[a] # None
      PROVE  ProfileOf(a)'
  <2>1. ProfileOf(a) /\ profile[a] \in Profile
    BY <1>1 DEF Inv, Held, TypeOK
  <2>2. PICK p : p = profile[a]
    OBVIOUS
  <2>3. /\ p \in Profile /\ profile'[a] = p /\ vault'[a] # None /\ p.dev \in DOMAIN device
        /\ device[p.dev].acc = a
        /\ p.cipher # None => p.cipher \in DOMAIN token /\ device[token[p.cipher].dev].acc = a
    BY <1>1, <2>1, <2>2 DEF ProfileOf, Grows
  <2>4. QED
    BY <2>3, ProfileStays
<1>2. ASSUME NEW a \in Accounts, profile[a] = None
      PROVE  ProfileOf(a)'
  BY <1>2 DEF ProfileOf
<1>3. QED
  BY <1>1, <1>2

LEMMA DiskStays ==
  ASSUME Inv, Grows, UNCHANGED <<profile, active>>
  PROVE  HeldProfiles'
BY ProfilesStay DEF HeldProfiles, Inv, Held

(* A step that writes one profile, and makes it active if it was not.      *)
LEMMA DiskWritten ==
  ASSUME Inv, UNCHANGED server, NEW b \in Accounts, NEW p \in Profile, Profiled(b, p),
         active' = b,
         vault[b] # None, p.dev \in DOMAIN device, device[p.dev].acc = b,
         p.cipher # None => p.cipher \in DOMAIN token /\ device[token[p.cipher].dev].acc = b
  PROVE  HeldProfiles'
<1>1. Grows
  BY GrowsStill
<1>2. \A a \in Accounts : profile'[a] = IF a = b THEN p ELSE profile[a]
  BY DEF Profiled
<1>3. ProfileOf(b)'
  BY <1>1, <1>2, ProfileStays DEF server
<1>4. ASSUME NEW a \in Accounts, a # b
      PROVE  ProfileOf(a)'
  BY <1>2, <1>4 DEF Inv, Held, ProfileOf, server
<1>5. b # None /\ p # None
  BY NoneFacts, NoneOK
<1>6. QED
  BY <1>2, <1>3, <1>4, <1>5 DEF HeldProfiles

LEMMA HeldStep ==
  ASSUME Inv, [Next]_vars
  PROVE  Held'
<1>1. Grows
  BY GrowsStep
<1>2. SUFFICES HeldSession' /\ HeldCommands' /\ HeldProfiles'
  BY Zenon DEF Held, HeldSession, HeldCommands, HeldProfiles
<1>3. ASSUME UNCHANGED session
      PROVE  HeldSession'
  BY <1>1, <1>3, SessionStays
<1>4. ASSUME UNCHANGED cmd
      PROVE  HeldCommands'
  BY <1>1, <1>4, CommandsStay DEF Inv, Held
<1>5. ASSUME UNCHANGED <<profile, active>>
      PROVE  HeldProfiles'
  BY <1>1, <1>5, DiskStays
<1>6. CASE UNCHANGED <<session, cmd, profile, active>>
  BY <1>3, <1>4, <1>5, <1>6
<1>7. ASSUME NEW t \in Tasks, Sets(t, None)
      PROVE  HeldCommands'
  BY <1>1, <1>7, CommandsStay DEF Sets
<1>8. ASSUME NEW t \in Tasks, NEW pc \in {"clear", "drop"}, GoesTo(t, pc)
      PROVE  HeldCommands'
  <2>1. PICK c : Sets(t, c) /\ c.pc = pc
    BY <1>8 DEF GoesTo
  <2>2. QED
    BY <1>1, <2>1, CommandsStay DEF Sets
<1>9. ASSUME NEW t \in Tasks, TaskStep(t)
      PROVE  HeldSession' /\ HeldCommands' /\ HeldProfiles'
  <2>1. CASE RefreshAnswered(t)
    <3>1. /\ UNCHANGED <<server, profile, active>>
          /\ session'.tok = answer[t].tok /\ session'.dev = answer[t].dev
          /\ Sets(t, None) \/ \E c : Sets(t, c) /\ c.dev = answer[t].dev
      BY <2>1, RefreshAnsweredDoes
    <3>2. Grants(answer[t]) /\ Opened(answer[t].dev)
      BY <2>1, RefreshAnsweredDoes DEF Inv, Granted
    <3>3. HeldSession'
      BY <3>1, <3>2 DEF HeldSession, Grants, Opened, server
    <3>4. HeldCommands'
      <4>1. CASE Sets(t, None)
        BY <1>7, <4>1
      <4>2. CASE \E c : Sets(t, c) /\ c.dev = answer[t].dev
        BY <1>1, <3>2, <4>2, CommandsStay DEF Sets, Opened
      <4>3. QED
        BY <3>1, <4>1, <4>2
    <3>5. QED
      BY <1>5, <3>1, <3>3, <3>4
  <2>2. CASE AnswerFails(t)
    <3>1. UNCHANGED <<session, profile, active>> /\ FailsTo(t)
      BY <2>2, AnswerFailsDoes DEF memory, disk
    <3>2. QED
      BY <1>3, <1>5, <1>7, <1>8, <3>1 DEF FailsTo
  <2>3. CASE Listed(t) \/ Pushed(t) \/ Pulled(t) \/ LoggedOut(t)
    <3>1. /\ UNCHANGED <<session, profile, active>> /\ cmd[t] # None /\ cmd[t].pc = "request"
          /\ Sets(t, None) \/ GoesTo(t, "clear") \/ GoesTo(t, "cursor")
      BY <2>3, ServedDoes DEF memory
    <3>2. ASSUME GoesTo(t, "cursor")
          PROVE  HeldCommands'
      BY <1>1, <3>1, <3>2, CommandsStay DEF GoesTo, Sets
    <3>3. QED
      BY <1>3, <1>5, <1>7, <1>8, <3>1, <3>2
  <2>4. CASE SaveCursor(t) \/ ClearRefresh(t) \/ DropSession(t) \/ LocalFails(t)
    <3>1. /\ UNCHANGED <<server, active>>
          /\ Sets(t, None) \/ GoesTo(t, "drop")
      BY <2>4, LocalDoes
    <3>2. \/ session' = None
          \/ UNCHANGED session
          \/ session # None /\ session'.tok = session.tok /\ session'.dev = session.dev
      BY <2>4, LocalDoes
    <3>3. HeldSession'
      BY <1>1, <1>3, <3>2, SessionStays
    <3>4. \/ UNCHANGED profile
          \/ active # None /\ \E p \in Profile :
               /\ Profiled(active, p) /\ p.dev = profile[active].dev
               /\ p.cipher \in {None, profile[active].cipher}
      BY <2>4, LocalDoes
    <3>5. ASSUME active # None, NEW p \in Profile,
                 Profiled(active, p), p.dev = profile[active].dev,
                 p.cipher \in {None, profile[active].cipher}
          PROVE  HeldProfiles'
      <4>1. active \in Accounts /\ profile[active] # None /\ ProfileOf(active)
        BY <3>5, ActiveFacts DEF Inv, Held
      <4>2. QED
        BY <3>1, <3>5, <4>1, DiskWritten DEF ProfileOf
    <3>6. QED
      BY <1>5, <1>7, <1>8, <3>1, <3>3, <3>4, <3>5
  <2>5. QED
    BY <1>9, <2>1, <2>2, <2>3, <2>4 DEF TaskStep
<1>10. CASE AuthStep
  <2>1. UNCHANGED cmd
    BY <1>10, DesktopSteps
  <2>2. CASE AuthTokens \/ AuthVault \/ AuthFails \/ AuthDone \/ LoginFails
    <3>1. UNCHANGED <<session, profile, active>>
      BY <2>2, AuthTokensDoes, AuthVaultDoes, AuthFailsDoes, AuthEndDoes DEF memory, disk
    <3>2. QED
      BY <1>6, <2>1, <3>1
  <2>3. CASE Activate
    <3>1. PICK x \in Profile :
            /\ Profiled(auth.acc, x) /\ x.dev = auth.dev
            /\ profile[auth.acc] = None => x.cipher = None
            /\ profile[auth.acc] # None => x.cipher = profile[auth.acc].cipher
      BY <2>3, ActivateDoes
    <3>2. UNCHANGED <<server, session>> /\ active' = auth.acc
      BY <2>3, ActivateDoes DEF memory
    <3>3. auth # None /\ auth.acc \in Accounts /\ auth.pc = "activate"
      BY <2>3, ActivateDoes, AuthFacts DEF Inv, Advances
    <3>4. vault[auth.acc] # None /\ Grants(auth) /\ device[auth.dev].acc = auth.acc
      BY <3>3 DEF Inv, LoggingIn
    <3>5. auth.dev \in DOMAIN device /\ ProfileOf(auth.acc)
      BY <3>3, <3>4, IssuedHolds DEF Grants, Issued, Inv, Held
    <3>6. HeldProfiles'
      BY <3>1, <3>2, <3>3, <3>4, <3>5, DiskWritten DEF ProfileOf
    <3>7. QED
      BY <1>3, <1>4, <2>1, <3>2, <3>6
  <2>4. CASE PersistRefresh
    <3>1. PICK x \in Profile :
            /\ Profiled(auth.acc, x) /\ x.dev = profile[auth.acc].dev /\ x.cipher = auth.tok
      BY <2>4, PersistDoes
    <3>2. UNCHANGED <<server, session, active>> /\ auth.pc = "persist" /\ auth # None
      BY <2>4, PersistDoes DEF memory, Advances
    <3>3. auth.acc \in Accounts /\ active = auth.acc /\ Grants(auth)
          /\ device[auth.dev].acc = auth.acc /\ active # None
      BY <3>2, AuthFacts, NoneFacts DEF Inv, LoggingIn
    <3>4. profile[active] # None /\ ProfileOf(active)
      BY <3>3 DEF Inv, Held
    <3>5. HeldProfiles'
      BY <3>1, <3>2, <3>3, <3>4, DiskWritten DEF ProfileOf, Grants
    <3>6. QED
      BY <1>3, <1>4, <2>1, <3>2, <3>5
  <2>5. CASE OpenSession
    <3>1. /\ UNCHANGED <<server, profile, active>> /\ auth.pc = "session" /\ auth # None
          /\ session'.tok = auth.tok /\ session'.dev = auth.dev
      BY <2>5, OpenSessionDoes DEF disk, Advances
    <3>2. vault[auth.acc] # None /\ Grants(auth) /\ device[auth.dev].acc = auth.acc
      BY <3>1 DEF Inv, LoggingIn
    <3>3. HeldSession'
      BY <3>1, <3>2, IssuedHolds DEF HeldSession, Opened, Grants, Issued, server
    <3>4. QED
      BY <1>4, <1>5, <2>1, <3>1, <3>3
  <2>6. QED
    BY <1>10, <2>2, <2>3, <2>4, <2>5 DEF AuthStep
<1>11. CASE Restart
  <2>1. HeldSession'
    <3>1. CASE session' = None
      BY <3>1 DEF HeldSession
    <3>2. CASE session' # None
      <4>1. /\ active # None /\ profile[active].cipher # None /\ UNCHANGED server
            /\ session'.tok = profile[active].cipher /\ session'.dev = profile[active].dev
        BY <1>11, <3>2, RestartDoes
      <4>2. ProfileOf(active) /\ profile[active] # None
        BY <4>1, ActiveFacts DEF Inv, Held
      <4>3. QED
        BY <4>1, <4>2, IssuedHolds DEF HeldSession, ProfileOf, Opened, Issued, server
    <3>3. QED
      BY <3>1, <3>2
  <2>2. HeldCommands'
    BY <1>11, RestartDoes DEF HeldCommands
  <2>3. QED
    BY <1>5, <1>11, <2>1, <2>2, RestartDoes DEF disk
<1>12. ASSUME NEW r \in requests, Handler(r)
      PROVE  UNCHANGED <<session, cmd, profile, active>>
  BY <1>12, HandlerMoves DEF Ours
<1>13. ASSUME NEW a \in Accounts, OtherDesktop(a)
      PROVE  UNCHANGED <<session, cmd, profile, active>>
  BY <1>13, OtherDoes DEF Ours
<1>14. ASSUME NEW t \in Tasks, NEW kind \in Commands, Start(t, kind)
      PROVE  HeldSession' /\ HeldCommands' /\ HeldProfiles'
  <2>1. UNCHANGED <<session, profile, active>> /\ \E c : Sets(t, c) /\ c.pc = "refresh"
    BY <1>14, StartDoes DEF memory, disk
  <2>2. HeldCommands'
    BY <1>1, <2>1, CommandsStay DEF Sets
  <2>3. QED
    BY <1>3, <1>5, <2>1, <2>2
<1>15. ASSUME NEW a \in Accounts, NEW reg \in BOOLEAN, AuthStart(a, reg)
      PROVE  UNCHANGED <<session, cmd, profile, active>>
  BY <1>15, AuthStartDoes DEF memory, disk
<1>16. ASSUME NEW c \in Callers, GiveUp(c)
      PROVE  HeldSession' /\ HeldCommands' /\ HeldProfiles'
  <2>1. UNCHANGED <<session, profile, active>>
        /\ (UNCHANGED cmd \/ (c \in Tasks /\ FailsTo(c)))
    BY <1>16, GiveUpDoes DEF memory, disk
  <2>2. QED
    BY <1>3, <1>4, <1>5, <1>7, <1>8, <2>1 DEF FailsTo
<1>17. CASE Enqueue \/ UNCHANGED vars
  BY <1>6, <1>17, Zenon DEF Enqueue, vars, tasks, memory, disk
<1>18. QED
  BY <1>6, <1>9, <1>10, <1>11, <1>12, <1>13, <1>14, <1>15, <1>16, <1>17 DEF Next

-----------------------------------------------------------------------------
(* A login goes on without a session.                                      *)
LEMMA LoginStays ==
  ASSUME Inv, Grows,
         \/ auth' = None
         \/ /\ auth' = auth /\ active' = active
            /\ session = None => session' = None
  PROVE  LoggingIn'
<1>1. SUFFICES ASSUME auth # None, auth' = auth, active' = active, session = None => session' = None
               PROVE  LoggingIn'
  BY DEF LoggingIn
<1>2. PICK a : a = auth
  OBVIOUS
<1>3. LoggingIn /\ a.acc \in Accounts
  BY <1>1, <1>2, AuthFacts DEF Inv
<1>4. ASSUME a.pc # "tokens"
      PROVE  /\ a.tok \in DOMAIN token' /\ token'[a.tok].dev = a.dev
             /\ device'[a.dev].acc = a.acc
  <2>1. Grants(a) /\ device[a.dev].acc = a.acc
    BY <1>1, <1>2, <1>3, <1>4 DEF LoggingIn
  <2>2. QED
    BY <2>1, GrantsStays
<1>5. a.pc \notin {"tokens", "vault"} => a.key \in Accounts /\ vault'[a.acc] # None
  BY <1>1, <1>2, <1>3 DEF LoggingIn, Grows
<1>6. /\ a.pc # "file" => session' = None
      /\ a.pc \in {"persist", "session", "file"} => active' = a.acc
  BY <1>1, <1>2, <1>3 DEF LoggingIn
<1>7. auth' = a
  BY <1>1, <1>2
<1>8. QED
  BY <1>4, <1>5, <1>6, <1>7 DEF LoggingIn, Grants

LEMMA LoggingInStep ==
  ASSUME Inv, [Next]_vars
  PROVE  LoggingIn'
<1>1. Grows
  BY GrowsStep
<1>2. CASE UNCHANGED <<session, active, auth>>
  BY <1>1, <1>2, LoginStays
<1>3. ASSUME NEW t \in Tasks, TaskStep(t)
      PROVE  LoggingIn'
  <2>1. UNCHANGED auth
    BY <1>3, DesktopSteps
  <2>2. CASE RefreshAnswered(t)
    BY <1>1, <2>1, <2>2, RefreshAnsweredDoes, LoginStays
  <2>3. CASE AnswerFails(t) \/ Listed(t) \/ Pushed(t) \/ Pulled(t) \/ LoggedOut(t)
    BY <1>2, <2>1, <2>3, AnswerFailsDoes, ServedDoes DEF memory, disk
  <2>4. CASE SaveCursor(t) \/ ClearRefresh(t) \/ DropSession(t) \/ LocalFails(t)
    <3>1. UNCHANGED active
      BY <2>4, LocalDoes
    <3>2. session = None => session' = None
      BY <2>4, LocalDoes
    <3>3. QED
      BY <1>1, <2>1, <3>1, <3>2, LoginStays
  <2>5. QED
    BY <1>3, <2>2, <2>3, <2>4 DEF TaskStep
<1>4. CASE AuthTokens
  <2>1. PICK p : Advances(p, "vault") /\ p.tok = answer[Auth].tok /\ p.dev = answer[Auth].dev
    BY <1>4, AuthTokensDoes
  <2>2. /\ UNCHANGED <<server, session>> /\ auth # None /\ auth.pc = "tokens"
        /\ Grants(answer[Auth]) /\ device[answer[Auth].dev].acc = auth.acc
    BY <1>4, <2>1, AuthTokensDoes DEF Inv, Granted, memory, Advances
  <2>3. session = None
    BY <2>2 DEF Inv, LoggingIn
  <2>4. QED
    BY <2>1, <2>2, <2>3 DEF LoggingIn, Grants, Advances, server
<1>5. CASE AuthVault
  <2>1. PICK p : Advances(p, "activate") /\ p.tok = auth.tok /\ p.dev = auth.dev /\ p.key \in Accounts
    BY <1>5, AuthVaultDoes
  <2>2. /\ UNCHANGED <<server, session>> /\ auth # None /\ auth.pc = "vault"
        /\ vault[auth.acc] # None
    BY <1>5, <2>1, AuthVaultDoes DEF Inv, Granted, memory, Advances
  <2>3. session = None /\ Grants(auth) /\ device[auth.dev].acc = auth.acc
    BY <2>2 DEF Inv, LoggingIn
  <2>4. QED
    BY <2>1, <2>2, <2>3 DEF LoggingIn, Grants, Advances, server
<1>6. ASSUME UNCHANGED server, NEW p, NEW pc \in {"persist", "session", "file"}, Advances(p, pc),
             Keeps(p), active' = auth.acc, auth.pc \notin {"tokens", "vault"},
             pc # "file" => session' = None
      PROVE  LoggingIn'
  <2>1. /\ Grants(auth) /\ device[auth.dev].acc = auth.acc
        /\ auth.key \in Accounts /\ vault[auth.acc] # None
    BY <1>6 DEF Inv, LoggingIn, Advances
  <2>2. QED
    BY <1>6, <2>1 DEF LoggingIn, Grants, Advances, Keeps, server
<1>7. CASE Activate
  <2>1. /\ UNCHANGED <<server, session>> /\ active' = auth.acc /\ auth.pc = "activate" /\ auth # None
        /\ \E p : Advances(p, "persist") /\ Keeps(p)
    BY <1>7, ActivateDoes DEF memory, Advances
  <2>2. session = None
    BY <2>1 DEF Inv, LoggingIn
  <2>3. QED
    BY <1>6, <2>1, <2>2
<1>8. CASE PersistRefresh
  <2>1. /\ UNCHANGED <<server, session, active>> /\ auth.pc = "persist" /\ auth # None
        /\ \E p : Advances(p, "session") /\ Keeps(p)
    BY <1>8, PersistDoes DEF memory, Advances
  <2>2. session = None /\ active = auth.acc
    BY <2>1 DEF Inv, LoggingIn
  <2>3. QED
    BY <1>6, <2>1, <2>2
<1>9. CASE OpenSession
  <2>1. /\ UNCHANGED <<server, active>> /\ auth.pc = "session" /\ auth # None
        /\ \E p : Advances(p, "file") /\ Keeps(p)
    BY <1>9, OpenSessionDoes DEF disk, Advances
  <2>2. active = auth.acc
    BY <2>1 DEF Inv, LoggingIn
  <2>3. QED
    BY <1>6, <2>1, <2>2
<1>10. CASE AuthFails \/ AuthDone \/ LoginFails
  BY <1>1, <1>10, AuthFailsDoes, AuthEndDoes, LoginStays
<1>11. ASSUME NEW a \in Accounts, NEW reg \in BOOLEAN, AuthStart(a, reg)
      PROVE  LoggingIn'
  BY <1>11, AuthStartDoes DEF LoggingIn, Begins, memory
<1>12. ASSUME NEW c \in Callers, GiveUp(c)
      PROVE  LoggingIn'
  BY <1>1, <1>12, GiveUpDoes, LoginStays DEF memory, disk
<1>13. CASE Restart
  BY <1>1, <1>13, RestartDoes, LoginStays
<1>14. ASSUME NEW r \in requests, Handler(r)
      PROVE  LoggingIn'
  BY <1>2, <1>14, HandlerMoves DEF Ours
<1>15. ASSUME NEW a \in Accounts, OtherDesktop(a)
      PROVE  LoggingIn'
  BY <1>2, <1>15, OtherDoes DEF Ours
<1>16. ASSUME NEW t \in Tasks, NEW kind \in Commands, Start(t, kind)
      PROVE  LoggingIn'
  BY <1>2, <1>16, StartDoes DEF memory, disk
<1>17. CASE Enqueue \/ UNCHANGED vars
  BY <1>2, <1>17, Zenon DEF Enqueue, vars, tasks, memory, disk
<1>18. QED
  BY <1>3, <1>4, <1>5, <1>7, <1>8, <1>9, <1>10, <1>11, <1>12, <1>13, <1>14, <1>15, <1>16, <1>17
     DEF Next, AuthStep

-----------------------------------------------------------------------------
(* The first vault of an account.                                          *)
LEMMA VaultsStay ==
  ASSUME Inv, UNCHANGED <<password, vault>>,
         \A q \in requests' : Founds(q) => q \in requests,
         Founding' => Founding /\ auth' = auth
  PROVE  Vaults'
<1>1. Vaults
  BY DEF Inv
<1>2. QED
  BY <1>1 DEF Vaults, First, Founds

(* A vault that exists, or the one that is put, follows the password.      *)
LEMMA VaultsWritten ==
  ASSUME Inv, NEW b \in Accounts, NEW v \in Vault, NEW n \in Passwords,
         v.pw = n, vault' = [vault EXCEPT ![b] = v],
         \A a \in Accounts : password'[a] = IF a = b THEN n ELSE password[a],
         \A q \in requests' : Founds(q) => q \in requests /\ q.acc # b,
         Founding' => Founding /\ auth' = auth /\ auth.acc # b
  PROVE  Vaults'
<1>1. Vaults
  BY DEF Inv
<1>2. \A a \in Accounts : vault'[a] = IF a = b THEN v ELSE vault[a]
  BY VaultPut
<1>3. n # None
  BY NoneFacts
<1>4. \A a \in Accounts : vault'[a] # None => password'[a] # None /\ vault'[a].pw = password'[a]
  BY <1>1, <1>2, <1>3 DEF Vaults
<1>5. \A r \in requests' : Founds(r) => First(r.acc, r.pw)'
  BY <1>1, <1>2, RequestFacts DEF Vaults, First, Inv
<1>6. Founding' => First(auth.acc, auth.pw)'
  <2>1. Founding => auth.acc \in Accounts
    BY AuthFacts DEF Inv, Founding
  <2>2. QED
    BY <1>1, <1>2, <2>1 DEF Vaults, First
<1>7. QED
  BY <1>1, <1>4, <1>5, <1>6 DEF Vaults, Founds

LEMMA VaultsHandler ==
  ASSUME Inv, NEW r \in requests, Handler(r)
  PROVE  Vaults'
<1>1. /\ Vaults /\ r.acc \in Accounts /\ r.pw \in Passwords /\ UNCHANGED auth
      /\ Auth \in Callers
  BY RequestFacts, HandlerMoves, NoneFacts DEF Inv, Ours
<1>2. ASSUME NEW q, MovesOn(r, q), r.kind \in TwoSteps \cup {"login", "refresh"}
      PROVE  (\A s \in requests' : Founds(s) => s \in requests) /\ (Founding' => Founding)
  BY <1>1, <1>2 DEF MovesOn, SameButStep, Founds, At, TwoSteps, Founding
<1>3. ASSUME NEW a, Replies(r, a), a.ok => r.kind # "register"
      PROVE  (\A s \in requests' : Founds(s) => s \in requests /\ s # r) /\ (Founding' => Founding)
  <2>1. \A s \in requests' : s \in requests /\ s # r
    BY <1>3 DEF Replies
  <2>2. CASE r.by = Auth
    <3>1. auth # None /\ LoginAsks(r) /\ answer'[Auth] = a
      BY <1>1, <1>3, <2>2 DEF Inv, Calls, Replies
    <3>2. QED
      BY <1>1, <1>3, <2>1, <3>1 DEF Founding, LoginAsks
  <2>3. CASE r.by # Auth
    BY <1>1, <1>3, <2>1, <2>3 DEF Founding, Replies
  <2>4. QED
    BY <2>2, <2>3
<1>4. CASE LoginVerify(r) \/ RefreshSelect(r) \/ Authorize(r) \/ PasswordVerify(r)
  BY <1>1, <1>2, <1>4, CheckDoes, VaultsStay DEF server
<1>5. CASE RefreshRotate(r) \/ RevokeDevice(r)
  BY <1>1, <1>2, <1>5, RotateDoes, RevokeDoes, VaultsStay DEF TwoSteps
<1>6. CASE GetVault(r) \/ ServeRecords(r) \/ Refuse(r)
  <2>1. PICK a : Replies(r, a) /\ (a.ok => r.kind # "register")
    BY <1>6, LookupDoes
  <2>2. QED
    BY <1>1, <1>3, <1>6, <2>1, LookupDoes, VaultsStay DEF server
<1>7. CASE RefreshIssue(r) \/ Logout(r) \/ RevokeTokens(r)
  <2>1. PICK a : Replies(r, a)
    BY <1>7, ReissueDoes, LogoutDoes, RevokeTokensDoes
  <2>2. r.kind # "register" /\ UNCHANGED <<password, vault>>
    BY <1>7, ReissueDoes, LogoutDoes, RevokeTokensDoes
  <2>3. QED
    BY <1>1, <1>3, <2>1, <2>2, VaultsStay
<1>8. CASE RegisterUser(r)
  <2>1. PICK q : MovesOn(r, q) /\ q.step = "verified"
    BY <1>8, RegisterDoes
  <2>2. /\ UNCHANGED <<vault, answer>> /\ r.kind = "register" /\ password[r.acc] = None
        /\ password' = [password EXCEPT ![r.acc] = r.pw]
    BY <1>8, <2>1, RegisterDoes DEF MovesOn
  <2>3. \A a \in Accounts : password'[a] = IF a = r.acc THEN r.pw ELSE password[a]
    BY <1>1, <2>2 DEF Inv, TypeOK
  <2>4. /\ q.kind = "register" /\ q.acc = r.acc /\ q.pw = r.pw
        /\ \A s \in requests' : s = q \/ s \in requests
    BY <2>1, <2>2 DEF MovesOn, SameButStep
  <2>5. vault[r.acc] = None
    BY <1>1, <2>2 DEF Vaults
  <2>6. \A s \in requests : Founds(s) => s.acc # r.acc
    BY <1>1, <2>2, RequestFacts, NoneFacts DEF Vaults, First, Inv
  <2>7. Founding => auth.acc # r.acc /\ auth.acc \in Accounts
    BY <1>1, <2>2, AuthFacts, NoneFacts DEF Vaults, First, Inv, Founding
  <2>8. Founding' => Founding
    BY <1>1, <2>2 DEF Founding
  <2>9. \A a \in Accounts : vault'[a] # None => password'[a] # None /\ vault'[a].pw = password'[a]
    BY <1>1, <2>2, <2>3, <2>5 DEF Vaults
  <2>10. \A s \in requests' : Founds(s) => First(s.acc, s.pw)'
    BY <1>1, <2>2, <2>3, <2>4, <2>5, <2>6, RequestFacts DEF Vaults, First, Inv
  <2>11. \A s, u \in requests' : Founds(s) /\ Founds(u) /\ s.acc = u.acc => s = u
    BY <1>1, <2>4, <2>6 DEF Vaults
  <2>12. Founding' => First(auth.acc, auth.pw)'
    BY <1>1, <2>2, <2>3, <2>7, <2>8 DEF Vaults, First
  <2>13. Founding' => \A s \in requests' : Founds(s) => s.acc # auth.acc
    BY <1>1, <2>4, <2>7, <2>8 DEF Vaults
  <2>14. \A s \in requests' : s.kind = "put_vault" => s.key = s.acc
    BY <1>1, <2>4 DEF Vaults
  <2>15. QED
    BY <1>1, <2>9, <2>10, <2>11, <2>12, <2>13, <2>14 DEF Vaults
<1>9. CASE IssueTokens(r)
  <2>1. PICK a : Replies(r, a)
    BY <1>9, IssueDoes, Zenon
  <2>2. UNCHANGED <<password, vault>> /\ r.step = "verified"
    BY <1>9, IssueDoes, Zenon
  <2>3. CASE r.kind # "register"
    BY <1>1, <1>3, <2>1, <2>2, <2>3, VaultsStay
  <2>4. CASE r.kind = "register" /\ r.by # Auth
    <3>1. answer'[Auth] = answer[Auth] /\ requests' \subseteq requests
      BY <1>1, <2>1, <2>4 DEF Replies
    <3>2. Founding' => Founding
      BY <1>1, <3>1 DEF Founding
    <3>3. QED
      BY <1>1, <2>2, <3>1, <3>2, VaultsStay
  <2>5. CASE r.kind = "register" /\ r.by = Auth
    <3>1. auth # None /\ LoginAsks(r) /\ Founds(r)
      BY <2>2, <2>5 DEF Inv, Calls, Founds, At
    <3>2. r.acc = auth.acc /\ r.pw = auth.pw
      BY <3>1 DEF LoginAsks
    <3>3. First(auth.acc, auth.pw)'
      BY <1>1, <2>2, <3>1, <3>2 DEF Vaults, First
    <3>4. \A s \in requests' : s \in requests /\ s # r
      BY <2>1 DEF Replies
    <3>5. \A s \in requests' : Founds(s) => s.acc # auth.acc
      BY <1>1, <3>1, <3>2, <3>4 DEF Vaults
    <3>6. QED
      BY <1>1, <2>2, <3>3, <3>4, <3>5 DEF Vaults, First
  <2>6. QED
    BY <2>3, <2>4, <2>5
<1>10. CASE ChangePassword(r)
  <2>1. PICK a : Replies(r, a)
    BY <1>10, ChangeDoes, Zenon
  <2>2. /\ r.kind = "password" /\ password[r.acc] + 1 \in Passwords
        /\ password' = [password EXCEPT ![r.acc] = password[r.acc] + 1]
    BY <1>10, ChangeDoes, Zenon
  <2>3. PICK v \in Vault : vault' = [vault EXCEPT ![r.acc] = v] /\ v.pw = password[r.acc] + 1
    BY <1>10, ChangeDoes, Zenon
  <2>4. \A b \in Accounts : password'[b] = IF b = r.acc THEN password[r.acc] + 1 ELSE password[b]
    BY <1>1, <2>2 DEF Inv, TypeOK
  <2>5. (\A s \in requests' : Founds(s) => s \in requests /\ s # r) /\ (Founding' => Founding)
    BY <1>3, <2>1, <2>2
  <2>6. vault[r.acc] # None
    BY <2>2 DEF Inv, Addressed, Names, Kinds
  <2>7. \A s \in requests' : Founds(s) => s \in requests /\ s.acc # r.acc
    BY <1>1, <2>5, <2>6 DEF Vaults, First
  <2>8. Founding' => Founding /\ auth' = auth /\ auth.acc # r.acc
    BY <1>1, <2>5, <2>6 DEF Vaults, First
  <2>9. QED
    BY <1>1, <2>2, <2>3, <2>4, <2>7, <2>8, VaultsWritten, Zenon
<1>11. CASE PutVault(r)
  <2>1. PICK a : Replies(r, a)
    BY <1>11, PutDoes, Zenon
  <2>2. r.kind = "put_vault" /\ UNCHANGED password /\ Founds(r)
    BY <1>11, PutDoes, Zenon DEF Founds
  <2>3. PICK v \in Vault : vault' = [vault EXCEPT ![r.acc] = v] /\ v.pw = r.pw
    BY <1>11, PutDoes, Zenon
  <2>4. password[r.acc] = r.pw
    BY <1>1, <2>2 DEF Vaults, First
  <2>5. (\A s \in requests' : Founds(s) => s \in requests /\ s # r) /\ (Founding' => Founding)
    BY <1>3, <2>1, <2>2
  <2>6. \A s \in requests' : Founds(s) => s \in requests /\ s.acc # r.acc
    BY <1>1, <2>2, <2>5 DEF Vaults
  <2>7. Founding' => Founding /\ auth' = auth /\ auth.acc # r.acc
    BY <1>1, <2>2, <2>5 DEF Vaults
  <2>8. \A b \in Accounts : password'[b] = IF b = r.acc THEN r.pw ELSE password[b]
    BY <2>2, <2>4
  <2>9. QED
    BY <1>1, <2>3, <2>6, <2>7, <2>8, VaultsWritten, Zenon
<1>12. QED
  BY <1>4, <1>5, <1>6, <1>7, <1>8, <1>9, <1>10, <1>11 DEF Handler

LEMMA VaultsOther ==
  ASSUME Inv, NEW b \in Accounts, OtherDesktop(b)
  PROVE  Vaults'
<1>1. Vaults /\ vault[b] # None /\ UNCHANGED <<requests, answer, auth>>
  BY OtherDoes DEF Inv, Ours
<1>2. Founding' => Founding
  BY <1>1 DEF Founding
<1>3. CASE UNCHANGED <<password, vault>>
  BY <1>1, <1>2, <1>3, VaultsStay
<1>4. ASSUME NEW v \in Vault, vault' = [vault EXCEPT ![b] = v], v.pw = password[b] + 1,
             password[b] + 1 \in Passwords, password' = [password EXCEPT ![b] = password[b] + 1]
      PROVE  Vaults'
  <2>1. \A a \in Accounts : password'[a] = IF a = b THEN password[b] + 1 ELSE password[a]
    BY <1>4 DEF Inv, TypeOK
  <2>2. \A q \in requests' : Founds(q) => q \in requests /\ q.acc # b
    BY <1>1 DEF Vaults, First
  <2>3. Founding' => Founding /\ auth' = auth /\ auth.acc # b
    BY <1>1, <1>2 DEF Vaults, First
  <2>4. QED
    BY <1>4, <2>1, <2>2, <2>3, VaultsWritten, Zenon
<1>5. QED
  BY <1>3, <1>4, OtherDoes

LEMMA VaultsOrphans ==
  ASSUME Inv, UNCHANGED server, NEW callers, Orphans(callers), Auth \in Callers,
         Auth \in callers => auth' = None, Auth \notin callers => UNCHANGED auth
  PROVE  Vaults'
<1>1. Vaults
  BY DEF Inv
<1>2. Founding' => Founding /\ auth' = auth
  BY DEF Founding, Orphans
<1>3. \A q \in requests' : \E r \in requests :
        /\ q.kind = r.kind /\ q.step = r.step /\ q.acc = r.acc /\ q.pw = r.pw /\ q.key = r.key
        /\ \/ q = r /\ r.by \notin callers
           \/ q = Orphan(r) /\ r.by \in callers
  BY OrphanFacts, RequestFacts DEF Orphans, Inv
<1>4. \A q \in requests' : Founds(q) => First(q.acc, q.pw)'
  BY <1>1, <1>3 DEF Vaults, Founds, At, First, server
<1>5. \A q, p \in requests' : Founds(q) /\ Founds(p) /\ q.acc = p.acc => q = p
  BY <1>1, <1>3 DEF Vaults, Founds, At
<1>6. Founding' => \A q \in requests' : Founds(q) => q.acc # auth'.acc
  BY <1>1, <1>2, <1>3 DEF Vaults, Founds, At
<1>7. \A q \in requests' : q.kind = "put_vault" => q.key = q.acc
  BY <1>1, <1>3 DEF Vaults
<1>8. QED
  BY <1>1, <1>2, <1>4, <1>5, <1>6, <1>7 DEF Vaults, First, server

LEMMA VaultsStep ==
  ASSUME Inv, [Next]_vars
  PROVE  Vaults'
<1>1. Auth \in Callers /\ Auth \notin Tasks /\ Tasks \subseteq Callers
  BY NoneFacts
<1>2. ASSUME UNCHANGED server, requests' \subseteq requests, Founding' => Founding /\ auth' = auth
      PROVE  Vaults'
  BY <1>2, VaultsStay DEF server
<1>3. ASSUME UNCHANGED <<server, auth>>, NEW t \in Tasks, Takes(t) \/ UNCHANGED answer,
             UNCHANGED requests \/ \E q : Sends(t, q) /\ ~Founds(q)
      PROVE  Vaults'
  <2>1. answer'[Auth] = answer[Auth]
    BY <1>1, <1>3 DEF Takes
  <2>2. \A q \in requests' : Founds(q) => q \in requests
    BY <1>3 DEF Sends
  <2>3. Founding' => Founding /\ auth' = auth
    BY <1>3, <2>1 DEF Founding
  <2>4. QED
    BY <1>3, <2>2, <2>3, VaultsStay DEF server
<1>4. ASSUME NEW t \in Tasks, TaskStep(t)
      PROVE  Vaults'
  <2>1. CASE RefreshAnswered(t)
    <3>1. UNCHANGED requests \/ \E q : Sends(t, q) /\ ~Founds(q)
      <4>1. cmd[t].kind \in Kinds
        BY <2>1, RefreshAnsweredDoes, CommandFacts DEF Inv
      <4>2. UNCHANGED requests \/ \E q : Sends(t, q) /\ q.kind = cmd[t].kind
        BY <2>1, RefreshAnsweredDoes
      <4>3. QED
        BY <4>1, <4>2 DEF Founds, At, Kinds
    <3>2. QED
      BY <1>3, <2>1, <3>1, RefreshAnsweredDoes
  <2>2. CASE AnswerFails(t)
    BY <1>3, <2>2, AnswerFailsDoes
  <2>3. CASE Listed(t) \/ Pushed(t) \/ Pulled(t) \/ LoggedOut(t)
    BY <1>3, <2>3, ServedDoes
  <2>4. CASE SaveCursor(t) \/ ClearRefresh(t) \/ DropSession(t) \/ LocalFails(t)
    BY <1>3, <2>4, LocalDoes
  <2>5. QED
    BY <1>4, <2>1, <2>2, <2>3, <2>4 DEF TaskStep
<1>5. ASSUME NEW t \in Tasks, NEW kind \in Commands, Start(t, kind)
      PROVE  Vaults'
  <2>1. \E q : Sends(t, q) /\ ~Founds(q)
    BY <1>5, StartDoes DEF Founds, At
  <2>2. UNCHANGED <<server, auth, answer>>
    BY <1>5, StartDoes
  <2>3. QED
    BY <1>3, <2>1, <2>2
<1>6. ASSUME NEW a \in Accounts, NEW reg \in BOOLEAN, AuthStart(a, reg)
      PROVE  Vaults'
  <2>1. PICK q : Sends(Auth, q) /\ q.step = "arrived" /\ q.kind = (IF reg THEN "register" ELSE "login")
    BY <1>6, AuthStartDoes
  <2>2. UNCHANGED <<server, answer>> /\ answer[Auth] = None
    BY <1>6, AuthStartDoes, NoRequest
  <2>3. \A s \in requests' : Founds(s) => s \in requests
    BY <2>1 DEF Sends, Founds, At
  <2>4. QED
    BY <2>2, <2>3, VaultsStay DEF Founding, server
<1>7. CASE AuthTokens
  <2>1. PICK p, q : /\ Advances(p, "vault") /\ Sends(Auth, q) /\ q.acc = auth.acc
                    /\ q.pw = auth.pw /\ q.key = auth.acc
                    /\ q.kind = (IF auth.reg THEN "put_vault" ELSE "get_vault")
    BY <1>7, AuthTokensDoes
  <2>2. UNCHANGED server /\ auth.pc = "tokens" /\ answer[Auth] # None /\ answer[Auth].ok /\ auth # None
    BY <1>7, <2>1, AuthTokensDoes DEF Advances
  <2>3. ~Founding'
    BY <2>1 DEF Founding, Advances
  <2>4. \A s \in requests' : s = q \/ s \in requests
    BY <2>1 DEF Sends
  <2>5. Founds(q) => Founding
    BY <2>1, <2>2 DEF Founds, At, Founding
  <2>6. Vaults
    BY DEF Inv
  <2>7. \A s \in requests' : Founds(s) => First(s.acc, s.pw)'
    BY <2>1, <2>2, <2>4, <2>5, <2>6 DEF Vaults, First, server
  <2>8. \A s, u \in requests' : Founds(s) /\ Founds(u) /\ s.acc = u.acc => s = u
    BY <2>1, <2>4, <2>5, <2>6 DEF Vaults
  <2>9. \A s \in requests' : s.kind = "put_vault" => s.key = s.acc
    BY <2>1, <2>4, <2>6 DEF Vaults
  <2>10. QED
    BY <2>2, <2>3, <2>6, <2>7, <2>8, <2>9 DEF Vaults, server
<1>8. CASE AuthStep /\ ~AuthTokens
  <2>1. UNCHANGED <<server, requests>>
    BY <1>8, AuthVaultDoes, AuthFailsDoes, ActivateDoes, PersistDoes, OpenSessionDoes, AuthEndDoes
       DEF AuthStep
  <2>2. auth' = None \/ auth'.pc # "tokens"
    BY <1>8, AuthVaultDoes, AuthFailsDoes, ActivateDoes, PersistDoes, OpenSessionDoes, AuthEndDoes
       DEF AuthStep, Advances
  <2>3. QED
    BY <1>2, <2>1, <2>2 DEF Founding
<1>9. CASE Enqueue \/ UNCHANGED vars
  <2>1. UNCHANGED <<server, requests, answer, auth>>
    BY <1>9, Zenon DEF Enqueue, vars, tasks
  <2>2. QED
    BY <1>2, <2>1 DEF Founding
<1>10. ASSUME NEW c \in Callers, GiveUp(c)
      PROVE  Vaults'
  BY <1>1, <1>10, GiveUpDoes, VaultsOrphans
<1>11. CASE Restart
  BY <1>1, <1>11, RestartDoes, VaultsOrphans
<1>12. QED
  BY <1>4, <1>5, <1>6, <1>7, <1>8, <1>9, <1>10, <1>11, VaultsHandler, VaultsOther DEF Next

-----------------------------------------------------------------------------
LEMMA InvInit ==
  ASSUME Init
  PROVE  Inv
<1>1. MaxEnds \in Nat
  BY NoneFacts
<1>2. TypeOK
  <2>1. device \in Seq(Device) /\ token \in Seq(Token) /\ DOMAIN token = {}
    BY DEF Init
  <2>2. /\ password \in [Accounts -> Passwords \cup {None}]
        /\ vault \in [Accounts -> Vault \cup {None}]
        /\ answer \in [Callers -> Answer \cup {None}]
        /\ profile \in [Accounts -> Profile \cup {None}]
        /\ cmd \in [Tasks -> Command \cup {None}]
    BY DEF Init
  <2>3. /\ session = None /\ syncKey = None /\ active = None /\ keyFile = None /\ auth = None
        /\ outbox = {} /\ versions = {} /\ requests = {} /\ cut = {}
        /\ mixed = FALSE
    BY Zenon DEF Init
  <2>4. ends \in 0 .. MaxEnds
    BY <1>1 DEF Init
  <2>6. QED
    BY <2>1, <2>2, <2>3, <2>4 DEF TypeOK, Keys
<1>3. Auth \in Callers /\ Tasks \subseteq Callers
  BY NoneFacts
<1>4. Calls /\ Addressed /\ Granted
  BY <1>3 DEF Init, Calls, Addressed, Granted
<1>5. Held /\ LoggingIn /\ Vaults
  BY DEF Init, Held, LoggingIn, Vaults, ProfileOf, Founding
<1>6. QED
  BY <1>2, <1>4, <1>5 DEF Inv

LEMMA InvStep ==
  ASSUME Inv, [Next]_vars
  PROVE  Inv'
<1>1. /\ TypeOK' /\ Calls' /\ Addressed' /\ Granted' /\ Held' /\ LoggingIn' /\ Vaults'
  BY TypeStep, CallsStep, AddressedStep, GrantedStep, HeldStep, LoggingInStep, VaultsStep
<1>2. QED
  BY <1>1 DEF Inv

LEMMA InvHolds == Spec => []Inv
<1>1. Init => Inv
  BY InvInit
<1>2. Inv /\ [Next]_vars => Inv'
  BY InvStep
<1>3. QED
  BY <1>1, <1>2, PTL DEF Spec

(* Every variable holds a value of its type, and a token or a device that  *)
(* a token, a session or a request names was issued before: for any        *)
(* accounts, any commands that overlap, and every bound.                   *)
THEOREM TypeCorrect == Spec => []TypeOK
<1>1. Inv => TypeOK
  BY DEF Inv
<1>2. QED
  BY <1>1, InvHolds, PTL

-----------------------------------------------------------------------------
(* One account, as long as nothing outlived its login.  The envelope of an *)
(* account, the session, the login, every request and answer that will     *)
(* become part of the session, the key in the file and the refresh token   *)
(* on disk are that account's.                                             *)
Activated == auth # None /\ auth.pc = "persist" => profile[auth.acc].dev = auth.dev

KeyOf(a) == vault[a] # None => vault[a].key = a

SessionOf ==
  session # None =>
    /\ session.key = active /\ session.dev = token[session.tok].dev
    /\ device[session.dev].acc = session.key

LoginOf ==
  auth # None =>
    /\ auth.pc \notin {"tokens", "vault"} => auth.key = auth.acc
    /\ auth.pc = "vault" /\ ~auth.reg /\ answer[Auth] # None /\ answer[Auth].ok =>
         answer[Auth].keys \subseteq {auth.acc}

PasswordsOf == \A r \in requests : r.kind = "password" => r.key = r.acc

RefreshOf(t) ==
  cmd[t] # None /\ cmd[t].pc = "refresh" =>
    /\ \A r \in requests : r.by = t => device[r.dev].acc = cmd[t].acc
    /\ answer[t] # None /\ answer[t].ok => device[answer[t].dev].acc = cmd[t].acc

FileOf == Unfiled \/ keyFile = active

CipherOf(a) ==
  profile[a] # None /\ profile[a].cipher # None =>
    /\ a = active /\ token[profile[a].cipher].dev = profile[a].dev
    /\ session # None \/ (auth # None /\ auth.pc = "session")

Whole ==
  /\ \A a \in Accounts : KeyOf(a)
  /\ SessionOf /\ LoginOf /\ PasswordsOf
  /\ \A t \in Tasks : RefreshOf(t)
  /\ FileOf
  /\ \A a \in Accounts : CipherOf(a)

OneAccount == Inv /\ Activated /\ (~mixed => Whole)

LEMMA MixedStays ==
  ASSUME Inv, [Next]_vars, ~mixed'
  PROVE  ~mixed
<1>1. SUFFICES UNCHANGED mixed \/ \E x : mixed' = (mixed \/ x)
  OBVIOUS
<1>2. ASSUME NEW r \in requests, Handler(r)
      PROVE  UNCHANGED mixed
  BY <1>2, HandlerMoves DEF Ours
<1>3. ASSUME NEW a \in Accounts, OtherDesktop(a)
      PROVE  UNCHANGED mixed
  BY <1>3, OtherDoes DEF Ours
<1>4. ASSUME NEW t \in Tasks, TaskStep(t)
      PROVE  UNCHANGED mixed \/ \E x : mixed' = (mixed \/ x)
  <2>1. CASE RefreshAnswered(t)
    BY <2>1, RefreshAnsweredDoes, Zenon
  <2>2. CASE AnswerFails(t)
    BY <2>2, AnswerFailsDoes
  <2>3. CASE Listed(t) \/ Pushed(t) \/ Pulled(t) \/ LoggedOut(t)
    BY <2>3, ServedDoes, Zenon
  <2>4. CASE SaveCursor(t) \/ ClearRefresh(t) \/ DropSession(t) \/ LocalFails(t)
    BY <2>4, LocalDoes, Zenon
  <2>5. QED
    BY <1>4, <2>1, <2>2, <2>3, <2>4 DEF TaskStep
<1>5. CASE AuthStep
  <2>1. CASE AuthTokens \/ AuthVault \/ AuthFails \/ PersistRefresh \/ OpenSession
    BY <2>1, AuthTokensDoes, AuthVaultDoes, AuthFailsDoes, PersistDoes, OpenSessionDoes
  <2>2. CASE Activate
    BY <2>2, ActivateDoes, Zenon
  <2>3. CASE AuthDone \/ LoginFails
    BY <2>3, AuthEndDoes, Zenon
  <2>4. QED
    BY <1>5, <2>1, <2>2, <2>3 DEF AuthStep
<1>6. CASE Enqueue
  BY <1>6, Zenon DEF Enqueue
<1>7. CASE Restart
  BY <1>7, RestartDoes, Zenon
<1>8. ASSUME NEW t \in Tasks, NEW kind \in Commands, Start(t, kind)
      PROVE  UNCHANGED mixed
  BY <1>8, StartDoes
<1>9. ASSUME NEW a \in Accounts, NEW reg \in BOOLEAN, AuthStart(a, reg)
      PROVE  UNCHANGED mixed
  BY <1>9, AuthStartDoes
<1>10. ASSUME NEW c \in Callers, GiveUp(c)
      PROVE  UNCHANGED mixed
  BY <1>10, GiveUpDoes
<1>11. CASE UNCHANGED vars
  BY <1>11 DEF vars
<1>12. QED
  BY <1>2, <1>3, <1>4, <1>5, <1>6, <1>7, <1>8, <1>9, <1>10, <1>11 DEF Next

LEMMA ActivatedStep ==
  ASSUME OneAccount, [Next]_vars
  PROVE  Activated'
<1>1. Inv /\ Activated
  BY DEF OneAccount
<1>2. CASE auth' = None \/ auth'.pc # "persist"
  BY <1>2 DEF Activated
<1>3. CASE UNCHANGED <<auth, profile>>
  BY <1>1, <1>3 DEF Activated
<1>4. CASE Activate
  <2>1. \E p : Advances(p, "persist") /\ Keeps(p)
    BY <1>1, <1>4, ActivateDoes
  <2>2. \E x \in Profile : Profiled(auth.acc, x) /\ x.dev = auth.dev
    BY <1>1, <1>4, ActivateDoes
  <2>3. auth.acc \in Accounts
    BY <1>1, <2>1, AuthFacts DEF Inv, Advances
  <2>4. QED
    BY <2>1, <2>2, <2>3 DEF Activated, Advances, Keeps, Profiled
<1>5. ASSUME NEW t \in Tasks, SaveCursor(t) \/ ClearRefresh(t) \/ DropSession(t) \/ LocalFails(t)
      PROVE  Activated'
  <2>1. UNCHANGED auth
    BY <1>1, <1>5, LocalDoes
  <2>2. \/ UNCHANGED profile
        \/ active # None /\ \E p \in Profile : Profiled(active, p) /\ p.dev = profile[active].dev
    BY <1>1, <1>5, LocalDoes
  <2>3. CASE active # None /\ \E p \in Profile : Profiled(active, p) /\ p.dev = profile[active].dev
    <3>1. auth # None => auth.acc \in Accounts
      BY <1>1, AuthFacts DEF Inv
    <3>2. QED
      BY <1>1, <2>1, <2>3, <3>1 DEF Activated, Profiled
  <2>4. QED
    BY <1>3, <2>1, <2>2, <2>3
<1>6. ASSUME NEW t \in Tasks, TaskStep(t)
      PROVE  Activated'
  <2>1. CASE RefreshAnswered(t) \/ AnswerFails(t)
    BY <1>1, <1>3, <2>1, RefreshAnsweredDoes, AnswerFailsDoes DEF disk
  <2>2. CASE Listed(t) \/ Pushed(t) \/ Pulled(t) \/ LoggedOut(t)
    BY <1>1, <1>3, <2>2, ServedDoes
  <2>3. QED
    BY <1>5, <1>6, <2>1, <2>2 DEF TaskStep
<1>7. CASE AuthStep
  <2>1. CASE AuthTokens \/ AuthVault \/ PersistRefresh \/ OpenSession
    BY <1>1, <1>2, <2>1, AuthTokensDoes, AuthVaultDoes, PersistDoes, OpenSessionDoes DEF Advances
  <2>2. CASE AuthFails \/ AuthDone \/ LoginFails
    BY <1>1, <1>2, <2>2, AuthFailsDoes, AuthEndDoes
  <2>3. QED
    BY <1>4, <1>7, <2>1, <2>2 DEF AuthStep
<1>8. ASSUME NEW r \in requests, Handler(r)
      PROVE  Activated'
  BY <1>1, <1>3, <1>8, HandlerMoves DEF Ours
<1>9. ASSUME NEW a \in Accounts, OtherDesktop(a)
      PROVE  Activated'
  BY <1>1, <1>3, <1>9, OtherDoes DEF Ours
<1>10. ASSUME NEW t \in Tasks, NEW kind \in Commands, Start(t, kind)
      PROVE  Activated'
  BY <1>1, <1>3, <1>10, StartDoes DEF disk
<1>11. ASSUME NEW a \in Accounts, NEW reg \in BOOLEAN, AuthStart(a, reg)
      PROVE  Activated'
  BY <1>1, <1>2, <1>11, AuthStartDoes DEF Begins
<1>12. ASSUME NEW c \in Callers, GiveUp(c)
      PROVE  Activated'
  BY <1>1, <1>2, <1>3, <1>12, GiveUpDoes DEF disk
<1>13. CASE Restart
  BY <1>1, <1>2, <1>13, RestartDoes
<1>14. CASE Enqueue \/ UNCHANGED vars
  BY <1>3, <1>14, Zenon DEF Enqueue, vars, tasks, disk
<1>15. QED
  BY <1>6, <1>7, <1>8, <1>9, <1>10, <1>11, <1>12, <1>13, <1>14 DEF Next

(* An envelope is put under the key of its account.                        *)
LEMMA KeyStep ==
  ASSUME Inv, Whole, [Next]_vars
  PROVE  \A a \in Accounts : KeyOf(a)'
<1>1. \A a \in Accounts : KeyOf(a)
  BY DEF Whole
<1>2. CASE UNCHANGED vault
  BY <1>1, <1>2 DEF KeyOf
<1>3. ASSUME NEW b \in Accounts, NEW v \in Vault, vault' = [vault EXCEPT ![b] = v], v.key = b
      PROVE  \A a \in Accounts : KeyOf(a)'
  <2>1. \A a \in Accounts : vault'[a] = IF a = b THEN v ELSE vault[a]
    BY <1>3, VaultPut
  <2>2. QED
    BY <1>1, <1>3, <2>1 DEF KeyOf
<1>4. ASSUME NEW r \in requests, Handler(r)
      PROVE  \A a \in Accounts : KeyOf(a)'
  <2>1. r.acc \in Accounts
    BY RequestFacts DEF Inv
  <2>2. CASE ChangePassword(r)
    <3>1. r.key = r.acc
      BY <2>2, ChangeDoes DEF Whole, PasswordsOf
    <3>2. PICK v \in Vault : vault' = [vault EXCEPT ![r.acc] = v] /\ v.key = r.key
      BY <2>2, ChangeDoes, Zenon
    <3>3. QED
      BY <1>3, <2>1, <3>1, <3>2, Zenon
  <2>3. CASE PutVault(r)
    <3>1. PICK v \in Vault : vault' = [vault EXCEPT ![r.acc] = v] /\ v.key = r.acc
      BY <2>3, PutDoes, Zenon
    <3>2. QED
      BY <1>3, <2>1, <3>1, Zenon
  <2>4. CASE ~ChangePassword(r) /\ ~PutVault(r)
    <3>1. UNCHANGED vault
      BY <1>4, <2>4, CheckDoes, LookupDoes, RegisterDoes, IssueDoes, RotateDoes, ReissueDoes,
         LogoutDoes, RevokeDoes, RevokeTokensDoes, Zenon DEF Handler, server
    <3>2. QED
      BY <1>2, <3>1
  <2>5. QED
    BY <2>2, <2>3, <2>4
<1>5. ASSUME NEW b \in Accounts, OtherDesktop(b)
      PROVE  \A a \in Accounts : KeyOf(a)'
  <2>1. vault[b].key = b
    BY <1>1, <1>5, OtherDoes DEF KeyOf
  <2>2. \/ UNCHANGED vault
        \/ \E v \in Vault : vault' = [vault EXCEPT ![b] = v] /\ v.key = vault[b].key
    BY <1>5, OtherDoes, Zenon
  <2>3. QED
    BY <1>2, <1>3, <2>1, <2>2
<1>6. CASE UNCHANGED server
  BY <1>2, <1>6 DEF server
<1>7. CASE Restart \/ UNCHANGED vars
  BY <1>6, <1>7, Zenon DEF Restart, vars
<1>8. ASSUME NEW c \in Callers, GiveUp(c)
      PROVE  UNCHANGED server
  BY <1>8, GiveUpDoes
<1>9. QED
  BY <1>4, <1>5, <1>6, <1>7, <1>8, DesktopSteps DEF Next

LEMMA PasswordsStep ==
  ASSUME Inv, Whole, [Next]_vars, ~mixed'
  PROVE  PasswordsOf'
<1>1. PasswordsOf
  BY DEF Whole
<1>2. CASE requests' \subseteq requests
  BY <1>1, <1>2 DEF PasswordsOf
<1>3. ASSUME NEW r \in requests, Handler(r)
      PROVE  PasswordsOf'
  BY <1>1, <1>3, HandlerMoves DEF PasswordsOf, MovesOn, SameButStep, Replies
<1>4. ASSUME NEW callers, Orphans(callers)
      PROVE  PasswordsOf'
  BY <1>1, <1>4, OrphanFacts, RequestFacts DEF PasswordsOf, Orphans, Inv
<1>5. ASSUME NEW c, NEW q, Sends(c, q), q.kind = "password" => q.key = q.acc
      PROVE  PasswordsOf'
  BY <1>1, <1>5 DEF PasswordsOf, Sends
<1>6. ASSUME NEW t \in Tasks, RefreshAnswered(t)
      PROVE  PasswordsOf'
  <2>1. CASE UNCHANGED requests
    BY <1>2, <2>1
  <2>2. ASSUME NEW q, Sends(t, q), q.acc = device[answer[t].dev].acc, q.key = session.key
        PROVE  PasswordsOf'
    <3>1. cmd[t].acc = session.key
      BY <1>6, RefreshAnsweredDoes, Zenon
    <3>2. RefreshOf(t) /\ cmd[t] # None /\ cmd[t].pc = "refresh" /\ answer[t] # None /\ answer[t].ok
      BY <1>6, RefreshAnsweredDoes DEF Whole
    <3>3. device[answer[t].dev].acc = cmd[t].acc
      BY <3>2 DEF RefreshOf
    <3>4. QED
      BY <1>5, <2>2, <3>1, <3>3
  <2>3. QED
    BY <1>6, <2>1, <2>2, RefreshAnsweredDoes
<1>7. ASSUME NEW t \in Tasks, TaskStep(t), ~RefreshAnswered(t)
      PROVE  PasswordsOf'
  BY <1>2, <1>7, AnswerFailsDoes, ServedDoes, LocalDoes DEF TaskStep
<1>8. ASSUME NEW t \in Tasks, NEW kind \in Commands, Start(t, kind)
      PROVE  PasswordsOf'
  <2>1. \E q : Sends(t, q) /\ q.kind = "refresh"
    BY <1>8, StartDoes
  <2>2. QED
    BY <1>5, <2>1
<1>9. ASSUME NEW a \in Accounts, NEW reg \in BOOLEAN, AuthStart(a, reg)
      PROVE  PasswordsOf'
  <2>1. \E q : Sends(Auth, q) /\ q.kind = (IF reg THEN "register" ELSE "login")
    BY <1>9, AuthStartDoes
  <2>2. QED
    BY <1>5, <2>1
<1>10. CASE AuthTokens
  <2>1. \E q : Sends(Auth, q) /\ q.kind = (IF auth.reg THEN "put_vault" ELSE "get_vault")
    BY <1>10, AuthTokensDoes
  <2>2. QED
    BY <1>5, <2>1
<1>11. CASE AuthStep /\ ~AuthTokens
  BY <1>2, <1>11, AuthVaultDoes, AuthFailsDoes, ActivateDoes, PersistDoes, OpenSessionDoes,
     AuthEndDoes DEF AuthStep
<1>12. CASE Enqueue \/ UNCHANGED vars
  BY <1>2, <1>12, Zenon DEF Enqueue, vars
<1>13. ASSUME NEW a \in Accounts, OtherDesktop(a)
      PROVE  PasswordsOf'
  BY <1>2, <1>13, OtherDoes
<1>14. QED
  BY <1>3, <1>4, <1>6, <1>7, <1>8, <1>9, <1>10, <1>11, <1>12, <1>13, GiveUpDoes, RestartDoes DEF Next

LEMMA RefreshStays ==
  ASSUME Inv, Grows, NEW t \in Tasks, RefreshOf(t),
         UNCHANGED cmd \/ cmd'[t] = cmd[t],
         \A q \in requests' : q.by = t => \E r \in requests : r.by = t /\ q.dev = r.dev,
         \/ answer'[t] \in {None, answer[t]}
         \/ \E r \in requests : r.by = t /\ (r.kind = "refresh" /\ answer'[t].ok => answer'[t].dev = r.dev)
  PROVE  RefreshOf(t)'
<1>1. SUFFICES ASSUME cmd'[t] = cmd[t], cmd[t] # None, cmd[t].pc = "refresh"
               PROVE  RefreshOf(t)'
  BY DEF RefreshOf
<1>2. \A r \in requests : r.by = t => /\ r.kind = "refresh" /\ r.dev \in DOMAIN device
                                      /\ device[r.dev].acc = cmd[t].acc
                                      /\ device'[r.dev].acc = cmd[t].acc
  <2>1. ASSUME NEW r \in requests, r.by = t
        PROVE  r.kind = "refresh" /\ r.dev \in DOMAIN device /\ device[r.dev].acc = cmd[t].acc
    BY <1>1, <2>1 DEF Inv, Calls, Asks, Addressed, Names, Opened, RefreshOf
  <2>2. QED
    BY <2>1 DEF Grows
<1>3. answer[t] # None /\ answer[t].ok => device'[answer[t].dev].acc = cmd[t].acc
  <2>1. answer[t] # None /\ answer[t].ok => answer[t].dev \in DOMAIN device
    BY <1>1 DEF Inv, Granted, Opened
  <2>2. QED
    BY <1>1, <2>1 DEF RefreshOf, Grows
<1>4. \A q \in requests' : q.by = t => device'[q.dev].acc = cmd[t].acc
  BY <1>2
<1>5. answer'[t] # None /\ answer'[t].ok => device'[answer'[t].dev].acc = cmd[t].acc
  BY <1>2, <1>3
<1>6. QED
  BY <1>1, <1>4, <1>5 DEF RefreshOf

LEMMA RefreshOthers ==
  ASSUME Inv, Whole, Grows, NEW t \in Tasks, \E c : Sets(t, c), UNCHANGED answer \/ Takes(t),
         UNCHANGED requests \/ \E q : Sends(t, q)
  PROVE  \A s \in Tasks \ {t} : RefreshOf(s)'
<1>1. ASSUME NEW s \in Tasks, s # t
      PROVE  RefreshOf(s)'
  <2>1. cmd'[s] = cmd[s] /\ answer'[s] = answer[s] /\ RefreshOf(s)
    BY <1>1, NoneFacts DEF Sets, Takes, Whole
  <2>2. \A q \in requests' : q.by = s => q \in requests
    BY <1>1 DEF Sends
  <2>3. QED
    BY <2>1, <2>2, RefreshStays
<1>2. QED
  BY <1>1

LEMMA RefreshStep ==
  ASSUME Inv, Whole, [Next]_vars, ~mixed'
  PROVE  \A t \in Tasks : RefreshOf(t)'
<1>1. /\ \A t \in Tasks : RefreshOf(t)
      /\ Grows /\ Tasks \subseteq Callers /\ None \notin Callers
  BY GrowsStep, NoneFacts DEF Whole
<1>2. CASE UNCHANGED <<requests, answer, cmd>>
  BY <1>1, <1>2, RefreshStays
<1>3. ASSUME NEW t \in Tasks, Sets(t, None) \/ \E pc \in {"cursor", "clear", "drop"} : GoesTo(t, pc)
      PROVE  RefreshOf(t)' /\ \E c : Sets(t, c)
  BY <1>3 DEF RefreshOf, Sets, GoesTo
<1>4. ASSUME NEW r \in requests, Handler(r)
      PROVE  \A t \in Tasks : RefreshOf(t)'
  <2>1. UNCHANGED cmd
    BY <1>4, HandlerMoves DEF Ours
  <2>2. CASE \E q : MovesOn(r, q)
    BY <1>1, <2>1, <2>2, RefreshStays DEF MovesOn, SameButStep
  <2>3. ASSUME NEW a, Replies(r, a), Fulfils(r, a)
        PROVE  \A t \in Tasks : RefreshOf(t)'
    <3>1. ASSUME NEW t \in Tasks
          PROVE  RefreshOf(t)'
      <4>1. answer'[t] = IF t = r.by THEN a ELSE answer[t]
        BY <1>1, <2>3 DEF Replies
      <4>2. requests' \subseteq requests
        BY <2>3 DEF Replies
      <4>3. \/ answer'[t] \in {None, answer[t]}
            \/ r.by = t /\ (r.kind = "refresh" /\ answer'[t].ok => answer'[t].dev = r.dev)
        BY <2>3, <4>1 DEF Fulfils
      <4>4. QED
        BY <1>1, <2>1, <4>2, <4>3, RefreshStays
    <3>2. QED
      BY <3>1
  <2>4. QED
    BY <1>4, <2>2, <2>3, HandlerFulfils
<1>5. ASSUME NEW a \in Accounts, OtherDesktop(a)
      PROVE  \A t \in Tasks : RefreshOf(t)'
  BY <1>2, <1>5, OtherDoes DEF Ours
<1>6. ASSUME NEW t \in Tasks, NEW kind \in Commands, Start(t, kind)
      PROVE  \A s \in Tasks : RefreshOf(s)'
  <2>1. PICK c \in Command : Sets(t, c) /\ c.acc = session.key
    BY <1>6, StartDoes
  <2>2. PICK q : Sends(t, q) /\ q.dev = token[session.tok].dev
    BY <1>6, StartDoes
  <2>3. UNCHANGED <<answer, server>> /\ cmd[t] = None /\ session # None
    BY <1>6, StartDoes
  <2>4. device[token[session.tok].dev].acc = session.key
    BY <2>3 DEF Whole, SessionOf
  <2>5. answer[t] = None /\ \A r \in requests : r.by # t
    BY <2>3, NoRequest
  <2>6. RefreshOf(t)'
    BY <2>1, <2>2, <2>3, <2>4, <2>5 DEF RefreshOf, Sets, Sends, server
  <2>7. \A s \in Tasks \ {t} : RefreshOf(s)'
    BY <1>1, <2>1, <2>2, <2>3, RefreshOthers
  <2>8. QED
    BY <2>6, <2>7
<1>7. ASSUME NEW t \in Tasks, TaskStep(t)
      PROVE  \A s \in Tasks : RefreshOf(s)'
  <2>1. RefreshOf(t)' /\ \E c : Sets(t, c)
    <3>1. CASE RefreshAnswered(t)
      <4>1. Sets(t, None) \/ \E c : Sets(t, c) /\ c.pc = "request"
        BY <3>1, RefreshAnsweredDoes
      <4>2. QED
        BY <4>1 DEF RefreshOf, Sets
    <3>2. CASE AnswerFails(t)
      BY <1>3, <3>2, AnswerFailsDoes DEF FailsTo
    <3>3. CASE Listed(t) \/ Pushed(t) \/ Pulled(t) \/ LoggedOut(t)
      BY <1>3, <3>3, ServedDoes
    <3>4. CASE SaveCursor(t) \/ ClearRefresh(t) \/ DropSession(t) \/ LocalFails(t)
      BY <1>3, <3>4, LocalDoes
    <3>5. QED
      BY <1>7, <3>1, <3>2, <3>3, <3>4 DEF TaskStep
  <2>2. (UNCHANGED answer \/ Takes(t)) /\ (UNCHANGED requests \/ \E q : Sends(t, q))
    <3>1. CASE RefreshAnswered(t)
      BY <3>1, RefreshAnsweredDoes
    <3>2. CASE AnswerFails(t)
      BY <3>2, AnswerFailsDoes
    <3>3. CASE Listed(t) \/ Pushed(t) \/ Pulled(t) \/ LoggedOut(t)
      BY <3>3, ServedDoes
    <3>4. CASE SaveCursor(t) \/ ClearRefresh(t) \/ DropSession(t) \/ LocalFails(t)
      BY <3>4, LocalDoes
    <3>5. QED
      BY <1>7, <3>1, <3>2, <3>3, <3>4 DEF TaskStep
  <2>3. QED
    BY <1>1, <2>1, <2>2, RefreshOthers
<1>8. ASSUME UNCHANGED cmd, \A t \in Tasks : answer'[t] = answer[t],
             \A q \in requests' : q.by \in Tasks => q \in requests
      PROVE  \A t \in Tasks : RefreshOf(t)'
  BY <1>1, <1>8, RefreshStays
<1>9. ASSUME NEW a \in Accounts, NEW reg \in BOOLEAN, AuthStart(a, reg)
      PROVE  \A t \in Tasks : RefreshOf(t)'
  BY <1>8, <1>9, AuthStartDoes, NoneFacts DEF Sends
<1>10. CASE AuthStep
  <2>1. \/ AuthTokens \/ AuthVault \/ AuthFails
        \/ UNCHANGED <<requests, answer, cmd>>
    BY <1>10, ActivateDoes, PersistDoes, OpenSessionDoes, AuthEndDoes DEF AuthStep
  <2>2. CASE AuthTokens \/ AuthVault \/ AuthFails
    <3>1. UNCHANGED cmd /\ Takes(Auth)
      BY <2>2, AuthTokensDoes, AuthVaultDoes, AuthFailsDoes
    <3>2. UNCHANGED requests \/ \E q : Sends(Auth, q)
      BY <2>2, AuthTokensDoes, AuthVaultDoes, AuthFailsDoes
    <3>3. QED
      BY <1>8, <3>1, <3>2, NoneFacts DEF Sends, Takes
  <2>3. QED
    BY <1>2, <2>1, <2>2
<1>11. ASSUME NEW c \in Callers, GiveUp(c)
      PROVE  \A t \in Tasks : RefreshOf(t)'
  <2>1. Orphans({c})
    BY <1>11, GiveUpDoes
  <2>2. \A q \in requests' : q.by # None => q \in requests /\ q.by # c
    BY <2>1, OrphanFacts, RequestFacts DEF Orphans, Inv
  <2>3. ASSUME NEW t \in Tasks, t # c
        PROVE  RefreshOf(t)'
    <3>1. UNCHANGED cmd \/ \E x : Sets(c, x)
      BY <1>11, GiveUpDoes, GoesSets
    <3>2. UNCHANGED cmd \/ cmd'[t] = cmd[t]
      BY <2>3, <3>1 DEF Sets
    <3>3. answer'[t] = answer[t]
      BY <1>1, <2>1, <2>3 DEF Orphans
    <3>4. QED
      BY <1>1, <2>2, <3>2, <3>3, RefreshStays
  <2>4. c \in Tasks => RefreshOf(c)'
    BY <1>3, <1>11, GiveUpDoes, NoneFacts DEF FailsTo
  <2>5. QED
    BY <2>3, <2>4
<1>12. CASE Restart
  BY <1>12, RestartDoes DEF RefreshOf
<1>13. CASE Enqueue \/ UNCHANGED vars
  BY <1>2, <1>13, Zenon DEF Enqueue, vars, tasks
<1>14. QED
  BY <1>4, <1>5, <1>6, <1>7, <1>9, <1>10, <1>11, <1>12, <1>13 DEF Next

(* The login learns the key of its own account.                            *)
LEMMA LoginOfStep ==
  ASSUME Inv, Whole, [Next]_vars
  PROVE  LoginOf'
<1>1. LoginOf /\ Auth \in Callers /\ Auth \notin Tasks
  BY NoneFacts DEF Whole
<1>2. ASSUME UNCHANGED auth, answer'[Auth] \in {None, answer[Auth]}
      PROVE  LoginOf'
  BY <1>1, <1>2 DEF LoginOf
<1>3. CASE auth' = None
  BY <1>3 DEF LoginOf
<1>4. ASSUME NEW r \in requests, Handler(r)
      PROVE  LoginOf'
  <2>1. UNCHANGED auth
    BY <1>4, HandlerMoves DEF Ours
  <2>2. CASE \E q : MovesOn(r, q)
    BY <1>2, <2>1, <2>2 DEF MovesOn
  <2>3. ASSUME NEW a, Replies(r, a), Fulfils(r, a)
        PROVE  LoginOf'
    <3>1. answer'[Auth] = IF Auth = r.by THEN a ELSE answer[Auth]
      BY <1>1, <2>3 DEF Replies
    <3>2. CASE Auth # r.by
      BY <1>2, <2>1, <3>1, <3>2
    <3>3. CASE Auth = r.by
      <4>1. auth # None /\ LoginAsks(r) /\ r.acc \in Accounts
        BY <3>3, RequestFacts DEF Inv, Calls
      <4>2. CASE auth.pc = "vault" /\ ~auth.reg /\ a.ok
        <5>1. r.kind = "get_vault" /\ r.acc = auth.acc
          BY <4>1, <4>2 DEF LoginAsks
        <5>2. a.keys = {vault[r.acc].key} /\ vault[r.acc] # None
          BY <2>3, <4>2, <5>1 DEF Fulfils
        <5>3. vault[r.acc].key = r.acc
          BY <4>1, <5>2 DEF Whole, KeyOf
        <5>4. QED
          BY <1>1, <2>1, <3>1, <3>3, <4>2, <5>1, <5>2, <5>3 DEF LoginOf
      <4>3. CASE ~(auth.pc = "vault" /\ ~auth.reg /\ a.ok)
        BY <1>1, <2>1, <3>1, <3>3, <4>3 DEF LoginOf
      <4>4. QED
        BY <4>2, <4>3
    <3>4. QED
      BY <3>2, <3>3
  <2>4. QED
    BY <1>4, <2>2, <2>3, HandlerFulfils
<1>5. ASSUME NEW a \in Accounts, OtherDesktop(a)
      PROVE  LoginOf'
  BY <1>2, <1>5, OtherDoes DEF Ours
<1>6. ASSUME NEW t \in Tasks, Takes(t) \/ UNCHANGED answer, UNCHANGED auth
      PROVE  LoginOf'
  BY <1>1, <1>2, <1>6 DEF Takes
<1>7. ASSUME NEW t \in Tasks, TaskStep(t)
      PROVE  LoginOf'
  <2>1. CASE RefreshAnswered(t)
    BY <1>6, <2>1, RefreshAnsweredDoes
  <2>2. CASE AnswerFails(t)
    BY <1>6, <2>2, AnswerFailsDoes
  <2>3. CASE Listed(t) \/ Pushed(t) \/ Pulled(t) \/ LoggedOut(t)
    BY <1>6, <2>3, ServedDoes
  <2>4. CASE SaveCursor(t) \/ ClearRefresh(t) \/ DropSession(t) \/ LocalFails(t)
    BY <1>6, <2>4, LocalDoes
  <2>5. QED
    BY <1>7, <2>1, <2>2, <2>3, <2>4 DEF TaskStep
<1>8. ASSUME NEW t \in Tasks, NEW kind \in Commands, Start(t, kind)
      PROVE  LoginOf'
  BY <1>6, <1>8, StartDoes
<1>9. ASSUME NEW a \in Accounts, NEW reg \in BOOLEAN, AuthStart(a, reg)
      PROVE  LoginOf'
  BY <1>9, AuthStartDoes DEF Begins, LoginOf
<1>10. CASE AuthTokens
  BY <1>1, <1>10, AuthTokensDoes DEF Advances, LoginOf, Takes
<1>11. CASE AuthVault
  BY <1>1, <1>11, AuthVaultDoes DEF Advances, LoginOf
<1>12. CASE Activate \/ PersistRefresh \/ OpenSession
  <2>1. \E p, pc : Advances(p, pc) /\ Keeps(p) /\ pc # "vault"
    BY <1>12, ActivateDoes, PersistDoes, OpenSessionDoes
  <2>2. auth.pc \notin {"tokens", "vault"}
    BY <1>12, ActivateDoes, PersistDoes, OpenSessionDoes
  <2>3. QED
    BY <1>1, <2>1, <2>2 DEF Advances, Keeps, LoginOf
<1>13. CASE AuthFails \/ AuthDone \/ LoginFails
  BY <1>3, <1>13, AuthFailsDoes, AuthEndDoes
<1>14. ASSUME NEW c \in Callers, GiveUp(c)
      PROVE  LoginOf'
  <2>1. answer'[Auth] \in {None, answer[Auth]} /\ (auth' = None \/ UNCHANGED auth)
    BY <1>1, <1>14, GiveUpDoes DEF Orphans
  <2>2. QED
    BY <1>2, <1>3, <2>1
<1>15. CASE Restart
  BY <1>3, <1>15, RestartDoes
<1>16. CASE Enqueue \/ UNCHANGED vars
  BY <1>2, <1>16, Zenon DEF Enqueue, vars, tasks
<1>17. QED
  BY <1>4, <1>5, <1>7, <1>8, <1>9, <1>10, <1>11, <1>12, <1>13, <1>14, <1>15, <1>16 DEF Next, AuthStep

(* The session.                                                            *)
LEMMA SessionOfStays ==
  ASSUME Inv, SessionOf, Grows, active' = active,
         session' = None \/ (session # None /\ session'.tok = session.tok
                               /\ session'.dev = session.dev /\ session'.key = session.key)
  PROVE  SessionOf'
<1>1. SUFFICES ASSUME session' # None, session # None, session'.tok = session.tok,
                      session'.dev = session.dev, session'.key = session.key
               PROVE  SessionOf'
  BY DEF SessionOf
<1>2. /\ session.tok \in DOMAIN token /\ session.dev \in DOMAIN device
      /\ session.key = active /\ session.dev = token[session.tok].dev
      /\ device[session.dev].acc = session.key
  BY <1>1 DEF Inv, Held, Opened, SessionOf
<1>3. device'[session.dev].acc = session.key /\ token'[session.tok].dev = session.dev
  BY <1>2 DEF Grows
<1>4. QED
  BY <1>1, <1>2, <1>3 DEF SessionOf

LEMMA SessionOfStep ==
  ASSUME OneAccount, Whole, [Next]_vars, ~mixed'
  PROVE  SessionOf'
<1>1. Inv /\ Whole /\ SessionOf /\ Grows
  BY GrowsStep DEF OneAccount, Whole
<1>2. CASE UNCHANGED <<session, active>>
  BY <1>1, <1>2, SessionOfStays
<1>3. ASSUME NEW r \in requests, Handler(r)
      PROVE  SessionOf'
  BY <1>1, <1>2, <1>3, HandlerMoves DEF Ours
<1>4. ASSUME NEW a \in Accounts, OtherDesktop(a)
      PROVE  SessionOf'
  BY <1>1, <1>2, <1>4, OtherDoes DEF Ours
<1>5. ASSUME NEW t \in Tasks, TaskStep(t)
      PROVE  SessionOf'
  <2>1. CASE RefreshAnswered(t)
    <3>1. /\ UNCHANGED <<server, active>> /\ session # None
          /\ session'.tok = answer[t].tok /\ session'.dev = answer[t].dev
          /\ session'.key = session.key
      BY <1>1, <2>1, RefreshAnsweredDoes
    <3>2. cmd[t].acc = session.key
      BY <1>1, <2>1, RefreshAnsweredDoes, Zenon
    <3>3. Grants(answer[t]) /\ RefreshOf(t) /\ cmd[t] # None /\ cmd[t].pc = "refresh"
          /\ answer[t] # None /\ answer[t].ok
      BY <1>1, <2>1, RefreshAnsweredDoes DEF Inv, Granted, Whole
    <3>4. device[answer[t].dev].acc = session.key
      BY <3>2, <3>3 DEF RefreshOf
    <3>5. QED
      BY <1>1, <3>1, <3>3, <3>4 DEF SessionOf, Grants, server
  <2>2. CASE AnswerFails(t) \/ Listed(t) \/ Pushed(t) \/ Pulled(t) \/ LoggedOut(t)
    BY <1>1, <1>2, <2>2, AnswerFailsDoes, ServedDoes DEF memory, disk
  <2>3. CASE SaveCursor(t) \/ ClearRefresh(t) \/ DropSession(t) \/ LocalFails(t)
    <3>1. UNCHANGED active
      BY <1>1, <2>3, LocalDoes
    <3>2. \/ UNCHANGED session
          \/ session' = None
          \/ /\ session # None /\ session'.tok = session.tok
             /\ session'.dev = session.dev /\ session'.key = session.key
      BY <1>1, <2>3, LocalDoes
    <3>3. QED
      BY <1>1, <1>2, <3>1, <3>2, SessionOfStays
  <2>4. QED
    BY <1>5, <2>1, <2>2, <2>3 DEF TaskStep
<1>6. CASE AuthStep
  <2>1. CASE AuthTokens \/ AuthVault \/ AuthFails \/ PersistRefresh \/ AuthDone \/ LoginFails
    <3>1. UNCHANGED <<session, active>>
      BY <1>1, <2>1, AuthTokensDoes, AuthVaultDoes, AuthFailsDoes, PersistDoes, AuthEndDoes
         DEF memory, disk
    <3>2. QED
      BY <1>2, <3>1
  <2>2. CASE Activate
    <3>1. UNCHANGED session /\ auth # None /\ auth.pc = "activate"
      BY <1>1, <2>2, ActivateDoes DEF memory, Advances
    <3>2. session' = None
      BY <1>1, <3>1 DEF Inv, LoggingIn
    <3>3. QED
      BY <3>2 DEF SessionOf
  <2>3. CASE OpenSession
    <3>1. /\ UNCHANGED <<server, active>> /\ auth # None /\ auth.pc = "session"
          /\ session'.tok = auth.tok /\ session'.dev = auth.dev /\ session'.key = auth.key
      BY <1>1, <2>3, OpenSessionDoes DEF disk, Advances
    <3>2. Grants(auth) /\ device[auth.dev].acc = auth.acc /\ active = auth.acc
      BY <1>1, <3>1 DEF Inv, LoggingIn
    <3>3. auth.key = auth.acc
      BY <1>1, <3>1 DEF Whole, LoginOf
    <3>4. QED
      BY <3>1, <3>2, <3>3 DEF SessionOf, Grants, server
  <2>4. QED
    BY <1>6, <2>1, <2>2, <2>3 DEF AuthStep
<1>7. CASE Restart
  <2>1. CASE session' = None
    BY <2>1 DEF SessionOf
  <2>2. CASE session' # None
    <3>1. ~Unfiled
      BY <1>1, <1>7, RestartDoes, Zenon
    <3>2. /\ UNCHANGED <<server, active>> /\ active # None /\ profile[active].cipher # None
          /\ session'.tok = profile[active].cipher
          /\ session'.dev = profile[active].dev /\ session'.key = keyFile
      BY <1>1, <1>7, <2>2, RestartDoes DEF disk
    <3>3. active \in Accounts /\ profile[active] # None
      BY <1>1, <3>2, ActiveFacts
    <3>4. keyFile = active /\ CipherOf(active) /\ ProfileOf(active)
      BY <1>1, <3>1, <3>3 DEF Whole, FileOf, Inv, Held
    <3>5. QED
      BY <3>2, <3>3, <3>4 DEF SessionOf, CipherOf, ProfileOf, server
  <2>3. QED
    BY <2>1, <2>2
<1>8. ASSUME NEW t \in Tasks, NEW kind \in Commands, Start(t, kind)
      PROVE  SessionOf'
  BY <1>1, <1>2, <1>8, StartDoes DEF memory, disk
<1>9. ASSUME NEW a \in Accounts, NEW reg \in BOOLEAN, AuthStart(a, reg)
      PROVE  SessionOf'
  BY <1>1, <1>2, <1>9, AuthStartDoes DEF memory, disk
<1>10. ASSUME NEW c \in Callers, GiveUp(c)
      PROVE  SessionOf'
  BY <1>1, <1>2, <1>10, GiveUpDoes DEF memory, disk
<1>11. CASE Enqueue \/ UNCHANGED vars
  BY <1>2, <1>11, Zenon DEF Enqueue, vars, memory, disk
<1>12. QED
  BY <1>3, <1>4, <1>5, <1>6, <1>7, <1>8, <1>9, <1>10, <1>11 DEF Next

(* The key in the file.                                                    *)
LEMMA FileStep ==
  ASSUME OneAccount, Whole, [Next]_vars, ~mixed'
  PROVE  FileOf'
<1>1. Inv /\ Whole /\ FileOf
  BY DEF OneAccount, Whole
<1>2. CASE UNCHANGED <<active, keyFile, auth>>
  BY <1>1, <1>2 DEF FileOf, Unfiled
<1>3. CASE /\ UNCHANGED <<active, keyFile>>
           /\ auth = None \/ auth.pc \in {"tokens", "vault"}
  BY <1>1, <1>3 DEF FileOf, Unfiled
<1>4. ASSUME NEW r \in requests, Handler(r)
      PROVE  FileOf'
  BY <1>1, <1>2, <1>4, HandlerMoves DEF Ours
<1>5. ASSUME NEW a \in Accounts, OtherDesktop(a)
      PROVE  FileOf'
  BY <1>1, <1>2, <1>5, OtherDoes DEF Ours
<1>6. ASSUME NEW t \in Tasks, TaskStep(t)
      PROVE  FileOf'
  <2>1. CASE RefreshAnswered(t) \/ AnswerFails(t)
    BY <1>1, <1>2, <2>1, RefreshAnsweredDoes, AnswerFailsDoes DEF disk
  <2>2. CASE Listed(t) \/ Pushed(t) \/ Pulled(t) \/ LoggedOut(t)
    BY <1>1, <1>2, <2>2, ServedDoes
  <2>3. CASE SaveCursor(t) \/ ClearRefresh(t) \/ DropSession(t) \/ LocalFails(t)
    BY <1>1, <1>2, <2>3, LocalDoes
  <2>4. QED
    BY <1>6, <2>1, <2>2, <2>3 DEF TaskStep
<1>7. CASE AuthTokens \/ AuthFails
  BY <1>1, <1>3, <1>7, AuthTokensDoes, AuthFailsDoes DEF disk
<1>8. CASE AuthVault
  BY <1>1, <1>3, <1>8, AuthVaultDoes DEF disk
<1>9. ASSUME auth # None, auth.pc \notin {"tokens", "vault"}
      PROVE  auth.key = auth.acc /\ auth.acc \in Accounts
  BY <1>1, <1>9, AuthFacts DEF Whole, LoginOf, Inv
<1>10. CASE Activate
  <2>1. UNCHANGED keyFile /\ active' = auth.acc /\ auth.pc = "activate"
    BY <1>1, <1>10, ActivateDoes
  <2>2. PICK p : Advances(p, "persist") /\ Keeps(p)
    BY <1>1, <1>10, ActivateDoes
  <2>3. QED
    BY <1>9, <2>1, <2>2, NoneOK DEF FileOf, Unfiled, Advances, Keeps
<1>11. ASSUME NEW p, NEW pc \in {"session", "file"}, Advances(p, pc), Keeps(p),
              auth.pc \in {"persist", "session"}, UNCHANGED <<active, keyFile>>
      PROVE  FileOf'
  BY <1>1, <1>11, NoneOK DEF FileOf, Unfiled, Advances, Keeps
<1>12. CASE PersistRefresh \/ OpenSession
  BY <1>1, <1>11, <1>12, PersistDoes, OpenSessionDoes DEF disk
<1>13. CASE AuthDone \/ LoginFails
  <2>1. auth # None /\ auth' = None /\ UNCHANGED active
    BY <1>1, <1>13, AuthEndDoes
  <2>2. CASE auth.pc = "file" /\ keyFile' = auth.key
    <3>1. auth.key = active
      BY <1>1, <1>9, <2>1, <2>2 DEF Inv, LoggingIn
    <3>2. QED
      BY <2>1, <2>2, <3>1 DEF FileOf
  <2>3. CASE UNCHANGED keyFile /\ mixed' = (mixed \/ Unfiled)
    <3>1. ~Unfiled
      BY <2>3, Zenon
    <3>2. QED
      BY <1>1, <2>1, <2>3, <3>1 DEF FileOf
  <2>4. QED
    BY <1>1, <1>13, <2>2, <2>3, AuthEndDoes, Zenon
<1>14. ASSUME NEW t \in Tasks, NEW kind \in Commands, Start(t, kind)
      PROVE  FileOf'
  BY <1>1, <1>2, <1>14, StartDoes DEF disk
<1>15. ASSUME NEW a \in Accounts, NEW reg \in BOOLEAN, AuthStart(a, reg)
      PROVE  FileOf'
  BY <1>1, <1>3, <1>15, AuthStartDoes DEF disk
<1>16. ASSUME NEW c \in Callers, GiveUp(c)
      PROVE  FileOf'
  BY <1>1, <1>2, <1>3, <1>16, GiveUpDoes DEF disk
<1>17. CASE Restart
  <2>1. ~Unfiled
    BY <1>1, <1>17, RestartDoes, Zenon
  <2>2. UNCHANGED <<active, keyFile>>
    BY <1>1, <1>17, RestartDoes DEF disk
  <2>3. QED
    BY <1>1, <2>1, <2>2 DEF FileOf
<1>18. CASE Enqueue \/ UNCHANGED vars
  BY <1>2, <1>18, Zenon DEF Enqueue, vars, disk, tasks
<1>19. QED
  BY <1>4, <1>5, <1>6, <1>7, <1>8, <1>10, <1>12, <1>13, <1>14, <1>15, <1>16, <1>17, <1>18
     DEF Next, AuthStep

(* The refresh token on disk.                                              *)
Signed == session # None \/ (auth # None /\ auth.pc = "session")

LEMMA CipherStays ==
  ASSUME Inv, Whole, Grows, NEW a \in Accounts, active' = active,
         \/ UNCHANGED profile
         \/ /\ profile'[a].dev = profile[a].dev /\ profile[a] # None
            /\ profile'[a].cipher \in {None, profile[a].cipher}
         \/ profile'[a] = profile[a],
         Signed /\ profile[a].cipher # None => Signed'
  PROVE  CipherOf(a)'
<1>1. SUFFICES ASSUME profile'[a] # None, profile'[a].cipher # None
               PROVE  /\ a = active' /\ token'[profile'[a].cipher].dev = profile'[a].dev
                      /\ Signed'
  BY DEF CipherOf, Signed
<1>2. /\ profile[a] # None /\ profile[a].cipher # None
      /\ profile'[a].dev = profile[a].dev /\ profile'[a].cipher = profile[a].cipher
  BY <1>1
<1>3. CipherOf(a) /\ ProfileOf(a)
  BY DEF Whole, Inv, Held
<1>4. /\ a = active /\ token[profile[a].cipher].dev = profile[a].dev /\ Signed
      /\ profile[a].cipher \in DOMAIN token
  BY <1>2, <1>3 DEF CipherOf, ProfileOf, Signed
<1>5. token'[profile[a].cipher].dev = profile[a].dev
  BY <1>4 DEF Grows
<1>6. QED
  BY <1>2, <1>4, <1>5

LEMMA CipherStep ==
  ASSUME OneAccount, Whole, [Next]_vars, ~mixed'
  PROVE  \A a \in Accounts : CipherOf(a)'
<1>1. Inv /\ Whole /\ Grows
  BY GrowsStep DEF OneAccount
<1>2. ASSUME UNCHANGED <<profile, active>>, Signed => Signed'
      PROVE  \A a \in Accounts : CipherOf(a)'
  BY <1>1, <1>2, CipherStays
<1>3. CASE UNCHANGED <<session, profile, active, auth>>
  BY <1>2, <1>3 DEF Signed
<1>4. ASSUME NEW r \in requests, Handler(r)
      PROVE  \A a \in Accounts : CipherOf(a)'
  BY <1>1, <1>3, <1>4, HandlerMoves DEF Ours
<1>5. ASSUME NEW b \in Accounts, OtherDesktop(b)
      PROVE  \A a \in Accounts : CipherOf(a)'
  BY <1>1, <1>3, <1>5, OtherDoes DEF Ours
<1>6. ASSUME NEW t \in Tasks, TaskStep(t)
      PROVE  \A a \in Accounts : CipherOf(a)'
  <2>1. CASE RefreshAnswered(t)
    <3>1. UNCHANGED <<profile, active>> /\ session' \in Session
      BY <1>1, <2>1, RefreshAnsweredDoes
    <3>2. QED
      BY <1>2, <3>1, NoneOK DEF Signed
  <2>2. CASE AnswerFails(t) \/ Listed(t) \/ Pushed(t) \/ Pulled(t) \/ LoggedOut(t)
    <3>1. UNCHANGED <<session, profile, active, auth>>
      BY <1>1, <2>2, AnswerFailsDoes, ServedDoes DEF memory, disk
    <3>2. QED
      BY <1>3, <3>1
  <2>3. CASE SaveCursor(t) \/ ClearRefresh(t) \/ DropSession(t) \/ LocalFails(t)
    <3>1. UNCHANGED <<active, auth>>
      BY <1>1, <2>3, LocalDoes
    <3>2. ASSUME NEW a \in Accounts
          PROVE  \/ UNCHANGED profile
                 \/ /\ profile'[a].dev = profile[a].dev /\ profile[a] # None
                    /\ profile'[a].cipher \in {None, profile[a].cipher}
                 \/ profile'[a] = profile[a]
      <4>1. \/ UNCHANGED profile
            \/ active # None /\ \E p \in Profile : /\ Profiled(active, p)
                                                   /\ p.dev = profile[active].dev
                                                   /\ p.cipher \in {None, profile[active].cipher}
        BY <1>1, <2>3, LocalDoes
      <4>2. active # None => profile[active] # None
        BY <1>1, ActiveFacts
      <4>3. QED
        BY <4>1, <4>2 DEF Profiled
    <3>3. ASSUME NEW a \in Accounts, Signed, profile[a] # None, profile[a].cipher # None
          PROVE  Signed'
      <4>1. a = active /\ active # None
        BY <1>1, <3>3, NoneFacts DEF Whole, CipherOf
      <4>2. CASE DropSession(t)
        <5>1. ~(session # None /\ active # None /\ profile[active].cipher # None)
          BY <4>2, Zenon DEF DropSession
        <5>2. session = None
          BY <3>3, <4>1, <5>1
        <5>3. QED
          BY <3>1, <3>3, <5>2 DEF Signed
      <4>3. CASE SaveCursor(t) \/ ClearRefresh(t)
        <5>1. session # None => session' # None
          <6>1. SUFFICES ASSUME session # None PROVE session' # None
            OBVIOUS
          <6>2. session' = session \/ session' = [session EXCEPT !.cursor = 1]
            BY <4>3, <6>1, Zenon DEF SaveCursor, ClearRefresh
          <6>3. [session EXCEPT !.cursor = 1] \in Session
            BY <1>1, <6>1, SessionFacts DEF Session, Inv
          <6>4. QED
            BY <6>1, <6>2, <6>3, NoneOK
        <5>2. QED
          BY <3>1, <3>3, <5>1 DEF Signed
      <4>4. CASE LocalFails(t)
        BY <1>1, <3>1, <3>3, <4>4, LocalFailsDoes DEF Signed
      <4>5. QED
        BY <2>3, <4>2, <4>3, <4>4
    <3>4. \A a \in Accounts : profile[a] = None => CipherOf(a)'
      BY <3>2 DEF CipherOf
    <3>5. ASSUME NEW a \in Accounts, profile[a] # None
          PROVE  CipherOf(a)'
      BY <1>1, <3>1, <3>2, <3>3, <3>5, CipherStays
    <3>6. QED
      BY <3>4, <3>5
  <2>4. QED
    BY <1>6, <2>1, <2>2, <2>3 DEF TaskStep
<1>7. CASE AuthTokens \/ AuthFails
  <2>1. UNCHANGED <<profile, active, session>> /\ auth.pc \in {"tokens", "vault"}
    BY <1>1, <1>7, AuthTokensDoes, AuthFailsDoes DEF memory, disk
  <2>2. QED
    BY <1>2, <2>1 DEF Signed
<1>8. CASE AuthVault
  BY <1>1, <1>2, <1>8, AuthVaultDoes DEF memory, disk, Signed
<1>9. CASE Activate
  <2>1. UNCHANGED session /\ auth # None /\ auth.pc = "activate"
    BY <1>1, <1>9, ActivateDoes DEF memory, Advances
  <2>2. ~Signed
    BY <1>1, <2>1 DEF Inv, LoggingIn, Signed
  <2>3. \A a \in Accounts : profile[a] # None => profile[a].cipher = None
    BY <1>1, <2>2 DEF Whole, CipherOf, Signed
  <2>4. auth.acc \in Accounts
    BY <1>1, <2>1, AuthFacts DEF Inv
  <2>5. PICK x \in Profile :
          /\ Profiled(auth.acc, x)
          /\ profile[auth.acc] = None => x.cipher = None
          /\ profile[auth.acc] # None => x.cipher = profile[auth.acc].cipher
    BY <1>1, <1>9, ActivateDoes
  <2>6. QED
    BY <2>3, <2>4, <2>5 DEF CipherOf, Profiled
<1>10. CASE PersistRefresh
  <2>1. UNCHANGED <<server, active>> /\ auth # None /\ auth.pc = "persist"
    BY <1>1, <1>10, PersistDoes DEF Advances
  <2>2. PICK x \in Profile :
          /\ Profiled(auth.acc, x) /\ x.dev = profile[auth.acc].dev /\ x.cipher = auth.tok
    BY <1>1, <1>10, PersistDoes
  <2>3. Signed'
    BY <1>1, <1>10, PersistDoes, NoneOK DEF Signed, Advances
  <2>4. /\ active = auth.acc /\ token[auth.tok].dev = auth.dev /\ auth.acc \in Accounts
        /\ profile[auth.acc].dev = auth.dev
    BY <1>1, <2>1, AuthFacts DEF Inv, LoggingIn, Grants, OneAccount, Activated
  <2>5. ASSUME NEW a \in Accounts, a # auth.acc
        PROVE  CipherOf(a)'
    BY <1>1, <2>2, <2>4, <2>5 DEF CipherOf, Profiled, Whole
  <2>6. PICK b : b = auth.acc
    OBVIOUS
  <2>7. CipherOf(b)'
    BY <2>1, <2>2, <2>3, <2>4, <2>6 DEF CipherOf, Profiled, Signed, server
  <2>8. QED
    BY <2>5, <2>6, <2>7
<1>11. CASE OpenSession
  <2>1. UNCHANGED <<profile, active>> /\ session' \in Session
    BY <1>1, <1>11, OpenSessionDoes DEF disk
  <2>2. QED
    BY <1>2, <2>1, NoneOK DEF Signed
<1>12. CASE AuthDone \/ LoginFails
  BY <1>1, <1>2, <1>12, AuthEndDoes DEF Signed
<1>13. ASSUME NEW t \in Tasks, NEW kind \in Commands, Start(t, kind)
      PROVE  \A a \in Accounts : CipherOf(a)'
  BY <1>1, <1>3, <1>13, StartDoes DEF memory, disk
<1>14. ASSUME NEW b \in Accounts, NEW reg \in BOOLEAN, AuthStart(b, reg)
      PROVE  \A a \in Accounts : CipherOf(a)'
  BY <1>1, <1>2, <1>14, AuthStartDoes DEF memory, disk, Signed
<1>15. ASSUME NEW c \in Callers, GiveUp(c)
      PROVE  \A a \in Accounts : CipherOf(a)'
  <2>1. UNCHANGED <<profile, active, session>>
        /\ (UNCHANGED auth \/ auth.pc \in {"tokens", "vault"})
    BY <1>1, <1>15, GiveUpDoes DEF memory, disk
  <2>2. QED
    BY <1>2, <2>1 DEF Signed
<1>16. CASE Restart
  <2>1. UNCHANGED <<profile, active>> /\ ~Unfiled
    BY <1>1, <1>16, RestartDoes, Zenon DEF disk
  <2>2. keyFile = active
    BY <1>1, <2>1 DEF Whole, FileOf
  <2>3. ASSUME NEW a \in Accounts, profile[a] # None, profile[a].cipher # None
        PROVE  Signed'
    <3>1. a = active /\ active # None
      BY <1>1, <2>3, NoneFacts DEF Whole, CipherOf
    <3>2. session' # None
      BY <1>1, <1>16, <2>2, <2>3, <3>1, RestartDoes
    <3>3. QED
      BY <3>2 DEF Signed
  <2>4. \A a \in Accounts : profile[a] = None => CipherOf(a)'
    BY <2>1 DEF CipherOf
  <2>5. QED
    BY <1>1, <2>1, <2>3, <2>4, CipherStays
<1>17. CASE Enqueue \/ UNCHANGED vars
  BY <1>3, <1>17, Zenon DEF Enqueue, vars, memory, disk, tasks
<1>18. QED
  BY <1>4, <1>5, <1>6, <1>7, <1>8, <1>9, <1>10, <1>11, <1>12, <1>13, <1>14, <1>15, <1>16, <1>17
     DEF Next, AuthStep

LEMMA OneAccountInit == Init => OneAccount
<1>1. SUFFICES ASSUME Init PROVE OneAccount
  OBVIOUS
<1>2. session = None /\ auth = None /\ active = None /\ keyFile = None /\ requests = {}
  BY <1>1, Zenon DEF Init
<1>3. vault = [a \in Accounts |-> None] /\ profile = [a \in Accounts |-> None]
      /\ cmd = [t \in Tasks |-> None]
  BY <1>1, Zenon DEF Init
<1>4. Activated /\ SessionOf /\ LoginOf /\ PasswordsOf /\ FileOf
  BY <1>2 DEF Activated, SessionOf, LoginOf, PasswordsOf, FileOf
<1>5. /\ \A a \in Accounts : KeyOf(a) /\ CipherOf(a)
      /\ \A t \in Tasks : RefreshOf(t)
  BY <1>3 DEF KeyOf, CipherOf, RefreshOf
<1>6. QED
  BY <1>1, <1>4, <1>5, InvInit, Zenon DEF OneAccount, Whole

LEMMA OneAccountStep == OneAccount /\ [Next]_vars => OneAccount'
<1>1. SUFFICES ASSUME OneAccount, [Next]_vars PROVE OneAccount'
  OBVIOUS
<1>2. Inv /\ Activated' /\ Inv'
  BY <1>1, InvStep, ActivatedStep DEF OneAccount
<1>3. ASSUME ~mixed' PROVE Whole'
  <2>1. Whole
    BY <1>1, <1>2, <1>3, MixedStays DEF OneAccount
  <2>2. /\ \A a \in Accounts : KeyOf(a)'
        /\ \A a \in Accounts : CipherOf(a)'
        /\ \A t \in Tasks : RefreshOf(t)'
        /\ SessionOf' /\ LoginOf' /\ PasswordsOf' /\ FileOf'
    BY <1>1, <1>2, <1>3, <2>1, KeyStep, CipherStep, RefreshStep, SessionOfStep, LoginOfStep,
       PasswordsStep, FileStep
  <2>3. QED
    BY <2>2, Zenon DEF Whole
<1>4. QED
  BY <1>2, <1>3 DEF OneAccount

LEMMA OneAccountHolds == Spec => []OneAccount
BY OneAccountInit, OneAccountStep, PTL DEF Spec

(* Whoever logs in with the account's password can open its vault: every   *)
(* change of the password, here or on another desktop, replaces the        *)
(* envelope, and nothing puts one under another account's key.             *)
THEOREM VaultOpens == Spec => []VaultOpensWithPassword
<1>1. OneAccount => VaultOpensWithPassword
  BY DEF OneAccount, Inv, Vaults, Whole, KeyOf, VaultOpensWithPassword
<1>2. QED
  BY <1>1, OneAccountHolds, PTL

(* The token, the vault key and the active profile of a session belong to  *)
(* one account, however commands, logins, timeouts and restarts interleave.*)
THEOREM SessionBelongsToOneAccount == Spec => []SessionIsOneAccount
<1>1. OneAccount => SessionIsOneAccount
  BY DEF OneAccount, Whole, SessionOf, SessionIsOneAccount
<1>2. QED
  BY <1>1, OneAccountHolds, PTL

-----------------------------------------------------------------------------
(* What synchronisation keeps on disk.  A queued row has the key of the    *)
(* session, or the one the file holds; a version has the account that was  *)
(* active when its page was merged; a command that will save a cursor has  *)
(* left the versions of the page before it.                                *)
Passing(c) == c # None /\ c.pc = "cursor"

SyncOf ==
  /\ outbox \subseteq {active} /\ versions \subseteq {active}
  /\ active # None /\ profile[active].cursor = 1 => active \in versions
  /\ \A t \in Tasks : Passing(cmd[t]) => device[cmd[t].dev].acc \in versions

Synced == OneAccount /\ syncKey = keyFile /\ (~mixed => SyncOf)

LEMMA SyncKeyStep ==
  ASSUME Inv, syncKey = keyFile, [Next]_vars
  PROVE  syncKey' = keyFile'
<1>1. ASSUME NEW r \in requests, Handler(r)
      PROVE  syncKey' = keyFile'
  BY <1>1, HandlerMoves DEF Ours
<1>2. ASSUME NEW a \in Accounts, OtherDesktop(a)
      PROVE  syncKey' = keyFile'
  BY <1>2, OtherDoes DEF Ours
<1>3. ASSUME NEW t \in Tasks, TaskStep(t)
      PROVE  syncKey' = keyFile'
  <2>1. CASE RefreshAnswered(t) \/ AnswerFails(t)
    BY <2>1, RefreshAnsweredDoes, AnswerFailsDoes DEF memory, disk
  <2>2. CASE Listed(t) \/ Pushed(t) \/ Pulled(t) \/ LoggedOut(t)
    BY <2>2, ServedDoes DEF memory
  <2>3. CASE SaveCursor(t) \/ ClearRefresh(t) \/ DropSession(t) \/ LocalFails(t)
    BY <2>3, LocalDoes
  <2>4. QED
    BY <1>3, <2>1, <2>2, <2>3 DEF TaskStep
<1>4. CASE AuthStep
  <2>1. CASE AuthTokens \/ AuthVault \/ AuthFails \/ Activate
    BY <2>1, AuthTokensDoes, AuthVaultDoes, AuthFailsDoes, ActivateDoes DEF memory, disk
  <2>2. CASE PersistRefresh \/ OpenSession
    BY <2>2, PersistDoes, OpenSessionDoes DEF memory, disk
  <2>3. CASE AuthDone \/ LoginFails
    BY <2>3, AuthEndDoes
  <2>4. QED
    BY <1>4, <2>1, <2>2, <2>3 DEF AuthStep
<1>5. CASE Restart
  BY <1>5, RestartDoes DEF disk
<1>6. ASSUME NEW t \in Tasks, NEW kind \in Commands, Start(t, kind)
      PROVE  syncKey' = keyFile'
  BY <1>6, StartDoes DEF memory, disk
<1>7. ASSUME NEW a \in Accounts, NEW reg \in BOOLEAN, AuthStart(a, reg)
      PROVE  syncKey' = keyFile'
  BY <1>7, AuthStartDoes DEF memory, disk
<1>8. ASSUME NEW c \in Callers, GiveUp(c)
      PROVE  syncKey' = keyFile'
  BY <1>8, GiveUpDoes DEF memory, disk
<1>9. CASE Enqueue \/ UNCHANGED vars
  BY <1>9, Zenon DEF Enqueue, vars, memory, disk
<1>10. QED
  BY <1>1, <1>2, <1>3, <1>4, <1>5, <1>6, <1>7, <1>8, <1>9 DEF Next

LEMMA SyncStays ==
  ASSUME Inv, SyncOf, Grows, active' = active,
         outbox' \subseteq outbox \cup {active},
         versions \subseteq versions', versions' \subseteq versions \cup {active},
         \/ UNCHANGED profile
         \/ active # None /\ profile'[active].cursor = profile[active].cursor
         \/ active \in versions',
         \A t \in Tasks : Passing(cmd'[t]) =>
           \/ Passing(cmd[t]) /\ cmd'[t].dev = cmd[t].dev
           \/ cmd'[t].dev \in DOMAIN device /\ device[cmd'[t].dev].acc \in versions'
  PROVE  SyncOf'
<1>1. outbox' \subseteq {active} /\ versions' \subseteq {active}
  BY DEF SyncOf
<1>2. active # None /\ profile'[active].cursor = 1 => active \in versions'
  BY DEF SyncOf
<1>3. ASSUME NEW t \in Tasks, Passing(cmd'[t])
      PROVE  device'[cmd'[t].dev].acc \in versions'
  <2>1. PICK d : d = cmd'[t].dev
    OBVIOUS
  <2>2. d \in DOMAIN device /\ device[d].acc \in versions'
    BY <1>3, <2>1 DEF Inv, Held, SyncOf, Passing
  <2>3. device'[d].acc = device[d].acc
    BY <2>2 DEF Grows
  <2>4. QED
    BY <2>1, <2>2, <2>3
<1>4. QED
  BY <1>1, <1>2, <1>3 DEF SyncOf, Passing

LEMMA SyncStep ==
  ASSUME Synced, Whole, SyncOf, [Next]_vars, ~mixed'
  PROVE  SyncOf'
<1>1. Inv /\ SessionOf /\ FileOf /\ Grows /\ syncKey = keyFile
  BY GrowsStep DEF Synced, OneAccount, Whole
<1>2. ASSUME UNCHANGED disk,
             \A t \in Tasks : Passing(cmd'[t]) => Passing(cmd[t]) /\ cmd'[t].dev = cmd[t].dev
      PROVE  SyncOf'
  BY <1>1, <1>2, SyncStays DEF disk
<1>3. CASE UNCHANGED disk /\ UNCHANGED cmd
  BY <1>2, <1>3
<1>4. ASSUME NEW t \in Tasks, NEW c, Sets(t, c), ~Passing(c)
      PROVE  \A s \in Tasks : Passing(cmd'[s]) => Passing(cmd[s]) /\ cmd'[s].dev = cmd[s].dev
  BY <1>4 DEF Sets
<1>5. ASSUME NEW t \in Tasks, FailsTo(t) \/ GoesTo(t, "clear") \/ GoesTo(t, "drop")
      PROVE  \A s \in Tasks : Passing(cmd'[s]) => Passing(cmd[s]) /\ cmd'[s].dev = cmd[s].dev
  BY <1>5, <1>4 DEF FailsTo, GoesTo, Passing
<1>6. ASSUME NEW r \in requests, Handler(r)
      PROVE  SyncOf'
  BY <1>1, <1>3, <1>6, HandlerMoves DEF Ours, disk
<1>7. ASSUME NEW b \in Accounts, OtherDesktop(b)
      PROVE  SyncOf'
  BY <1>1, <1>3, <1>7, OtherDoes DEF Ours, disk
<1>8. ASSUME NEW t \in Tasks, TaskStep(t)
      PROVE  SyncOf'
  <2>1. CASE RefreshAnswered(t)
    <3>1. UNCHANGED <<profile, active, versions>> /\ session # None
      BY <1>1, <2>1, RefreshAnsweredDoes
    <3>2. outbox' \subseteq outbox \cup {active}
      BY <1>1, <2>1, <3>1, RefreshAnsweredDoes DEF SessionOf
    <3>3. \E c : Sets(t, c) /\ ~Passing(c)
      BY <1>1, <2>1, RefreshAnsweredDoes DEF Passing
    <3>4. QED
      BY <1>1, <1>4, <3>1, <3>2, <3>3, SyncStays
  <2>2. CASE AnswerFails(t)
    BY <1>1, <1>2, <1>5, <2>2, AnswerFailsDoes
  <2>3. CASE Listed(t) \/ Pushed(t) \/ Pulled(t) \/ LoggedOut(t)
    <3>1. /\ UNCHANGED <<profile, active>> /\ cmd[t] # None /\ cmd[t].pc = "request"
          /\ \/ Sets(t, None) /\ outbox' \subseteq outbox /\ UNCHANGED versions
             \/ GoesTo(t, "clear") /\ UNCHANGED <<outbox, versions>>
             \/ /\ GoesTo(t, "cursor") /\ UNCHANGED outbox
                /\ versions' = versions \cup {device[cmd[t].dev].acc}
                /\ mixed' = (mixed \/ device[cmd[t].dev].acc # active)
      BY <1>1, <2>3, ServedDoes
    <3>2. CASE Sets(t, None) /\ outbox' \subseteq outbox /\ UNCHANGED versions
      BY <1>1, <1>4, <3>1, <3>2, SyncStays DEF Passing
    <3>3. CASE GoesTo(t, "clear") /\ UNCHANGED <<outbox, versions>>
      BY <1>1, <1>2, <1>5, <3>1, <3>3, SyncStays
    <3>4. ASSUME GoesTo(t, "cursor"), UNCHANGED outbox,
                 versions' = versions \cup {device[cmd[t].dev].acc},
                 mixed' = (mixed \/ device[cmd[t].dev].acc # active)
          PROVE  SyncOf'
      <4>1. device[cmd[t].dev].acc = active
        BY <3>4, Zenon
      <4>2. cmd[t].dev \in DOMAIN device
        BY <1>1, <3>1 DEF Inv, Held
      <4>3. \A s \in Tasks : s # t => cmd'[s] = cmd[s]
        BY <3>4 DEF GoesTo, Sets
      <4>4. cmd'[t].dev = cmd[t].dev
        BY <3>4 DEF GoesTo, Sets
      <4>5. versions' = versions \cup {active}
        BY <3>4, <4>1
      <4>6. \A s \in Tasks : Passing(cmd'[s]) =>
              \/ Passing(cmd[s]) /\ cmd'[s].dev = cmd[s].dev
              \/ cmd'[s].dev \in DOMAIN device /\ device[cmd'[s].dev].acc \in versions'
        BY <4>1, <4>2, <4>3, <4>4, <4>5
      <4>7. QED
        BY <1>1, <3>1, <3>4, <4>5, <4>6, SyncStays
    <3>5. QED
      BY <3>1, <3>2, <3>3, <3>4
  <2>4. CASE SaveCursor(t) \/ ClearRefresh(t) \/ DropSession(t) \/ LocalFails(t)
    <3>1. UNCHANGED <<active, outbox, versions>> /\ cmd[t] # None
      BY <1>1, <2>4, LocalDoes
    <3>2. Sets(t, None) \/ GoesTo(t, "drop")
      BY <1>1, <2>4, LocalDoes
    <3>3. \/ UNCHANGED profile
          \/ active # None /\ profile'[active].cursor = profile[active].cursor
          \/ active \in versions
      <4>1. \/ /\ cmd[t].pc = "cursor"
               /\ mixed' = (mixed \/ device[cmd[t].dev].acc # active)
            \/ active = None /\ UNCHANGED profile
            \/ active # None /\ \E p \in Profile :
                 Profiled(active, p) /\ p.cursor = profile[active].cursor
            \/ UNCHANGED profile
        BY <1>1, <2>4, LocalDoes
      <4>2. ASSUME cmd[t].pc = "cursor", mixed' = (mixed \/ device[cmd[t].dev].acc # active)
            PROVE  active \in versions
        <5>1. device[cmd[t].dev].acc = active
          BY <4>2, Zenon
        <5>2. QED
          BY <3>1, <4>2, <5>1 DEF SyncOf, Passing
      <4>3. active # None => active \in Accounts
        BY <1>1, ActiveFacts
      <4>4. QED
        BY <4>1, <4>2, <4>3 DEF Profiled
    <3>4. \A s \in Tasks : Passing(cmd'[s]) => Passing(cmd[s]) /\ cmd'[s].dev = cmd[s].dev
      BY <1>4, <1>5, <3>2 DEF Passing
    <3>5. QED
      BY <1>1, <3>1, <3>3, <3>4, SyncStays
  <2>5. QED
    BY <1>8, <2>1, <2>2, <2>3, <2>4 DEF TaskStep
<1>9. CASE AuthTokens \/ AuthVault \/ AuthFails
  BY <1>1, <1>3, <1>9, AuthTokensDoes, AuthVaultDoes, AuthFailsDoes
<1>10. CASE Activate
  <2>1. /\ UNCHANGED <<device, cmd>> /\ active' = auth.acc /\ auth # None /\ auth.pc = "activate"
        /\ outbox' = (IF Switched THEN {} ELSE outbox)
        /\ versions' = (IF Switched THEN {} ELSE versions)
    BY <1>1, <1>10, ActivateDoes DEF server, Advances
  <2>2. auth.acc \in Accounts
    BY <1>1, <2>1, AuthFacts DEF Inv
  <2>3. PICK x \in Profile :
          /\ Profiled(auth.acc, x)
          /\ profile[auth.acc] = None => x.cursor = 0
          /\ profile[auth.acc] # None =>
               x.cursor = IF Switched THEN 0 ELSE profile[auth.acc].cursor
    BY <1>1, <1>10, ActivateDoes
  <2>4. profile'[auth.acc] = x
    BY <2>2, <2>3 DEF Profiled
  <2>5. CASE Switched
    <3>1. ~\E t \in Tasks : cmd[t] # None /\ cmd[t].pc = "cursor"
      <4>1. mixed' = (mixed \/ (Switched /\ \E t \in Tasks : cmd[t] # None /\ cmd[t].pc = "cursor"))
        BY <1>1, <1>10, ActivateDoes
      <4>2. QED
        BY <2>5, <4>1, Zenon
    <3>2. x.cursor = 0
      BY <2>3, <2>5
    <3>3. QED
      BY <2>1, <2>4, <2>5, <3>1, <3>2 DEF SyncOf, Passing
  <2>6. CASE active = None
    <3>1. outbox = {} /\ versions = {}
      BY <1>1, <2>6, NoneFacts DEF SyncOf, Inv, TypeOK
    <3>2. ~Switched /\ profile[auth.acc] = None
      BY <1>1, <2>2, <2>6 DEF Inv, Held, Switched
    <3>3. x.cursor = 0
      BY <2>3, <3>2
    <3>4. QED
      BY <2>1, <2>4, <3>1, <3>2, <3>3 DEF SyncOf, Passing
  <2>7. CASE active = auth.acc /\ active # None
    <3>1. ~Switched
      BY <2>7 DEF Switched
    <3>2. x.cursor = profile[auth.acc].cursor
      BY <1>1, <2>3, <2>7, <3>1, ActiveFacts
    <3>3. QED
      BY <2>1, <2>4, <2>7, <3>1, <3>2 DEF SyncOf, Passing
  <2>8. QED
    BY <2>5, <2>6, <2>7 DEF Switched
<1>11. CASE PersistRefresh
  <2>1. UNCHANGED <<active, outbox, versions, cmd>> /\ auth # None /\ auth.pc = "persist"
    BY <1>1, <1>11, PersistDoes DEF Advances
  <2>2. PICK x \in Profile : Profiled(auth.acc, x) /\ x.cursor = profile[auth.acc].cursor
    BY <1>1, <1>11, PersistDoes
  <2>3. active = auth.acc /\ auth.acc \in Accounts
    BY <1>1, <2>1, AuthFacts DEF Inv, LoggingIn
  <2>4. profile'[active].cursor = profile[active].cursor /\ active # None
    BY <2>2, <2>3, NoneFacts DEF Profiled
  <2>5. QED
    BY <1>1, <2>1, <2>4, SyncStays
<1>12. CASE OpenSession
  BY <1>1, <1>3, <1>12, OpenSessionDoes
<1>13. CASE AuthDone \/ LoginFails
  <2>1. UNCHANGED <<profile, active, outbox, versions, cmd>>
    BY <1>1, <1>13, AuthEndDoes
  <2>2. QED
    BY <1>1, <2>1, SyncStays
<1>14. CASE Enqueue
  <2>1. /\ UNCHANGED <<profile, active, versions, cmd>>
        /\ outbox' = outbox \cup {EnqueueKey} /\ ~Unfiled
    BY <1>14, Zenon DEF Enqueue, tasks
  <2>2. EnqueueKey = active
    BY <1>1, <2>1 DEF EnqueueKey, SessionOf, FileOf
  <2>3. QED
    BY <1>1, <2>1, <2>2, SyncStays
<1>15. CASE Restart
  <2>1. UNCHANGED disk /\ cmd' = [t \in Tasks |-> None]
    BY <1>1, <1>15, RestartDoes
  <2>2. QED
    BY <1>2, <2>1 DEF Passing
<1>16. ASSUME NEW t \in Tasks, NEW kind \in Commands, Start(t, kind)
      PROVE  SyncOf'
  <2>1. UNCHANGED disk /\ \E c : Sets(t, c) /\ ~Passing(c)
    BY <1>1, <1>16, StartDoes DEF Passing
  <2>2. QED
    BY <1>2, <1>4, <2>1
<1>17. ASSUME NEW b \in Accounts, NEW reg \in BOOLEAN, AuthStart(b, reg)
      PROVE  SyncOf'
  BY <1>1, <1>3, <1>17, AuthStartDoes
<1>18. ASSUME NEW c \in Callers, GiveUp(c)
      PROVE  SyncOf'
  <2>1. UNCHANGED disk /\ (UNCHANGED cmd \/ (c \in Tasks /\ FailsTo(c)))
    BY <1>1, <1>18, GiveUpDoes
  <2>2. QED
    BY <1>2, <1>3, <1>5, <2>1
<1>19. CASE UNCHANGED vars
  BY <1>3, <1>19, Zenon DEF vars, tasks
<1>20. QED
  BY <1>6, <1>7, <1>8, <1>9, <1>10, <1>11, <1>12, <1>13, <1>14, <1>15, <1>16, <1>17, <1>18, <1>19
     DEF Next, AuthStep

(* What synchronisation keeps on disk is the active account's: no row      *)
(* waits under another account's key, no version is another account's, and *)
(* a saved cursor has the versions of what it passed.                      *)
THEOREM SyncStateBelongsToAccount == Spec => []SyncStateIsOfAccount
<1>1. Init => Synced
  <2>1. SUFFICES ASSUME Init PROVE Synced
    OBVIOUS
  <2>2. /\ syncKey = None /\ keyFile = None /\ active = None /\ outbox = {} /\ versions = {}
        /\ cmd = [t \in Tasks |-> None]
    BY <2>1, Zenon DEF Init
  <2>3. OneAccount
    BY <2>1, OneAccountInit
  <2>4. QED
    BY <2>2, <2>3 DEF Synced, SyncOf, Passing
<1>2. Synced /\ [Next]_vars => Synced'
  <2>1. SUFFICES ASSUME Synced, [Next]_vars PROVE Synced'
    OBVIOUS
  <2>2. OneAccount' /\ (syncKey = keyFile)'
    BY <2>1, OneAccountStep, SyncKeyStep DEF Synced, OneAccount
  <2>3. ASSUME ~mixed' PROVE SyncOf'
    <3>1. Whole /\ SyncOf
      BY <2>1, <2>3, MixedStays DEF Synced, OneAccount
    <3>2. QED
      BY <2>1, <2>3, <3>1, SyncStep
  <2>4. QED
    BY <2>2, <2>3 DEF Synced
<1>3. Synced => SyncStateIsOfAccount
  BY DEF Synced, SyncOf, SyncStateIsOfAccount
<1>4. QED
  BY <1>1, <1>2, <1>3, PTL DEF Spec

-----------------------------------------------------------------------------
(* Logging out.  A command is one of the desktop's, only one of a kind is  *)
(* under way, and as long as only one of those that end the session is,    *)
(* the session is there until it ends it: no login can come between.       *)
Ending == {"logout", "password"}

(* A hypothesis: of the two commands that end a session only one is used,  *)
(* or one command at a time.  With both under way the first may end, a     *)
(* login follow, and the second leave the new session's token on disk.     *)
SoleLogout == ~(Ending \subseteq Commands) \/ \A s, t \in Tasks : s = t

Suited(c) ==
  /\ c.kind \in Commands
  /\ c.pc \in {"clear", "drop"} => c.kind \in Ending
  /\ c.pc = "cursor" => c.kind = "pull"

Orderly ==
  /\ \A t \in Tasks : cmd[t] # None => Suited(cmd[t])
  /\ \A s, t \in Tasks :
       cmd[s] # None /\ cmd[t] # None /\ cmd[s].kind = cmd[t].kind => s = t

Proceeds(t) == cmd[t] # None /\ cmd'[t].kind = cmd[t].kind /\ Suited(cmd'[t])

LEMMA GoesToProceeds ==
  ASSUME Orderly, NEW t \in Tasks, NEW pc, GoesTo(t, pc), cmd[t] # None,
         pc \in {"clear", "drop"} => cmd[t].kind \in Ending,
         pc = "cursor" => cmd[t].kind = "pull"
  PROVE  \A s \in Tasks : cmd'[s] \in {None, cmd[s]} \/ Proceeds(s)
<1>1. PICK c \in Command : Sets(t, c) /\ c.kind = cmd[t].kind /\ c.pc = pc
  BY DEF GoesTo
<1>2. cmd'[t] = c /\ \A s \in Tasks : s # t => cmd'[s] = cmd[s]
  BY <1>1 DEF Sets
<1>3. Suited(c)
  BY <1>1 DEF Orderly, Suited
<1>4. QED
  BY <1>1, <1>2, <1>3 DEF Proceeds

LEMMA CommandsMove ==
  ASSUME Inv, Orderly, [Next]_vars
  PROVE  \/ \A t \in Tasks : cmd'[t] \in {None, cmd[t]} \/ Proceeds(t)
         \/ \E t \in Tasks, kind \in Commands : Start(t, kind)
<1> DEFINE Moves == \A t \in Tasks : cmd'[t] \in {None, cmd[t]} \/ Proceeds(t)
<1>1. SUFFICES ASSUME ~\E t \in Tasks, kind \in Commands : Start(t, kind)
               PROVE  Moves
  OBVIOUS
<1>2. UNCHANGED cmd => Moves
  OBVIOUS
<1>3. ASSUME NEW t \in Tasks, Sets(t, None)
      PROVE  Moves
  BY <1>3 DEF Sets
<1>4. ASSUME NEW t \in Tasks, cmd[t] # None, FailsTo(t)
      PROVE  Moves
  BY <1>3, <1>4, GoesToProceeds DEF FailsTo, Ending
<1>5. ASSUME NEW r \in requests, Handler(r)
      PROVE  Moves
  BY <1>2, <1>5, HandlerMoves DEF Ours
<1>6. ASSUME NEW a \in Accounts, OtherDesktop(a)
      PROVE  Moves
  BY <1>2, <1>6, OtherDoes DEF Ours
<1>7. ASSUME NEW t \in Tasks, TaskStep(t)
      PROVE  Moves
  <2>1. CASE RefreshAnswered(t)
    <3>1. cmd[t] # None
      BY <2>1, RefreshAnsweredDoes
    <3>2. \/ Sets(t, None)
          \/ \E c : Sets(t, c) /\ c.kind = cmd[t].kind /\ c.pc = "request"
      BY <2>1, RefreshAnsweredDoes
    <3>3. ASSUME NEW c, Sets(t, c), c.kind = cmd[t].kind, c.pc = "request"
          PROVE  Moves
      <4>1. cmd'[t] = c /\ \A s \in Tasks : s # t => cmd'[s] = cmd[s]
        BY <3>3 DEF Sets
      <4>2. Suited(c)
        BY <3>1, <3>3 DEF Orderly, Suited
      <4>3. QED
        BY <3>1, <3>3, <4>1, <4>2 DEF Proceeds
    <3>4. QED
      BY <1>3, <3>2, <3>3
  <2>2. CASE AnswerFails(t)
    BY <1>4, <2>2, AnswerFailsDoes
  <2>3. CASE Listed(t) \/ Pushed(t) \/ Pulled(t) \/ LoggedOut(t)
    <3>1. /\ cmd[t] # None
          /\ \/ Sets(t, None)
             \/ cmd[t].kind \in Ending /\ GoesTo(t, "clear")
             \/ cmd[t].kind = "pull" /\ GoesTo(t, "cursor")
      BY <2>3, ServedDoes DEF Ending
    <3>2. QED
      BY <1>3, <3>1, GoesToProceeds
  <2>4. CASE SaveCursor(t) \/ ClearRefresh(t) \/ DropSession(t) \/ LocalFails(t)
    <3>1. /\ cmd[t] # None
          /\ Sets(t, None) \/ (cmd[t].pc = "clear" /\ GoesTo(t, "drop"))
      BY <2>4, LocalDoes
    <3>2. cmd[t].pc = "clear" => cmd[t].kind \in Ending
      BY <3>1 DEF Orderly, Suited
    <3>3. QED
      BY <1>3, <3>1, <3>2, GoesToProceeds
  <2>5. QED
    BY <1>7, <2>1, <2>2, <2>3, <2>4 DEF TaskStep
<1>8. CASE AuthStep
  <2>1. UNCHANGED cmd
    BY <1>8, AuthTokensDoes, AuthVaultDoes, AuthFailsDoes, ActivateDoes, PersistDoes,
       OpenSessionDoes, AuthEndDoes DEF AuthStep
  <2>2. QED
    BY <1>2, <2>1
<1>9. ASSUME NEW a \in Accounts, NEW reg \in BOOLEAN, AuthStart(a, reg)
      PROVE  Moves
  BY <1>2, <1>9, AuthStartDoes
<1>10. ASSUME NEW c \in Callers, GiveUp(c)
       PROVE  Moves
  BY <1>2, <1>4, <1>10, GiveUpDoes
<1>11. CASE Restart
  BY <1>11, RestartDoes
<1>12. CASE Enqueue \/ UNCHANGED vars
  BY <1>2, <1>12, Zenon DEF Enqueue, vars, tasks
<1>13. QED
  BY <1>1, <1>5, <1>6, <1>7, <1>8, <1>9, <1>10, <1>11, <1>12 DEF Next

LEMMA OrderlyStep ==
  ASSUME Inv, Orderly, [Next]_vars
  PROVE  Orderly'
<1>1. CASE \A t \in Tasks : cmd'[t] \in {None, cmd[t]} \/ Proceeds(t)
  <2>1. \A t \in Tasks : cmd'[t] # None =>
          cmd[t] # None /\ cmd'[t].kind = cmd[t].kind /\ Suited(cmd'[t])
    BY <1>1 DEF Proceeds, Orderly
  <2>2. \A t \in Tasks : cmd'[t] # None => Suited(cmd[t])'
    BY <2>1 DEF Suited
  <2>3. QED
    BY <2>1, <2>2 DEF Orderly
<1>2. ASSUME NEW t \in Tasks, NEW kind \in Commands, Start(t, kind)
      PROVE  Orderly'
  <2>1. PICK c \in Command : Sets(t, c) /\ c.kind = kind /\ c.pc = "refresh"
    BY <1>2, StartDoes
  <2>2. \A s \in Tasks : cmd[s] # None => cmd[s].kind # kind
    BY <1>2, StartDoes
  <2>3. cmd'[t] = c /\ \A s \in Tasks : s # t => cmd'[s] = cmd[s]
    BY <2>1 DEF Sets
  <2>4. Suited(c)
    BY <2>1 DEF Suited
  <2>5. \A s \in Tasks : cmd'[s] # None => Suited(cmd'[s])
    BY <2>3, <2>4 DEF Orderly
  <2>6. \A s \in Tasks : cmd'[s] # None => Suited(cmd[s])'
    BY <2>5 DEF Suited
  <2>7. QED
    BY <2>1, <2>2, <2>3, <2>6 DEF Orderly
<1>3. QED
  BY <1>1, <1>2, CommandsMove

EndingNow(t) == cmd[t] # None /\ cmd[t].kind \in Ending

LEMMA OneEnds ==
  ASSUME SoleLogout, Orderly, NEW s \in Tasks, NEW t \in Tasks, EndingNow(s), EndingNow(t)
  PROVE  s = t
<1>1. CASE \A u, v \in Tasks : u = v
  BY <1>1
<1>2. CASE ~(Ending \subseteq Commands)
  <2>1. cmd[s].kind \in Commands /\ cmd[t].kind \in Commands
    BY DEF Orderly, Suited, EndingNow
  <2>2. cmd[s].kind = cmd[t].kind
    BY <1>2, <2>1 DEF Ending, EndingNow
  <2>3. QED
    BY <2>2 DEF Orderly, EndingNow
<1>3. QED
  BY <1>1, <1>2 DEF SoleLogout

(* A command that ends the session has it until then, and has cleared the  *)
(* token on disk before it does.                                           *)
Leaving ==
  \A t \in Tasks : EndingNow(t) =>
    /\ session # None
    /\ cmd[t].pc = "drop" /\ active # None => profile[active].cipher = None

LEMMA LeavingStays ==
  ASSUME Leaving, session # None => session' # None, active' = active,
         \/ UNCHANGED profile
         \/ active # None /\ profile'[active].cipher \in {None, profile[active].cipher},
         \A t \in Tasks : EndingNow(t)' => EndingNow(t) /\ (cmd'[t].pc = "drop" => cmd[t].pc = "drop")
  PROVE  Leaving'
BY DEF Leaving

LEMMA LeavingStep ==
  ASSUME SoleLogout, Inv, Orderly, Leaving, [Next]_vars
  PROVE  Leaving'
<1>1. ASSUME UNCHANGED <<session, profile, active>>,
             \A t \in Tasks : EndingNow(t)' =>
               EndingNow(t) /\ (cmd'[t].pc = "drop" => cmd[t].pc = "drop")
      PROVE  Leaving'
  BY <1>1, LeavingStays
<1>2. CASE UNCHANGED <<session, profile, active, cmd>>
  BY <1>1, <1>2 DEF EndingNow
<1>3. CASE session = None /\ UNCHANGED cmd
  BY <1>3 DEF Leaving, EndingNow
<1>4. ASSUME NEW t \in Tasks, NEW c, Sets(t, c), c = None \/ c.pc # "drop",
             c # None => cmd[t] # None /\ c.kind = cmd[t].kind
      PROVE  \A s \in Tasks : EndingNow(s)' =>
               EndingNow(s) /\ (cmd'[s].pc = "drop" => cmd[s].pc = "drop")
  BY <1>4 DEF Sets, EndingNow
<1>5. ASSUME NEW t \in Tasks, cmd[t] # None,
             FailsTo(t) \/ GoesTo(t, "clear") \/ GoesTo(t, "cursor")
      PROVE  \A s \in Tasks : EndingNow(s)' =>
               EndingNow(s) /\ (cmd'[s].pc = "drop" => cmd[s].pc = "drop")
  BY <1>4, <1>5 DEF FailsTo, GoesTo
<1>6. ASSUME NEW r \in requests, Handler(r)
      PROVE  Leaving'
  BY <1>2, <1>6, HandlerMoves DEF Ours
<1>7. ASSUME NEW a \in Accounts, OtherDesktop(a)
      PROVE  Leaving'
  BY <1>2, <1>7, OtherDoes DEF Ours
<1>8. ASSUME NEW t \in Tasks, TaskStep(t)
      PROVE  Leaving'
  <2>1. CASE RefreshAnswered(t)
    <3>1. UNCHANGED <<profile, active>> /\ session' # None /\ cmd[t] # None
      BY <2>1, RefreshAnsweredDoes, NoneOK
    <3>2. \E c : Sets(t, c) /\ (c = None \/ (c.pc # "drop" /\ c.kind = cmd[t].kind))
      BY <2>1, RefreshAnsweredDoes
    <3>3. \A s \in Tasks : EndingNow(s)' =>
            EndingNow(s) /\ (cmd'[s].pc = "drop" => cmd[s].pc = "drop")
      BY <1>4, <3>1, <3>2
    <3>4. QED
      BY <3>1, <3>3, LeavingStays
  <2>2. CASE AnswerFails(t)
    BY <1>1, <1>5, <2>2, AnswerFailsDoes DEF memory, disk
  <2>3. CASE Listed(t) \/ Pushed(t) \/ Pulled(t) \/ LoggedOut(t)
    <3>1. /\ UNCHANGED <<session, profile, active>> /\ cmd[t] # None
          /\ Sets(t, None) \/ GoesTo(t, "clear") \/ GoesTo(t, "cursor")
      BY <2>3, ServedDoes DEF memory
    <3>2. QED
      BY <1>1, <1>4, <1>5, <3>1
  <2>4. CASE SaveCursor(t)
    <3>1. cmd[t].pc = "cursor" /\ UNCHANGED active /\ cmd[t] # None
      BY <2>4, LocalDoes DEF SaveCursor, Local
    <3>2. Sets(t, None) /\ (session # None => session' \in Session)
          /\ \/ UNCHANGED profile
             \/ active # None /\ \E p \in Profile :
                  Profiled(active, p) /\ p.cipher = profile[active].cipher
      BY <2>4, <3>1, LocalDoes
    <3>3. active # None => profile'[active].cipher = profile[active].cipher
      BY <3>2, ActiveFacts DEF Profiled
    <3>4. QED
      BY <1>4, <3>1, <3>2, <3>3, LeavingStays, NoneOK
  <2>5. CASE ClearRefresh(t)
    <3>1. cmd[t].pc = "clear" /\ UNCHANGED <<active, session>> /\ cmd[t] # None
      BY <2>5, LocalDoes DEF ClearRefresh, Local
    <3>2. /\ GoesTo(t, "drop") /\ (active = None => UNCHANGED profile)
          /\ active # None => \E p \in Profile : Profiled(active, p) /\ p.cipher = None
      <4>1. Goto(t, "drop")
        BY <2>5, Zenon DEF ClearRefresh
      <4>2. GoesTo(t, "drop")
        BY <3>1, <4>1, GotoGoes DEF Inv
      <4>3. ~Sets(t, None)
        BY <4>2, NoneOK DEF GoesTo, Sets
      <4>4. QED
        BY <2>5, <3>1, <4>2, <4>3, LocalDoes
    <3>3. active # None => profile'[active].cipher = None
      BY <3>2, ActiveFacts DEF Profiled
    <3>4. \A s \in Tasks : EndingNow(s)' => EndingNow(s)
      BY <3>1, <3>2 DEF GoesTo, Sets, EndingNow
    <3>5. QED
      BY <3>1, <3>3, <3>4 DEF Leaving
  <2>6. CASE DropSession(t)
    <3>1. cmd[t].pc = "drop" /\ cmd[t] # None
      BY <2>6, LocalDoes DEF DropSession, Local
    <3>2. Sets(t, None)
      BY <2>6, <3>1, LocalDoes
    <3>3. EndingNow(t)
      BY <3>1 DEF Orderly, Suited, EndingNow
    <3>4. \A s \in Tasks : ~EndingNow(s)'
      BY <3>2, <3>3, OneEnds DEF Sets, EndingNow
    <3>5. QED
      BY <3>4 DEF Leaving
  <2>7. CASE LocalFails(t)
    <3>1. /\ UNCHANGED <<profile, active>> /\ Sets(t, None)
          /\ session # None => session' # None
      BY <2>7, LocalFailsDoes
    <3>2. QED
      BY <1>4, <3>1, LeavingStays
  <2>8. QED
    BY <1>8, <2>1, <2>2, <2>3, <2>4, <2>5, <2>6, <2>7 DEF TaskStep
<1>9. CASE AuthTokens \/ AuthVault \/ AuthFails
  BY <1>2, <1>9, AuthTokensDoes, AuthVaultDoes, AuthFailsDoes DEF memory, disk
<1>10. CASE Activate \/ PersistRefresh \/ OpenSession
  <2>1. UNCHANGED cmd /\ auth # None /\ auth.pc \in {"activate", "persist", "session"}
    BY <1>10, ActivateDoes, PersistDoes, OpenSessionDoes DEF Advances
  <2>2. session = None
    BY <2>1 DEF Inv, LoggingIn
  <2>3. QED
    BY <1>3, <2>1, <2>2
<1>11. CASE AuthDone \/ LoginFails
  BY <1>2, <1>11, AuthEndDoes
<1>12. CASE Restart
  BY <1>12, RestartDoes DEF Leaving, EndingNow
<1>13. ASSUME NEW t \in Tasks, NEW kind \in Commands, Start(t, kind)
       PROVE  Leaving'
  <2>1. UNCHANGED <<session, profile, active>> /\ session # None
    BY <1>13, StartDoes DEF memory, disk
  <2>2. \E c : Sets(t, c) /\ c.pc = "refresh"
    BY <1>13, StartDoes
  <2>3. \A s \in Tasks : EndingNow(s)' /\ cmd'[s].pc = "drop" => EndingNow(s) /\ cmd[s].pc = "drop"
    BY <2>2 DEF Sets, EndingNow
  <2>4. QED
    BY <2>1, <2>3 DEF Leaving
<1>14. ASSUME NEW a \in Accounts, NEW reg \in BOOLEAN, AuthStart(a, reg)
       PROVE  Leaving'
  BY <1>2, <1>14, AuthStartDoes DEF memory, disk
<1>15. ASSUME NEW c \in Callers, GiveUp(c)
       PROVE  Leaving'
  BY <1>1, <1>2, <1>5, <1>15, GiveUpDoes DEF memory, disk
<1>16. CASE Enqueue \/ UNCHANGED vars
  BY <1>2, <1>16, Zenon DEF Enqueue, vars, memory, disk, tasks
<1>17. QED
  BY <1>6, <1>7, <1>8, <1>9, <1>10, <1>11, <1>12, <1>13, <1>14, <1>15, <1>16 DEF Next, AuthStep

(* A logout ends with its last step, with the application, or because the  *)
(* database refuses to forget the token.                                   *)
LEMMA LogoutEnds ==
  ASSUME Inv, Orderly, [Next]_vars, NEW t \in Tasks, cmd[t] # None, cmd[t].kind = "logout",
         cmd[t].pc # "clear", cmd'[t] = None, ends' = ends
  PROVE  DropSession(t)
<1>1. ASSUME NEW s \in Tasks, s = t, FailsTo(s) \/ (\E pc : GoesTo(s, pc))
      PROVE  FALSE
  BY <1>1, NoneOK DEF FailsTo, GoesTo, Sets
<1>2. ASSUME NEW s \in Tasks, NEW c, Sets(s, c), s # t
      PROVE  FALSE
  BY <1>2 DEF Sets
<1>3. ASSUME NEW s \in Tasks, TaskStep(s)
      PROVE  DropSession(t)
  <2>1. s = t
    <3>1. SUFFICES \E c : Sets(s, c)
      BY <1>2
    <3>2. CASE RefreshAnswered(s)
      BY <3>2, RefreshAnsweredDoes
    <3>3. CASE AnswerFails(s)
      BY <3>3, AnswerFailsDoes DEF FailsTo, GoesTo
    <3>4. CASE Listed(s) \/ Pushed(s) \/ Pulled(s) \/ LoggedOut(s)
      BY <3>4, ServedDoes DEF GoesTo
    <3>5. CASE SaveCursor(s) \/ ClearRefresh(s) \/ DropSession(s) \/ LocalFails(s)
      BY <3>5, LocalDoes DEF GoesTo
    <3>6. QED
      BY <1>3, <3>2, <3>3, <3>4, <3>5 DEF TaskStep
  <2>2. ~RefreshAnswered(t)
    <3>1. SUFFICES ASSUME RefreshAnswered(t) PROVE FALSE
      OBVIOUS
    <3>2. \E c \in Command : Sets(t, c)
      BY <3>1, RefreshAnsweredDoes
    <3>3. QED
      BY <3>2, NoneOK DEF Sets
  <2>3. ~AnswerFails(t)
    BY <1>1, AnswerFailsDoes
  <2>4. ~Listed(t) /\ ~Pushed(t) /\ ~Pulled(t)
    BY DEF Listed, Pushed, Pulled, Served
  <2>5. ~LoggedOut(t)
    <3>1. SUFFICES ASSUME LoggedOut(t) PROVE FALSE
      OBVIOUS
    <3>2. PICK c : c = [cmd[t] EXCEPT !.pc = "clear"]
      OBVIOUS
    <3>3. cmd[t] \in Command
      BY CommandFacts DEF Inv
    <3>4. c \in Command
      BY <3>2, <3>3 DEF Command
    <3>5. cmd' = [cmd EXCEPT ![t] = c]
      BY <3>1, <3>2, Zenon DEF LoggedOut, Goto, Set
    <3>6. cmd'[t] = c
      BY <3>5 DEF Inv, TypeOK
    <3>7. QED
      BY <3>4, <3>6, NoneOK
  <2>6. ~SaveCursor(t)
    BY DEF SaveCursor, Local, Orderly, Suited
  <2>7. ~ClearRefresh(t)
    BY DEF ClearRefresh, Local
  <2>8. ~LocalFails(t)
    BY DEF LocalFails, Local, Orderly, Suited
  <2>9. QED
    BY <1>3, <2>1, <2>2, <2>3, <2>4, <2>5, <2>6, <2>7, <2>8 DEF TaskStep
<1>4. CASE UNCHANGED cmd
  BY <1>4
<1>5. ASSUME NEW r \in requests, Handler(r)
      PROVE  FALSE
  BY <1>5, HandlerMoves DEF Ours
<1>6. ASSUME NEW a \in Accounts, OtherDesktop(a)
      PROVE  FALSE
  BY <1>6, OtherDoes DEF Ours
<1>7. CASE AuthStep
  <2>1. UNCHANGED cmd
    BY <1>7, AuthTokensDoes, AuthVaultDoes, AuthFailsDoes, ActivateDoes, PersistDoes,
       OpenSessionDoes, AuthEndDoes DEF AuthStep
  <2>2. QED
    BY <2>1
<1>8. ASSUME NEW s \in Tasks, NEW kind \in Commands, Start(s, kind)
      PROVE  FALSE
  BY <1>8, StartDoes DEF Sets
<1>9. ASSUME NEW a \in Accounts, NEW reg \in BOOLEAN, AuthStart(a, reg)
      PROVE  FALSE
  BY <1>9, AuthStartDoes
<1>10. ASSUME NEW c \in Callers, GiveUp(c)
       PROVE  FALSE
  <2>1. c \in Tasks /\ FailsTo(c)
    BY <1>10, GiveUpDoes
  <2>2. c = t
    BY <2>1 DEF FailsTo, GoesTo, Sets
  <2>3. QED
    BY <1>1, <2>1, <2>2
<1>11. CASE Restart
  BY <1>11, RestartDoes
<1>12. CASE Enqueue \/ UNCHANGED vars
  BY <1>12, Zenon DEF Enqueue, vars, tasks
<1>13. QED
  BY <1>3, <1>5, <1>6, <1>7, <1>8, <1>9, <1>10, <1>11, <1>12 DEF Next

LEMMA OrderlyHolds == Spec => []Orderly
<1>1. Init => Orderly
  BY DEF Init, Orderly
<1>2. Inv /\ Orderly /\ [Next]_vars => Orderly'
  BY OrderlyStep
<1>3. QED
  BY <1>1, <1>2, InvHolds, PTL DEF Spec

LEMMA LeavingHolds ==
  ASSUME SoleLogout
  PROVE  Spec => []Leaving
<1>1. Init => Leaving
  BY DEF Init, Leaving, EndingNow
<1>2. Inv /\ Orderly /\ Leaving /\ [Next]_vars => Leaving'
  BY LeavingStep
<1>3. QED
  BY <1>1, <1>2, InvHolds, OrderlyHolds, PTL DEF Spec

(* However the server answers, if it does: a logout that returns leaves no *)
(* session, and none that the next start restores, unless the database     *)
(* refuses to forget the token; as long as no change of the password,      *)
(* which ends the session as well, runs beside it.                         *)
THEOREM LogoutIsComplete ==
  ASSUME SoleLogout
  PROVE  Spec => LogoutLeavesNothing
<1>1. Inv /\ Orderly /\ Leaving /\ [Next]_vars =>
        [\A t \in Tasks :
           (cmd[t] # None /\ cmd[t].kind = "logout" /\ cmd[t].pc # "clear"
              /\ cmd'[t] = None /\ ends' = ends) =>
             session' = None /\ (active # None => profile'[active].cipher = None)]_vars
  <2>1. SUFFICES ASSUME Inv, Orderly, Leaving, [Next]_vars, NEW t \in Tasks, cmd[t] # None,
                        cmd[t].kind = "logout", cmd[t].pc # "clear",
                        cmd'[t] = None, ends' = ends
                 PROVE  session' = None /\ (active # None => profile'[active].cipher = None)
    OBVIOUS
  <2>2. DropSession(t)
    BY <2>1, LogoutEnds
  <2>3. session' = None /\ UNCHANGED profile /\ cmd[t].pc = "drop"
    BY <2>2 DEF DropSession, Local
  <2>4. active # None => profile[active].cipher = None
    BY <2>1, <2>3 DEF Leaving, EndingNow, Ending
  <2>5. QED
    BY <2>3, <2>4
<1>2. QED
  BY <1>1, InvHolds, OrderlyHolds, LeavingHolds, PTL DEF Spec, LogoutLeavesNothing

LEMMA QueueTypes ==
  ASSUME Inv
  PROVE  \A r \in requests : /\ r \in Request /\ r.acc \in Accounts /\ r.by \in Callers \cup {None}
                             /\ r.dev \in Nat /\ r.tok \in Nat /\ r.target \in Nat
BY DEF Inv, TypeOK, Request

-----------------------------------------------------------------------------
(* Staying connected.  A token is good while the server accepts it, or its *)
(* session was ended.  Only a rotation for a command that still waits      *)
(* makes a token bad; the command is then renewing the session.            *)
Good(k) == Usable(k) \/ token[k].dev \in cut

(* An answer that carries a new token.                                     *)
Offers(c) ==
  /\ answer[c] # None /\ answer[c].ok
  /\ IF c = Auth THEN auth.pc = "tokens" ELSE cmd[c].pc = "refresh"

Renewing(t, d) ==
  /\ cmd[t] # None /\ cmd[t].pc = "refresh"
  /\ \/ \E r \in requests : r.by = t /\ At(r, "refresh", "rotated") /\ r.dev = d
     \/ answer[t] # None /\ answer[t].ok /\ answer[t].dev = d

(* Whose device is revoked, or is being, was cut off.                      *)
InCut ==
  /\ \A d \in DOMAIN device : device[d].revoked => d \in cut
  /\ \A r \in requests : At(r, "revoke", "marked") => r.target \in cut

(* An offered token is good, and nobody has it yet.                        *)
Unused ==
  \A c \in Callers : Offers(c) =>
    /\ Good(answer[c].tok)
    /\ \A b \in Callers : Offers(b) /\ answer[b].tok = answer[c].tok => b = c
    /\ \A r \in requests : r.kind = "refresh" => r.tok # answer[c].tok
    /\ session # None => session.tok # answer[c].tok
    /\ auth # None /\ auth.pc \notin {"tokens", "file"} => auth.tok # answer[c].tok

(* So is the token of a login; its device is not one the disk knows.       *)
Opening == auth # None /\ auth.pc \notin {"tokens", "file"}

Begun ==
  /\ Opening => Good(auth.tok) /\ \A r \in requests : r.kind = "refresh" => r.tok # auth.tok
  /\ \A a \in Accounts : profile[a] # None /\ profile[a].cipher # None =>
       /\ auth # None /\ auth.pc \in {"vault", "activate", "persist"} =>
             token[profile[a].cipher].dev # auth.dev
       /\ Offers(Auth) => token[profile[a].cipher].dev # answer[Auth].dev

(* A token on disk without a session: the key is not in the file, or the   *)
(* login that wrote it has not opened its session yet, or the token is of  *)
(* an earlier session, since a login named its own device and then failed. *)
Kept ==
  active # None /\ profile[active].cipher # None /\ session = None =>
    /\ auth = None \/ auth.pc \in {"tokens", "vault", "activate"} =>
         keyFile = None \/ token[profile[active].cipher].dev # profile[active].dev
    /\ auth # None => auth.pc # "file"
    /\ auth # None /\ auth.pc = "persist" => profile[active].dev = auth.dev
    /\ auth # None /\ auth.pc = "session" => profile[active].cipher = auth.tok

Stale ==
  /\ session.dev \in cut
  /\ active # None /\ profile[active].cipher = session.tok => profile[active].dev \in cut

Connected ==
  session # None =>
    /\ session.dev = token[session.tok].dev \/ session.dev \in cut
    /\ \/ Good(session.tok)
       \/ \E t \in Tasks : Renewing(t, token[session.tok].dev)
       \/ Stale

LEMMA CutGrows ==
  ASSUME Inv, [Next]_vars
  PROVE  cut \subseteq cut'
<1>1. ASSUME NEW r \in requests, Handler(r)
      PROVE  cut \subseteq cut'
  <2>1. CASE LoginVerify(r) \/ RefreshSelect(r) \/ Authorize(r) \/ PasswordVerify(r)
    BY <2>1, CheckDoes
  <2>2. CASE GetVault(r) \/ ServeRecords(r) \/ Refuse(r) \/ RegisterUser(r) \/ PutVault(r)
    BY <2>2, LookupDoes, RegisterDoes, PutDoes
  <2>3. CASE IssueTokens(r) \/ RefreshIssue(r) \/ RevokeTokens(r)
    BY <2>3, IssueDoes, ReissueDoes, RevokeTokensDoes
  <2>4. CASE RefreshRotate(r) \/ Logout(r) \/ ChangePassword(r) \/ RevokeDevice(r)
    BY <2>4, RotateDoes, LogoutDoes, ChangeDoes, RevokeDoes
  <2>5. QED
    BY <1>1, <2>1, <2>2, <2>3, <2>4 DEF Handler
<1>2. ASSUME NEW a \in Accounts, OtherDesktop(a)
      PROVE  cut \subseteq cut'
  BY <1>2, OtherDoes
<1>3. ASSUME NEW c \in Callers, GiveUp(c)
      PROVE  cut \subseteq cut'
  BY <1>3, GiveUpDoes
<1>4. CASE Restart
  BY <1>4, RestartDoes
<1>5. CASE UNCHANGED vars
  BY <1>5, Zenon DEF vars
<1>6. QED
  BY <1>1, <1>2, <1>3, <1>4, <1>5, DesktopSteps DEF Next

LEMMA GoodSpent ==
  ASSUME Inv, NEW k \in DOMAIN token, Good(k), NEW S, Spends(TokensOf(S)),
         S \subseteq cut', cut \subseteq cut',
         \A d \in DOMAIN device : device'[d] = device[d] \/ d \in cut'
  PROVE  Good(k)'
<1>1. token'[k].dev = token[k].dev /\ token[k].dev \in DOMAIN device
  BY IssuedHolds, IssuedFacts DEF Spends
<1>2. CASE token[k].dev \in cut'
  BY <1>1, <1>2 DEF Good
<1>3. CASE token[k].dev \notin cut'
  <2>1. Usable(k)
    BY <1>3 DEF Good
  <2>2. token'[k] = token[k]
    BY <1>3 DEF Spends, TokensOf
  <2>3. device'[token[k].dev] = device[token[k].dev]
    BY <1>1, <1>3
  <2>4. QED
    BY <2>1, <2>2, <2>3 DEF Good, Usable
<1>4. QED
  BY <1>2, <1>3

LEMMA GoodSame ==
  ASSUME Inv, NEW k \in DOMAIN token, Good(k), cut \subseteq cut',
         token'[k] = token[k], \A d \in DOMAIN device : device'[d] = device[d]
  PROVE  Good(k)'
<1>1. token[k].dev \in DOMAIN device
  BY IssuedHolds, IssuedFacts
<1>2. QED
  BY <1>1 DEF Good, Usable

LEMMA GoodKept ==
  ASSUME Inv, InCut, [Next]_vars, NEW k \in DOMAIN token, Good(k)
  PROVE  Good(k)' \/ \E r \in requests : r.by \in Tasks /\ RefreshRotate(r) /\ r.tok = k
<1>1. cut \subseteq cut'
  BY CutGrows
<1>2. ASSUME UNCHANGED <<device, token>>
      PROVE  Good(k)'
  BY <1>1, <1>2, GoodSame
<1>3. ASSUME NEW r \in requests, Handler(r)
      PROVE  Good(k)' \/ (r.by \in Tasks /\ RefreshRotate(r) /\ r.tok = k)
  <2>1. CASE LoginVerify(r) \/ RefreshSelect(r) \/ Authorize(r) \/ PasswordVerify(r)
    BY <1>2, <2>1, CheckDoes DEF server
  <2>2. CASE GetVault(r) \/ ServeRecords(r) \/ Refuse(r) \/ RegisterUser(r) \/ PutVault(r)
    BY <1>2, <2>2, LookupDoes, RegisterDoes, PutDoes DEF server
  <2>3. CASE IssueTokens(r)
    <3>1. \A d \in DOMAIN device : device'[d] = device[d]
      BY <2>3, IssueDoes, DeviceAdded, IssuedHolds, QueueTypes
    <3>2. token' = Append(token, [dev |-> Len(device'), live |-> TRUE]) /\ Len(device') \in Nat \ {0}
      BY <2>3, IssueDoes, DeviceAdded, IssuedHolds, QueueTypes
    <3>3. token'[k] = token[k]
      BY <3>2, TokenAdded, IssuedHolds
    <3>4. QED
      BY <1>1, <3>1, <3>3, GoodSame
  <2>4. CASE RefreshIssue(r)
    <3>1. token' = Append(token, [dev |-> r.dev, live |-> TRUE]) /\ UNCHANGED device
      BY <2>4, ReissueDoes
    <3>2. r.dev \in Nat \ {0}
      BY <2>4, ReissueDoes, IssuedHolds, IssuedFacts DEF Inv, Addressed, Names, Opened
    <3>3. token'[k] = token[k]
      BY <3>1, <3>2, TokenAdded, IssuedHolds
    <3>4. QED
      BY <1>1, <3>1, <3>3, GoodSame
  <2>5. CASE RefreshRotate(r)
    <3>1. /\ UNCHANGED device /\ Spends({r.tok}) /\ token[r.tok].dev = r.dev
          /\ cut' = (IF r.by = None THEN cut \cup {r.dev} ELSE cut) /\ r.kind = "refresh"
      BY <2>5, RotateDoes
    <3>2. CASE k # r.tok
      BY <1>1, <3>1, <3>2, GoodSame DEF Spends
    <3>3. CASE k = r.tok /\ r.by = None
      BY <3>1, <3>3 DEF Good, Spends
    <3>4. r.by \in Tasks \cup {None}
      BY <3>1, QueueTypes DEF Inv, Calls, LoginAsks, Callers
    <3>5. QED
      BY <2>5, <3>2, <3>3, <3>4
  <2>6. CASE Logout(r)
    BY <1>1, <2>6, LogoutDoes, GoodSpent
  <2>7. CASE ChangePassword(r)
    BY <1>1, <2>7, ChangeDoes, GoodSpent
  <2>8. CASE RevokeTokens(r)
    <3>1. r.target \in cut
      BY <2>8, RevokeTokensDoes DEF InCut, At
    <3>2. QED
      BY <1>1, <2>8, <3>1, RevokeTokensDoes, GoodSpent
  <2>9. CASE RevokeDevice(r)
    <3>1. /\ UNCHANGED token /\ r.target \in cut'
          /\ \A d \in DOMAIN device : d # r.target => device'[d] = device[d]
      BY <2>9, RevokeDoes
    <3>2. Spends(TokensOf({}))
      BY <3>1 DEF Spends
    <3>3. QED
      BY <1>1, <3>1, <3>2, GoodSpent
  <2>10. QED
    BY <1>3, <2>1, <2>2, <2>3, <2>4, <2>5, <2>6, <2>7, <2>8, <2>9 DEF Handler
<1>4. ASSUME NEW a \in Accounts, OtherDesktop(a)
      PROVE  Good(k)'
  <2>1. \/ /\ Spends(TokensOf(DevicesOf(a))) /\ cut' = cut \cup DevicesOf(a) /\ UNCHANGED device
        \/ \E d \in DOMAIN device :
             /\ Spends(TokensOf({d})) /\ cut' = cut \cup {d}
             /\ \A e \in DOMAIN device : e # d => device'[e] = device[e]
    BY <1>4, OtherDoes
  <2>2. CASE Spends(TokensOf(DevicesOf(a))) /\ cut' = cut \cup DevicesOf(a) /\ UNCHANGED device
    BY <1>1, <2>2, GoodSpent
  <2>3. ASSUME NEW d \in DOMAIN device, Spends(TokensOf({d})), cut' = cut \cup {d},
               \A e \in DOMAIN device : e # d => device'[e] = device[e]
        PROVE  Good(k)'
    BY <1>1, <2>3, GoodSpent
  <2>4. QED
    BY <2>1, <2>2, <2>3
<1>5. ASSUME NEW c \in Callers, GiveUp(c)
      PROVE  Good(k)'
  BY <1>2, <1>5, GiveUpDoes DEF server
<1>6. CASE Restart
  BY <1>2, <1>6, RestartDoes DEF server
<1>7. CASE UNCHANGED vars
  BY <1>2, <1>7, Zenon DEF vars, server
<1>8. UNCHANGED server => Good(k)'
  BY <1>2 DEF server
<1>9. QED
  BY <1>3, <1>4, <1>5, <1>6, <1>7, <1>8, DesktopSteps DEF Next

(* Where the requests of the next state come from: a handler moves one on, *)
(* a caller leaves one, or sends one.                                      *)
Left(q, r) == q.kind = r.kind /\ q.step = r.step /\ q.tok = r.tok /\ q.target = r.target
              /\ q.dev = r.dev

Sent(q) ==
  /\ q.step = "arrived"
  /\ q.kind = "refresh" => session # None /\ q.tok = session.tok

LEMMA RequestsAfter ==
  ASSUME Inv, [Next]_vars, NEW q \in requests'
  PROVE  \/ \E r \in requests : Left(q, r)
         \/ \E r \in requests : Handler(r) /\ MovesOn(r, q)
         \/ Sent(q)
<1> DEFINE Old == \E r \in requests : Left(q, r)
<1>1. q \in requests => Old
  BY DEF Left
<1>2. ASSUME NEW callers, Orphans(callers)
      PROVE  Old
  BY <1>1, <1>2, OrphanFacts, QueueTypes DEF Orphans, Left
<1>3. ASSUME NEW c, NEW r, Sends(c, r), Sent(r)
      PROVE  Old \/ Sent(q)
  BY <1>1, <1>3 DEF Sends
<1>4. ASSUME NEW r \in requests, Handler(r)
      PROVE  Old \/ \E s \in requests : Handler(s) /\ MovesOn(s, q)
  <2>1. CASE \E a : Replies(r, a)
    BY <1>1, <2>1 DEF Replies
  <2>2. ASSUME NEW s, MovesOn(r, s)
        PROVE  Old \/ \E u \in requests : Handler(u) /\ MovesOn(u, q)
    <3>1. q = s \/ q \in requests
      BY <2>2 DEF MovesOn
    <3>2. QED
      BY <1>1, <1>4, <2>2, <3>1
  <2>3. QED
    BY <1>4, <2>1, <2>2, HandlerMoves
<1>5. ASSUME NEW a \in Accounts, OtherDesktop(a)
      PROVE  Old
  BY <1>1, <1>5, OtherDoes
<1>6. ASSUME NEW t \in Tasks, TaskStep(t)
      PROVE  Old \/ Sent(q)
  <2>1. CASE RefreshAnswered(t)
    <3>1. cmd[t].kind # "refresh"
      BY <2>1, RefreshAnsweredDoes, CommandFacts DEF Inv, Kinds
    <3>2. UNCHANGED requests \/ \E r : Sends(t, r) /\ r.step = "arrived" /\ r.kind = cmd[t].kind
      BY <2>1, RefreshAnsweredDoes
    <3>3. QED
      BY <1>1, <1>3, <3>1, <3>2 DEF Sent
  <2>2. CASE AnswerFails(t) \/ Listed(t) \/ Pushed(t) \/ Pulled(t) \/ LoggedOut(t)
    BY <1>1, <2>2, AnswerFailsDoes, ServedDoes
  <2>3. CASE SaveCursor(t) \/ ClearRefresh(t) \/ DropSession(t) \/ LocalFails(t)
    BY <1>1, <2>3, LocalDoes
  <2>4. QED
    BY <1>6, <2>1, <2>2, <2>3 DEF TaskStep
<1>7. CASE AuthTokens
  <2>1. \E r : Sends(Auth, r) /\ r.step = "arrived" /\ r.kind # "refresh"
    BY <1>7, AuthTokensDoes
  <2>2. QED
    BY <1>3, <2>1 DEF Sent
<1>8. CASE AuthVault \/ AuthFails \/ Activate \/ PersistRefresh \/ OpenSession \/ AuthDone
           \/ LoginFails
  BY <1>1, <1>8, AuthVaultDoes, AuthFailsDoes, ActivateDoes, PersistDoes, OpenSessionDoes, AuthEndDoes
<1>9. ASSUME NEW t \in Tasks, NEW kind \in Commands, Start(t, kind)
      PROVE  Old \/ Sent(q)
  <2>1. session # None
        /\ \E r : Sends(t, r) /\ r.step = "arrived" /\ r.tok = session.tok
    BY <1>9, StartDoes
  <2>2. QED
    BY <1>3, <2>1 DEF Sent
<1>10. ASSUME NEW a \in Accounts, NEW reg \in BOOLEAN, AuthStart(a, reg)
       PROVE  Old \/ Sent(q)
  <2>1. \E r : Sends(Auth, r) /\ r.step = "arrived" /\ r.kind # "refresh"
    BY <1>10, AuthStartDoes
  <2>2. QED
    BY <1>3, <2>1 DEF Sent
<1>11. ASSUME NEW c \in Callers, GiveUp(c)
       PROVE  Old
  BY <1>2, <1>11, GiveUpDoes
<1>12. CASE Restart
  BY <1>2, <1>12, RestartDoes
<1>13. CASE Enqueue \/ UNCHANGED vars
  BY <1>1, <1>13, Zenon DEF Enqueue, vars
<1>14. QED
  BY <1>4, <1>5, <1>6, <1>7, <1>8, <1>9, <1>10, <1>11, <1>12, <1>13 DEF Next, AuthStep

(* A refresh is asked with a token that was in use.                        *)
LEMMA RefreshesAfter ==
  ASSUME Inv, [Next]_vars, NEW q \in requests', q.kind = "refresh"
  PROVE  \/ \E r \in requests : r.kind = "refresh" /\ r.tok = q.tok
         \/ session # None /\ q.tok = session.tok
BY RequestsAfter DEF Left, Sent, MovesOn, SameButStep

LEMMA InCutStep ==
  ASSUME Inv, InCut, [Next]_vars
  PROVE  InCut'
<1>1. cut \subseteq cut'
  BY CutGrows
<1>2. ASSUME NEW d \in DOMAIN device', device'[d].revoked
      PROVE  d \in cut'
  <2>1. CASE d \in DOMAIN device /\ device'[d] = device[d]
    BY <1>1, <1>2, <2>1 DEF InCut
  <2>2. ASSUME NEW r \in requests, Handler(r)
        PROVE  d \in cut'
    <3>1. CASE LoginVerify(r) \/ RefreshSelect(r) \/ Authorize(r) \/ PasswordVerify(r)
      BY <1>2, <2>1, <3>1, CheckDoes DEF server
    <3>2. CASE GetVault(r) \/ ServeRecords(r) \/ Refuse(r) \/ RegisterUser(r) \/ PutVault(r)
      BY <1>2, <2>1, <3>2, LookupDoes, RegisterDoes, PutDoes DEF server
    <3>3. CASE RefreshIssue(r) \/ RevokeTokens(r) \/ RefreshRotate(r) \/ Logout(r)
               \/ ChangePassword(r)
      BY <1>2, <2>1, <3>3, ReissueDoes, RevokeTokensDoes, RotateDoes, LogoutDoes, ChangeDoes
    <3>4. CASE IssueTokens(r)
      <4>1. /\ DOMAIN device' = DOMAIN device \cup {Len(device')}
            /\ \A e \in DOMAIN device : device'[e] = device[e]
            /\ ~device'[Len(device')].revoked
        BY <3>4, IssueDoes, DeviceAdded, IssuedHolds, QueueTypes
      <4>2. QED
        BY <1>2, <2>1, <4>1
    <3>5. CASE RevokeDevice(r)
      BY <1>2, <2>1, <3>5, RevokeDoes
    <3>6. QED
      BY <2>2, <3>1, <3>2, <3>3, <3>4, <3>5 DEF Handler
  <2>3. ASSUME NEW a \in Accounts, OtherDesktop(a)
        PROVE  d \in cut'
    BY <1>2, <2>1, <2>3, OtherDoes
  <2>4. UNCHANGED server => d \in cut'
    BY <1>2, <2>1 DEF server
  <2>5. ASSUME NEW c \in Callers, GiveUp(c)
        PROVE  d \in cut'
    BY <2>4, <2>5, GiveUpDoes
  <2>6. CASE Restart
    BY <2>4, <2>6, RestartDoes
  <2>7. CASE UNCHANGED vars
    BY <2>4, <2>7, Zenon DEF vars
  <2>8. QED
    BY <2>2, <2>3, <2>4, <2>5, <2>6, <2>7, DesktopSteps DEF Next
<1>3. ASSUME NEW q \in requests', At(q, "revoke", "marked")
      PROVE  q.target \in cut'
  <2>1. ASSUME NEW r \in requests, Left(q, r)
        PROVE  q.target \in cut'
    BY <1>1, <1>3, <2>1 DEF InCut, Left, At
  <2>2. ASSUME NEW r \in requests, Handler(r), MovesOn(r, q)
        PROVE  q.target \in cut'
    <3>1. q \in requests' /\ q.kind = r.kind /\ q.target = r.target
      BY <2>2 DEF MovesOn, SameButStep
    <3>2. CASE RevokeDevice(r)
      BY <3>1, <3>2, RevokeDoes
    <3>3. CASE \E s : MovesOn(r, s) /\ s.step # "marked"
      <4>1. PICK s : requests' = (requests \ {r}) \cup {s} /\ s.step # "marked"
        BY <3>3 DEF MovesOn
      <4>2. q \in requests
        BY <1>3, <4>1 DEF At
      <4>3. QED
        BY <1>1, <1>3, <4>2 DEF InCut
    <3>4. CASE \E a : Replies(r, a)
      BY <1>1, <1>3, <3>4 DEF InCut, Replies
    <3>5. CASE LoginVerify(r) \/ RefreshSelect(r) \/ Authorize(r) \/ PasswordVerify(r)
      BY <3>3, <3>5, CheckDoes
    <3>6. CASE RegisterUser(r) \/ RefreshRotate(r)
      BY <3>3, <3>6, RegisterDoes, RotateDoes
    <3>7. CASE GetVault(r) \/ ServeRecords(r) \/ Refuse(r) \/ PutVault(r) \/ IssueTokens(r)
               \/ RefreshIssue(r) \/ Logout(r) \/ ChangePassword(r) \/ RevokeTokens(r)
      BY <3>4, <3>7, LookupDoes, PutDoes, IssueDoes, ReissueDoes, LogoutDoes, ChangeDoes,
         RevokeTokensDoes
    <3>8. QED
      BY <2>2, <3>2, <3>5, <3>6, <3>7 DEF Handler
  <2>3. CASE Sent(q)
    BY <1>3, <2>3 DEF Sent, At
  <2>4. QED
    BY <2>1, <2>2, <2>3, RequestsAfter
<1>4. QED
  BY <1>2, <1>3 DEF InCut

(* Where the offers of the next state come from.                           *)
StillOffers(c) == Offers(c) /\ answer'[c] = answer[c]

NewlyOffers(c) ==
  /\ \E k \in DOMAIN token' \ DOMAIN token : answer'[c].tok = k /\ Good(k)'
  /\ c = Auth => answer'[c].dev \notin DOMAIN device
  /\ \A b \in Callers : b # c /\ Offers(b)' => StillOffers(b)

LEMMA OfferKinds ==
  ASSUME Inv, NEW r \in requests, r.by \in Callers,
         IF r.by = Auth THEN auth.pc = "tokens" ELSE cmd[r.by].pc = "refresh"
  PROVE  r.kind = (IF r.by # Auth THEN "refresh" ELSE IF auth.reg THEN "register" ELSE "login")
<1>1. CASE r.by = Auth
  BY <1>1 DEF Inv, Calls, LoginAsks
<1>2. CASE r.by \in Tasks
  BY <1>2, NoneFacts DEF Inv, Calls, Asks
<1>3. QED
  BY <1>1, <1>2 DEF Callers

LEMMA HandlerOffers ==
  ASSUME Inv, InCut, NEW r \in requests, Handler(r), NEW c \in Callers, Offers(c)'
  PROVE  StillOffers(c) \/ NewlyOffers(c)
<1>1. UNCHANGED <<auth, cmd>>
  BY HandlerMoves DEF Ours
<1>2. CASE answer'[c] = answer[c]
  BY <1>1, <1>2 DEF Offers, StillOffers
<1>3. ASSUME NEW a, Replies(r, a), answer'[c] # answer[c]
      PROVE  /\ r.by = c /\ answer'[c] = a
             /\ a.ok => r.kind = (IF c # Auth THEN "refresh"
                                  ELSE IF auth.reg THEN "register" ELSE "login")
             /\ \A b \in Callers : b # c /\ Offers(b)' => StillOffers(b)
  <2>1. r.by = c /\ answer'[c] = a
    BY <1>3 DEF Replies
  <2>2. \A b \in Callers : b # c => answer'[b] = answer[b]
    BY <1>3, <2>1 DEF Replies
  <2>3. \A b \in Callers : b # c /\ Offers(b)' => StillOffers(b)
    BY <1>1, <2>2 DEF Offers, StillOffers
  <2>4. IF c = Auth THEN auth.pc = "tokens" ELSE cmd[c].pc = "refresh"
    BY <1>1 DEF Offers
  <2>5. QED
    BY <2>1, <2>3, <2>4, OfferKinds
<1>4. answer'[c].ok
  BY DEF Offers
<1>5. ASSUME answer'[c] # answer[c]
      PROVE  NewlyOffers(c)
  <2>1. CASE \E q : MovesOn(r, q)
    BY <1>5, <2>1 DEF MovesOn
  <2>2. ASSUME NEW a, Replies(r, a), r.kind \notin {"refresh", "register", "login"} \/ ~a.ok
        PROVE  FALSE
    BY <1>3, <1>4, <1>5, <2>2
  <2>3. CASE IssueTokens(r)
    <3>1. PICK a : Replies(r, a) /\ a.tok = Len(token') /\ a.dev = Len(device')
      BY <2>3, IssueDoes
    <3>2. /\ Len(device') \notin DOMAIN device /\ Len(device') \in Nat \ {0}
          /\ ~device'[Len(device')].revoked
      BY <2>3, IssueDoes, DeviceAdded, IssuedHolds, QueueTypes
    <3>3. /\ Len(token') \notin DOMAIN token
          /\ token'[Len(token')].dev = Len(device') /\ token'[Len(token')].live
      BY <2>3, <3>2, IssueDoes, TokenAdded, IssuedHolds
    <3>4. answer'[c] = a /\ \A b \in Callers : b # c /\ Offers(b)' => StillOffers(b)
      BY <1>3, <1>5, <3>1
    <3>5. PICK k : k = Len(token')
      OBVIOUS
    <3>6. Good(k)'
      BY <3>2, <3>3, <3>5 DEF Good, Usable
    <3>7. k \in DOMAIN token'
      BY <2>3, <3>2, <3>5, IssueDoes, TokenAdded, IssuedHolds
    <3>8. QED
      BY <3>1, <3>2, <3>3, <3>4, <3>5, <3>6, <3>7 DEF NewlyOffers
  <2>4. CASE RefreshIssue(r)
    <3>1. PICK a : Replies(r, a) /\ a.ok /\ a.tok = Len(token') /\ a.dev = r.dev
      BY <2>4, ReissueDoes
    <3>2. UNCHANGED <<device, cut>> /\ r.kind = "refresh"
      BY <2>4, ReissueDoes
    <3>3. r.dev \in DOMAIN device /\ r.dev \in Nat \ {0}
      BY <3>2, IssuedHolds, IssuedFacts DEF Inv, Addressed, Names, Opened
    <3>4. /\ Len(token') \notin DOMAIN token
          /\ token'[Len(token')].dev = r.dev /\ token'[Len(token')].live
      BY <2>4, <3>3, ReissueDoes, TokenAdded, IssuedHolds
    <3>5. /\ answer'[c] = a /\ \A b \in Callers : b # c /\ Offers(b)' => StillOffers(b)
          /\ c # Auth
      BY <1>3, <1>5, <3>1, <3>2
    <3>6. device[r.dev].revoked => r.dev \in cut
      BY <3>3 DEF InCut
    <3>7. PICK k : k = Len(token')
      OBVIOUS
    <3>8. Good(k)'
      BY <3>2, <3>4, <3>6, <3>7 DEF Good, Usable
    <3>9. k \in DOMAIN token'
      BY <2>4, <3>3, <3>7, ReissueDoes, TokenAdded, IssuedHolds
    <3>10. QED
      BY <3>1, <3>4, <3>5, <3>7, <3>8, <3>9 DEF NewlyOffers
  <2>5. CASE LoginVerify(r) \/ RefreshSelect(r) \/ Authorize(r) \/ PasswordVerify(r)
    BY <2>1, <2>5, CheckDoes
  <2>6. CASE RegisterUser(r) \/ RefreshRotate(r) \/ RevokeDevice(r)
    BY <2>1, <2>6, RegisterDoes, RotateDoes, RevokeDoes
  <2>7. CASE GetVault(r) \/ ServeRecords(r) \/ Refuse(r)
    BY <2>2, <2>7, LookupDoes
  <2>8. CASE Logout(r) \/ ChangePassword(r) \/ RevokeTokens(r) \/ PutVault(r)
    BY <2>2, <2>8, LogoutDoes, ChangeDoes, RevokeTokensDoes, PutDoes
  <2>9. QED
    BY <2>3, <2>4, <2>5, <2>6, <2>7, <2>8 DEF Handler
<1>6. QED
  BY <1>2, <1>5

LEMMA OffersAfter ==
  ASSUME Inv, InCut, [Next]_vars, NEW c \in Callers, Offers(c)'
  PROVE  StillOffers(c) \/ NewlyOffers(c)
<1>1. answer'[c] # None
  BY DEF Offers
<1>2. ASSUME answer'[c] = answer[c], c \in Tasks => UNCHANGED cmd \/ cmd'[c] = cmd[c],
             c = Auth => UNCHANGED auth
      PROVE  StillOffers(c)
  BY <1>2 DEF Offers, StillOffers, Callers
<1>3. ASSUME NEW t \in Tasks, NEW x, Sets(t, x), c # t, answer'[c] = answer[c], UNCHANGED auth
      PROVE  StillOffers(c)
  BY <1>2, <1>3 DEF Sets
<1>4. ASSUME NEW t \in Tasks, Takes(t), NEW x, Sets(t, x), UNCHANGED auth
      PROVE  StillOffers(c)
  <2>1. c # t /\ answer'[c] = answer[c]
    BY <1>1, <1>4 DEF Takes
  <2>2. QED
    BY <1>3, <1>4, <2>1
<1>5. ASSUME NEW a \in Accounts, OtherDesktop(a)
      PROVE  StillOffers(c)
  BY <1>2, <1>5, OtherDoes DEF Ours
<1>6. ASSUME NEW t \in Tasks, TaskStep(t)
      PROVE  StillOffers(c)
  <2>1. UNCHANGED auth
    BY <1>6, DesktopSteps
  <2>2. CASE RefreshAnswered(t)
    BY <1>4, <2>1, <2>2, RefreshAnsweredDoes
  <2>3. CASE AnswerFails(t)
    BY <1>4, <2>1, <2>3, AnswerFailsDoes, GoesSets
  <2>4. CASE Listed(t) \/ Pushed(t) \/ Pulled(t) \/ LoggedOut(t)
    <3>1. Takes(t) /\ \E x : Sets(t, x)
      BY <2>4, ServedDoes DEF GoesTo
    <3>2. QED
      BY <1>4, <2>1, <3>1
  <2>5. CASE SaveCursor(t) \/ ClearRefresh(t) \/ DropSession(t) \/ LocalFails(t)
    <3>1. UNCHANGED answer /\ cmd[t].pc \in {"cursor", "clear", "drop"} /\ \E x : Sets(t, x)
      BY <2>5, LocalDoes DEF GoesTo
    <3>2. c # t
      BY <1>1, <3>1, NoRequest
    <3>3. QED
      BY <1>3, <2>1, <3>1, <3>2
  <2>6. QED
    BY <1>6, <2>2, <2>3, <2>4, <2>5 DEF TaskStep
<1>7. CASE AuthTokens \/ AuthVault \/ AuthFails
  <2>1. Takes(Auth) /\ UNCHANGED cmd
    BY <1>7, AuthTokensDoes, AuthVaultDoes, AuthFailsDoes
  <2>2. c # Auth /\ answer'[c] = answer[c]
    BY <1>1, <2>1 DEF Takes
  <2>3. QED
    BY <1>2, <2>1, <2>2
<1>8. CASE Activate \/ PersistRefresh \/ OpenSession \/ AuthDone \/ LoginFails
  <2>1. /\ UNCHANGED <<answer, cmd>> /\ auth # None
        /\ auth.pc \in {"activate", "persist", "session", "file"}
    BY <1>8, ActivateDoes, PersistDoes, OpenSessionDoes, AuthEndDoes DEF Advances
  <2>2. c # Auth
    BY <1>1, <2>1, NoRequest
  <2>3. QED
    BY <1>2, <2>1, <2>2
<1>9. ASSUME NEW t \in Tasks, NEW kind \in Commands, Start(t, kind)
      PROVE  StillOffers(c)
  <2>1. UNCHANGED <<answer, auth>> /\ cmd[t] = None /\ \E x : Sets(t, x)
    BY <1>9, StartDoes
  <2>2. c # t
    BY <1>1, <2>1, NoRequest
  <2>3. QED
    BY <1>3, <2>1, <2>2
<1>10. ASSUME NEW a \in Accounts, NEW reg \in BOOLEAN, AuthStart(a, reg)
       PROVE  StillOffers(c)
  <2>1. UNCHANGED <<answer, cmd>> /\ auth = None
    BY <1>10, AuthStartDoes
  <2>2. c # Auth
    BY <1>1, <2>1, NoRequest
  <2>3. QED
    BY <1>2, <2>1, <2>2
<1>11. ASSUME NEW b \in Callers, GiveUp(b)
       PROVE  StillOffers(c)
  <2>1. /\ Orphans({b})
        /\ \/ b = Auth /\ UNCHANGED cmd
           \/ b \in Tasks /\ FailsTo(b) /\ UNCHANGED auth
    BY <1>11, GiveUpDoes
  <2>2. c # b /\ answer'[c] = answer[c]
    BY <1>1, <2>1 DEF Orphans
  <2>3. QED
    BY <1>2, <1>3, <2>1, <2>2, GoesSets
<1>12. CASE Restart
  BY <1>1, <1>12, RestartDoes DEF Orphans
<1>13. CASE Enqueue \/ UNCHANGED vars
  BY <1>2, <1>13, Zenon DEF Enqueue, vars, tasks
<1>14. QED
  BY <1>5, <1>6, <1>7, <1>8, <1>9, <1>10, <1>11, <1>12, <1>13, HandlerOffers DEF Next, AuthStep

(* Where the token of a session comes from.                                *)
LEMMA SessionAfter ==
  ASSUME Inv, [Next]_vars, session' # None
  PROVE  \/ session # None /\ session'.tok = session.tok /\ session'.dev = session.dev
         \/ \E t \in Tasks : /\ Offers(t) /\ answer'[t] = None /\ session # None
                             /\ session'.tok = answer[t].tok /\ session'.dev = answer[t].dev
         \/ /\ Opening /\ auth.pc = "session" /\ session = None
            /\ session'.tok = auth.tok /\ session'.dev = auth.dev
         \/ Restart
<1> DEFINE Same == session # None /\ session'.tok = session.tok /\ session'.dev = session.dev
<1>1. UNCHANGED session => Same
  OBVIOUS
<1>2. ASSUME NEW r \in requests, Handler(r)
      PROVE  Same
  BY <1>1, <1>2, HandlerMoves DEF Ours
<1>3. ASSUME NEW a \in Accounts, OtherDesktop(a)
      PROVE  Same
  BY <1>1, <1>3, OtherDoes DEF Ours
<1>4. ASSUME NEW t \in Tasks, TaskStep(t), ~Same
      PROVE  /\ Offers(t) /\ answer'[t] = None /\ session # None
             /\ session'.tok = answer[t].tok /\ session'.dev = answer[t].dev
  <2>1. CASE RefreshAnswered(t)
    BY <2>1, RefreshAnsweredDoes, NoneFacts DEF Offers, Takes
  <2>2. CASE AnswerFails(t) \/ Listed(t) \/ Pushed(t) \/ Pulled(t) \/ LoggedOut(t)
    BY <1>1, <1>4, <2>2, AnswerFailsDoes, ServedDoes DEF memory
  <2>3. CASE SaveCursor(t) \/ ClearRefresh(t) \/ DropSession(t) \/ LocalFails(t)
    BY <1>1, <1>4, <2>3, LocalDoes
  <2>4. QED
    BY <1>4, <2>1, <2>2, <2>3 DEF TaskStep
<1>5. CASE OpenSession
  <2>1. auth # None /\ auth.pc = "session" /\ session'.tok = auth.tok /\ session'.dev = auth.dev
    BY <1>5, OpenSessionDoes DEF Advances
  <2>2. session = None
    BY <2>1 DEF Inv, LoggingIn
  <2>3. QED
    BY <2>1, <2>2 DEF Opening
<1>6. CASE AuthTokens \/ AuthVault \/ AuthFails \/ Activate \/ PersistRefresh \/ AuthDone
           \/ LoginFails
  BY <1>1, <1>6, AuthTokensDoes, AuthVaultDoes, AuthFailsDoes, ActivateDoes, PersistDoes,
     AuthEndDoes DEF memory
<1>7. ASSUME NEW t \in Tasks, NEW kind \in Commands, Start(t, kind)
      PROVE  Same
  BY <1>1, <1>7, StartDoes DEF memory
<1>8. ASSUME NEW a \in Accounts, NEW reg \in BOOLEAN, AuthStart(a, reg)
      PROVE  Same
  BY <1>1, <1>8, AuthStartDoes DEF memory
<1>9. ASSUME NEW c \in Callers, GiveUp(c)
      PROVE  Same
  BY <1>1, <1>9, GiveUpDoes DEF memory
<1>10. CASE Enqueue \/ UNCHANGED vars
  BY <1>1, <1>10, Zenon DEF Enqueue, vars, memory
<1>11. QED
  BY <1>2, <1>3, <1>4, <1>5, <1>6, <1>7, <1>8, <1>9, <1>10 DEF Next, AuthStep

(* Where the token of a login comes from.                                  *)
LEMMA OpeningAfter ==
  ASSUME Inv, [Next]_vars, Opening'
  PROVE  \/ /\ Opening /\ auth'.tok = auth.tok /\ auth'.dev = auth.dev
            /\ auth'.pc \in {"vault", "activate", "persist"} =>
                 auth.pc \in {"vault", "activate", "persist"}
         \/ /\ Offers(Auth) /\ answer'[Auth] = None
            /\ auth # None /\ auth.pc = "tokens"
            /\ auth'.tok = answer[Auth].tok /\ auth'.dev = answer[Auth].dev
<1>1. UNCHANGED auth => Opening
  BY DEF Opening
<1>2. ASSUME NEW r \in requests, Handler(r)
      PROVE  UNCHANGED auth
  BY <1>2, HandlerMoves DEF Ours
<1>3. ASSUME NEW a \in Accounts, OtherDesktop(a)
      PROVE  UNCHANGED auth
  BY <1>3, OtherDoes DEF Ours
<1>4. CASE AuthTokens
  <2>1. /\ auth.pc = "tokens" /\ answer[Auth] # None /\ answer[Auth].ok /\ Takes(Auth)
        /\ auth # None
        /\ \E p : auth' = p /\ p.tok = answer[Auth].tok /\ p.dev = answer[Auth].dev
    BY <1>4, AuthTokensDoes DEF Advances
  <2>2. QED
    BY <2>1, NoneFacts DEF Offers, Takes
<1>5. CASE AuthVault
  <2>1. auth # None /\ auth.pc = "vault" /\ \E p : auth' = p /\ p.tok = auth.tok /\ p.dev = auth.dev
    BY <1>5, AuthVaultDoes DEF Advances
  <2>2. QED
    BY <2>1 DEF Opening
<1>6. CASE Activate \/ PersistRefresh
  <2>1. /\ auth # None /\ auth.pc \in {"activate", "persist"}
        /\ \E p : auth' = p /\ p.tok = auth.tok /\ p.dev = auth.dev
                   /\ (p.pc = "session" \/ auth.pc = "activate")
    BY <1>6, ActivateDoes, PersistDoes DEF Advances, Keeps
  <2>2. QED
    BY <2>1 DEF Opening
<1>7. CASE AuthFails \/ OpenSession \/ AuthDone \/ LoginFails
  BY <1>7, AuthFailsDoes, OpenSessionDoes, AuthEndDoes DEF Advances, Opening
<1>8. ASSUME NEW a \in Accounts, NEW reg \in BOOLEAN, AuthStart(a, reg)
      PROVE  FALSE
  BY <1>8, AuthStartDoes DEF Begins, Opening
<1>9. ASSUME NEW c \in Callers, GiveUp(c)
      PROVE  UNCHANGED auth
  BY <1>9, GiveUpDoes DEF Opening
<1>10. CASE Restart
  BY <1>10, RestartDoes DEF Opening
<1>11. CASE Enqueue \/ UNCHANGED vars
  BY <1>1, <1>11, Zenon DEF Enqueue, vars, tasks
<1>12. QED
  BY <1>1, <1>2, <1>3, <1>4, <1>5, <1>6, <1>7, <1>8, <1>9, <1>10, <1>11, DesktopSteps
     DEF Next, AuthStep

(* Where the token of a profile comes from.                                *)
Saves(a) == /\ auth # None /\ a = auth.acc /\ auth.pc = "persist" /\ PersistRefresh
            /\ auth' # None /\ auth'.pc = "session" /\ profile'[a].cipher = auth.tok

LEMMA CipherAfter ==
  ASSUME Inv, [Next]_vars, NEW a \in Accounts, profile'[a] # None, profile'[a].cipher # None
  PROVE  \/ profile[a] # None /\ profile[a].cipher = profile'[a].cipher
         \/ Saves(a)
<1> DEFINE Same == profile[a] # None /\ profile[a].cipher = profile'[a].cipher
<1>1. UNCHANGED profile => Same
  OBVIOUS
<1>2. ASSUME NEW r \in requests, Handler(r)
      PROVE  Same
  BY <1>1, <1>2, HandlerMoves DEF Ours
<1>3. ASSUME NEW b \in Accounts, OtherDesktop(b)
      PROVE  Same
  BY <1>1, <1>3, OtherDoes DEF Ours
<1>4. ASSUME NEW t \in Tasks, TaskStep(t)
      PROVE  Same
  <2>1. CASE RefreshAnswered(t) \/ AnswerFails(t)
    BY <1>1, <2>1, RefreshAnsweredDoes, AnswerFailsDoes DEF disk
  <2>2. CASE Listed(t) \/ Pushed(t) \/ Pulled(t) \/ LoggedOut(t)
    BY <1>1, <2>2, ServedDoes
  <2>3. CASE SaveCursor(t) \/ ClearRefresh(t) \/ DropSession(t) \/ LocalFails(t)
    <3>1. \/ UNCHANGED profile
          \/ active # None /\ \E p \in Profile :
               Profiled(active, p) /\ p.cipher \in {None, profile[active].cipher}
      BY <2>3, LocalDoes
    <3>2. active # None => profile[active] # None
      BY ActiveFacts
    <3>3. QED
      BY <1>1, <3>1, <3>2 DEF Profiled
  <2>4. QED
    BY <1>4, <2>1, <2>2, <2>3 DEF TaskStep
<1>5. CASE AuthTokens \/ AuthVault \/ AuthFails \/ OpenSession \/ AuthDone \/ LoginFails
  BY <1>1, <1>5, AuthTokensDoes, AuthVaultDoes, AuthFailsDoes, OpenSessionDoes, AuthEndDoes DEF disk
<1>6. CASE Activate
  <2>1. PICK x \in Profile :
          /\ Profiled(auth.acc, x)
          /\ profile[auth.acc] = None => x.cipher = None
          /\ profile[auth.acc] # None => x.cipher = profile[auth.acc].cipher
    BY <1>6, ActivateDoes
  <2>2. QED
    BY <2>1 DEF Profiled
<1>7. CASE PersistRefresh
  <2>1. PICK x \in Profile : Profiled(auth.acc, x) /\ x.cipher = auth.tok
    BY <1>7, PersistDoes
  <2>2. auth # None /\ auth.pc = "persist" /\ auth' # None /\ auth'.pc = "session"
    BY <1>7, PersistDoes, NoneOK DEF Advances
  <2>3. QED
    BY <1>7, <2>1, <2>2 DEF Profiled, Saves
<1>8. ASSUME NEW t \in Tasks, NEW kind \in Commands, Start(t, kind)
      PROVE  Same
  BY <1>1, <1>8, StartDoes DEF disk
<1>9. ASSUME NEW b \in Accounts, NEW reg \in BOOLEAN, AuthStart(b, reg)
      PROVE  Same
  BY <1>1, <1>9, AuthStartDoes DEF disk
<1>10. ASSUME NEW c \in Callers, GiveUp(c)
       PROVE  Same
  BY <1>1, <1>10, GiveUpDoes DEF disk
<1>11. CASE Restart
  BY <1>1, <1>11, RestartDoes DEF disk
<1>12. CASE Enqueue \/ UNCHANGED vars
  BY <1>1, <1>12, Zenon DEF Enqueue, vars, disk
<1>13. QED
  BY <1>2, <1>3, <1>4, <1>5, <1>6, <1>7, <1>8, <1>9, <1>10, <1>11, <1>12 DEF Next, AuthStep

Spendable == InCut /\ Unused /\ Begun

LEMMA IssuedTokens ==
  ASSUME Inv
  PROVE  /\ session # None => session.tok \in DOMAIN token
         /\ Opening => auth.tok \in DOMAIN token /\ token[auth.tok].dev = auth.dev
         /\ \A r \in requests : r.kind = "refresh" => r.tok \in DOMAIN token
         /\ \A c \in Callers : Offers(c) =>
              answer[c].tok \in DOMAIN token /\ token[answer[c].tok].dev = answer[c].dev
         /\ \A a \in Accounts : profile[a] # None /\ profile[a].cipher # None =>
              profile[a].cipher \in DOMAIN token /\ token[profile[a].cipher].dev \in DOMAIN device
<1>1. \A c \in Callers : Offers(c) =>
        answer[c].tok \in DOMAIN token /\ token[answer[c].tok].dev = answer[c].dev
  BY DEF Inv, Granted, Grants, Offers, Callers
<1>2. \A r \in requests : r.kind = "refresh" => r.tok \in DOMAIN token
  BY DEF Inv, Addressed, Names
<1>3. \A a \in Accounts : profile[a] # None /\ profile[a].cipher # None =>
        profile[a].cipher \in DOMAIN token
  BY DEF Inv, Held, ProfileOf
<1>4. QED
  BY <1>1, <1>2, <1>3, IssuedHolds, IssuedFacts DEF Inv, Held, LoggingIn, Grants, Opening

(* A token nobody asked to refresh stays good.                             *)
LEMMA UnaskedStays ==
  ASSUME Inv, InCut, [Next]_vars, NEW k \in DOMAIN token, Good(k),
         \A r \in requests : r.kind = "refresh" => r.tok # k
  PROVE  Good(k)'
BY GoodKept, RotateDoes

LEMMA UnusedStep ==
  ASSUME Inv, Spendable, [Next]_vars
  PROVE  Unused'
<1>1. InCut /\ Unused /\ Begun
  BY DEF Spendable
<1>2. SUFFICES ASSUME NEW c \in Callers, Offers(c)', NEW k, k = answer'[c].tok
               PROVE  /\ Good(k)'
                      /\ \A b \in Callers : Offers(b)' /\ answer'[b].tok = k => b = c
                      /\ \A r \in requests' : r.kind = "refresh" => r.tok # k
                      /\ session' # None => session'.tok # k
                      /\ Opening' => auth'.tok # k
  BY DEF Unused, Opening
<1>3. CASE StillOffers(c)
  <2>1. /\ k = answer[c].tok /\ k \in DOMAIN token /\ Good(k)
        /\ \A r \in requests : r.kind = "refresh" => r.tok # k
        /\ session # None => session.tok # k
        /\ Opening => auth.tok # k
        /\ \A b \in Callers : Offers(b) /\ answer[b].tok = k => b = c
        /\ answer'[c] = answer[c] /\ answer[c] # None
    BY <1>1, <1>2, <1>3, IssuedTokens DEF Unused, StillOffers, Opening, Offers
  <2>2. Good(k)'
    BY <1>1, <2>1, UnaskedStays
  <2>3. ASSUME NEW b \in Callers, Offers(b)', answer'[b].tok = k
        PROVE  b = c
    BY <1>1, <2>1, <2>3, OffersAfter DEF StillOffers, NewlyOffers
  <2>4. \A r \in requests' : r.kind = "refresh" => r.tok # k
    BY <2>1, RefreshesAfter
  <2>5. session' # None => session'.tok # k
    <3>1. SUFFICES ASSUME session' # None PROVE session'.tok # k
      OBVIOUS
    <3>2. ~Restart
      BY <2>1, RestartDoes DEF Orphans
    <3>3. \A t \in Tasks : Offers(t) /\ answer'[t] = None => answer[t].tok # k
      BY <2>1, NoneFacts
    <3>4. QED
      BY <2>1, <3>1, <3>2, <3>3, SessionAfter
  <2>6. Opening' => auth'.tok # k
    <3>1. Offers(Auth) /\ answer'[Auth] = None => answer[Auth].tok # k
      BY <2>1, NoneFacts
    <3>2. QED
      BY <2>1, <3>1, OpeningAfter
  <2>7. QED
    BY <2>2, <2>3, <2>4, <2>5, <2>6
<1>4. CASE NewlyOffers(c)
  <2>1. /\ k \notin DOMAIN token /\ Good(k)'
        /\ \A b \in Callers : b # c /\ Offers(b)' => StillOffers(b)
    BY <1>2, <1>4 DEF NewlyOffers
  <2>2. \A b \in Callers : Offers(b)' /\ answer'[b].tok = k => b = c
    BY <2>1, IssuedTokens DEF StillOffers
  <2>3. \A r \in requests' : r.kind = "refresh" => r.tok # k
    BY <2>1, RefreshesAfter, IssuedTokens
  <2>4. session' # None => session'.tok # k
    <3>1. SUFFICES ASSUME session' # None PROVE session'.tok # k
      OBVIOUS
    <3>2. ~Restart
      BY <1>2, RestartDoes DEF Orphans, Offers
    <3>3. QED
      BY <2>1, <3>1, <3>2, SessionAfter, IssuedTokens, NoneFacts
  <2>5. Opening' => auth'.tok # k
    BY <2>1, OpeningAfter, IssuedTokens, NoneFacts
  <2>6. QED
    BY <2>1, <2>2, <2>3, <2>4, <2>5
<1>5. QED
  BY <1>1, <1>2, <1>3, <1>4, OffersAfter

LEMMA OpeningStep ==
  ASSUME Inv, Spendable, [Next]_vars, Opening'
  PROVE  /\ Good(auth.tok)'
         /\ \A r \in requests' : r.kind = "refresh" => r.tok # auth'.tok
<1>1. InCut /\ Unused /\ Begun
  BY DEF Spendable
<1>2. PICK k : k = auth'.tok
  OBVIOUS
<1>3. session = None
  <2>1. auth # None /\ auth.pc # "file"
    BY OpeningAfter DEF Opening
  <2>2. QED
    BY <2>1 DEF Inv, LoggingIn
<1>4. Good(k) /\ k \in DOMAIN token /\ \A r \in requests : r.kind = "refresh" => r.tok # k
  <2>1. CASE Opening /\ k = auth.tok
    BY <1>1, <2>1, IssuedTokens DEF Begun
  <2>2. CASE Offers(Auth) /\ k = answer[Auth].tok
    BY <1>1, <2>2, IssuedTokens, NoneFacts DEF Unused
  <2>3. QED
    BY <1>2, <2>1, <2>2, OpeningAfter
<1>5. Good(k)'
  BY <1>1, <1>4, UnaskedStays
<1>6. \A r \in requests' : r.kind = "refresh" => r.tok # k
  BY <1>3, <1>4, RefreshesAfter
<1>7. QED
  BY <1>2, <1>5, <1>6 DEF Good, Usable

LEMMA BegunStep ==
  ASSUME Inv, Spendable, [Next]_vars
  PROVE  Begun'
<1>1. InCut /\ Unused /\ Begun /\ Grows
  BY GrowsStep DEF Spendable
<1>2. SUFFICES ASSUME NEW a \in Accounts, profile'[a] # None, profile'[a].cipher # None,
                      NEW k, k = profile'[a].cipher
               PROVE  /\ auth' # None /\ auth'.pc \in {"vault", "activate", "persist"} =>
                            token'[k].dev # auth'.dev
                      /\ Offers(Auth)' => token'[k].dev # answer'[Auth].dev
  BY OpeningStep DEF Begun
<1>3. CASE Saves(a)
  <2>1. auth' # None /\ auth'.pc = "session"
    BY <1>3 DEF Saves
  <2>2. QED
    BY <2>1 DEF Offers
<1>4. CASE profile[a] # None /\ profile[a].cipher = k
  <2>1. /\ k \in DOMAIN token /\ token'[k].dev = token[k].dev /\ token[k].dev \in DOMAIN device
        /\ auth # None /\ auth.pc \in {"vault", "activate", "persist"} =>
             token[k].dev # auth.dev
        /\ Offers(Auth) => token[k].dev # answer[Auth].dev
    BY <1>1, <1>2, <1>4, IssuedTokens DEF Begun, Grows
  <2>2. ASSUME auth' # None, auth'.pc \in {"vault", "activate", "persist"}
        PROVE  token'[k].dev # auth'.dev
    <3>1. Opening'
      BY <2>2 DEF Opening
    <3>2. QED
      BY <2>1, <2>2, <3>1, OpeningAfter DEF Opening
  <2>3. Offers(Auth)' => token'[k].dev # answer'[Auth].dev
    BY <1>1, <2>1, OffersAfter, NoneFacts DEF StillOffers, NewlyOffers
  <2>4. QED
    BY <2>2, <2>3
<1>5. QED
  BY <1>2, <1>3, <1>4, CipherAfter

LEMMA SpendableHolds == Spec => []Spendable
<1>1. Init => Spendable
  <2>1. SUFFICES ASSUME Init PROVE Spendable
    OBVIOUS
  <2>2. session = None /\ auth = None /\ requests = {} /\ device = <<>>
    BY <2>1, Zenon DEF Init
  <2>3. answer = [c \in Callers |-> None] /\ profile = [a \in Accounts |-> None]
    BY <2>1, Zenon DEF Init
  <2>4. (\A c \in Callers : ~Offers(c)) /\ Auth \in Callers
    BY <2>3, NoneFacts DEF Offers
  <2>5. InCut
    BY <2>2 DEF InCut
  <2>6. QED
    BY <2>2, <2>3, <2>4, <2>5 DEF Spendable, Unused, Begun, Opening
<1>2. Inv /\ Spendable /\ [Next]_vars => Spendable'
  BY InCutStep, UnusedStep, BegunStep DEF Spendable
<1>3. QED
  BY <1>1, <1>2, InvHolds, PTL DEF Spec

LEMMA KeptToken ==
  ASSUME Inv, Grows, active # None, profile[active].cipher # None
  PROVE  token'[profile[active].cipher].dev = token[profile[active].cipher].dev
BY ActiveFacts, IssuedTokens DEF Grows

LEMMA KeptStays ==
  ASSUME Inv, Grows, Kept, UNCHANGED <<active, keyFile, auth>>, session' = None => session = None,
         active # None /\ profile'[active].cipher # None =>
           /\ profile'[active].cipher = profile[active].cipher
           /\ profile'[active].dev = profile[active].dev
  PROVE  Kept'
BY KeptToken DEF Kept

LEMMA KeptStep ==
  ASSUME SoleLogout, Inv, Orderly, Leaving, Spendable, Kept, [Next]_vars
  PROVE  Kept'
<1>0. Grows
  BY GrowsStep
<1>1. CASE UNCHANGED <<session, profile, active, keyFile, auth>>
  BY <1>0, <1>1, KeptStays
<1>2. ASSUME NEW r \in requests, Handler(r)
      PROVE  Kept'
  BY <1>1, <1>2, HandlerMoves DEF Ours
<1>3. ASSUME NEW a \in Accounts, OtherDesktop(a)
      PROVE  Kept'
  BY <1>1, <1>3, OtherDoes DEF Ours
<1>4. ASSUME NEW t \in Tasks, TaskStep(t)
      PROVE  Kept'
  <2>1. CASE RefreshAnswered(t)
    <3>1. UNCHANGED <<active, keyFile, auth, profile>> /\ session # None
      BY <2>1, RefreshAnsweredDoes
    <3>2. session' # None
      BY <2>1, RefreshAnsweredDoes, NoneOK
    <3>3. QED
      BY <1>0, <3>1, <3>2, KeptStays
  <2>2. CASE AnswerFails(t) \/ Listed(t) \/ Pushed(t) \/ Pulled(t) \/ LoggedOut(t)
    BY <1>1, <2>2, AnswerFailsDoes, ServedDoes DEF memory, disk
  <2>3. CASE SaveCursor(t) \/ ClearRefresh(t) \/ DropSession(t) \/ LocalFails(t)
    <3>1. UNCHANGED <<active, keyFile, auth>> /\ cmd[t] # None
      BY <2>3, LocalDoes
    <3>2. active # None /\ profile'[active].cipher # None =>
           /\ profile'[active].cipher = profile[active].cipher
           /\ profile'[active].dev = profile[active].dev
      <4>1. \/ UNCHANGED profile
            \/ active # None /\ \E p \in Profile :
                 /\ Profiled(active, p) /\ p.dev = profile[active].dev
                 /\ p.cipher \in {None, profile[active].cipher}
        BY <2>3, LocalDoes
      <4>2. active # None => active \in Accounts
        BY ActiveFacts
      <4>3. QED
        BY <4>1, <4>2 DEF Profiled
    <3>3. CASE session' = None => session = None
      BY <1>0, <3>1, <3>2, <3>3, KeptStays
    <3>4. CASE session' = None /\ session # None
      <4>1. cmd[t].pc = "drop" /\ UNCHANGED profile
        <5>1. \/ session' \in Session
              \/ UNCHANGED session
              \/ cmd[t].pc = "drop" /\ UNCHANGED profile
          BY <2>3, <3>4, LocalDoes
        <5>2. QED
          BY <3>4, <5>1, NoneOK
      <4>2. EndingNow(t)
        BY <3>1, <4>1 DEF Orderly, Suited, EndingNow
      <4>3. active # None => profile[active].cipher = None
        BY <4>1, <4>2 DEF Leaving
      <4>4. QED
        BY <3>1, <4>1, <4>3 DEF Kept
    <3>5. QED
      BY <3>3, <3>4
  <2>4. QED
    BY <1>4, <2>1, <2>2, <2>3 DEF TaskStep
<1>5. CASE AuthTokens \/ AuthVault \/ AuthFails
  <2>1. UNCHANGED <<session, profile, active, keyFile>> /\ auth # None
        /\ auth.pc \in {"tokens", "vault"}
        /\ (auth' = None \/ auth'.pc \in {"tokens", "vault", "activate"})
    BY <1>5, AuthTokensDoes, AuthVaultDoes, AuthFailsDoes DEF memory, disk, Advances
  <2>2. QED
    BY <1>0, <2>1, KeptToken DEF Kept
<1>6. CASE Activate
  <2>1. /\ auth # None /\ auth' # None /\ auth'.pc = "persist" /\ active' = auth.acc
        /\ auth'.dev = auth.dev
    BY <1>6, ActivateDoes, NoneOK DEF Advances, Keeps
  <2>2. PICK x \in Profile : Profiled(auth.acc, x) /\ x.dev = auth.dev
    BY <1>6, ActivateDoes
  <2>3. profile'[auth.acc].dev = auth.dev
    BY <2>1, <2>2, AuthFacts DEF Profiled, Inv
  <2>4. QED
    BY <2>1, <2>3 DEF Kept
<1>7. CASE PersistRefresh
  <2>1. /\ auth # None /\ auth' # None /\ auth'.pc = "session" /\ UNCHANGED active
        /\ auth'.tok = auth.tok /\ auth.pc = "persist"
    BY <1>7, PersistDoes, NoneOK DEF Advances, Keeps
  <2>2. active = auth.acc /\ auth.acc \in Accounts
    BY <2>1, AuthFacts DEF Inv, LoggingIn
  <2>3. profile'[auth.acc].cipher = auth.tok
    BY <1>7, <2>2, PersistDoes DEF Profiled
  <2>4. QED
    BY <2>1, <2>2, <2>3 DEF Kept
<1>8. CASE OpenSession
  <2>1. session' # None
    BY <1>8, OpenSessionDoes, NoneOK
  <2>2. QED
    BY <2>1 DEF Kept
<1>9. CASE AuthDone \/ LoginFails
  <2>1. UNCHANGED <<session, profile, active>> /\ auth # None /\ auth' = None
    BY <1>9, AuthEndDoes
  <2>2. CASE auth.pc = "file"
    BY <2>1, <2>2 DEF Kept
  <2>3. CASE auth.pc \in {"activate", "persist"} /\ UNCHANGED keyFile
    <3>1. SUFFICES ASSUME active # None, profile[active].cipher # None, session = None
                   PROVE  keyFile = None
                            \/ token[profile[active].cipher].dev # profile[active].dev
      BY <1>0, <2>1, <2>3, KeptToken DEF Kept
    <3>2. CASE auth.pc = "activate"
      BY <2>1, <3>1, <3>2 DEF Kept
    <3>3. CASE auth.pc = "persist"
      <4>1. profile[active].dev = auth.dev
        BY <2>1, <3>1, <3>3 DEF Kept
      <4>2. token[profile[active].cipher].dev # auth.dev
        BY <2>1, <3>1, <3>3, ActiveFacts DEF Spendable, Begun
      <4>3. QED
        BY <4>1, <4>2
    <3>4. QED
      BY <2>3, <3>2, <3>3
  <2>4. QED
    BY <1>9, <2>2, <2>3, AuthEndDoes
<1>10. CASE Restart
  <2>1. UNCHANGED <<profile, active, keyFile>> /\ auth' = None
        /\ (session' = None => active = None \/ keyFile = None \/ profile[active].cipher = None)
    BY <1>10, RestartDoes DEF disk
  <2>2. QED
    BY <1>0, <2>1, KeptToken DEF Kept
<1>11. ASSUME NEW t \in Tasks, NEW kind \in Commands, Start(t, kind)
       PROVE  Kept'
  BY <1>1, <1>11, StartDoes DEF memory, disk
<1>12. ASSUME NEW a \in Accounts, NEW reg \in BOOLEAN, AuthStart(a, reg)
       PROVE  Kept'
  <2>1. UNCHANGED <<session, profile, active, keyFile>> /\ auth = None /\ auth'.pc = "tokens"
    BY <1>12, AuthStartDoes DEF memory, disk, Begins
  <2>2. QED
    BY <1>0, <2>1, KeptToken DEF Kept
<1>13. ASSUME NEW c \in Callers, GiveUp(c)
       PROVE  Kept'
  <2>1. /\ UNCHANGED <<session, profile, active, keyFile>>
        /\ \/ UNCHANGED auth
           \/ auth # None /\ auth.pc \in {"tokens", "vault"} /\ auth' = None
    BY <1>13, GiveUpDoes DEF memory, disk
  <2>2. QED
    BY <1>0, <2>1, KeptToken DEF Kept
<1>14. CASE Enqueue \/ UNCHANGED vars
  BY <1>1, <1>14, Zenon DEF Enqueue, vars, memory, disk, tasks
<1>15. QED
  BY <1>2, <1>3, <1>4, <1>5, <1>6, <1>7, <1>8, <1>9, <1>10, <1>11, <1>12, <1>13, <1>14
     DEF Next, AuthStep

(* A command that renews the session goes on, ends the wait with the new   *)
(* token, or the session was ended by the loss of it.                      *)
LEMMA RenewingAfter ==
  ASSUME Inv, [Next]_vars, NEW t \in Tasks, NEW d, Renewing(t, d)
  PROVE  \/ Renewing(t, d)'
         \/ d \in cut'
         \/ session' = None
         \/ Offers(t) /\ session' # None /\ session'.tok = answer[t].tok /\ answer'[t] = None
         \/ Restart
<1>1. cmd[t] # None /\ cmd[t].pc = "refresh"
  BY DEF Renewing
<1>2. ASSUME UNCHANGED requests \/ \E c, q : Sends(c, q), answer'[t] = answer[t], cmd'[t] = cmd[t]
      PROVE  Renewing(t, d)'
  BY <1>2 DEF Renewing, Sends
<1>3. ASSUME NEW r \in requests, Handler(r)
      PROVE  Renewing(t, d)' \/ d \in cut'
  <2>1. UNCHANGED cmd
    BY <1>3, HandlerMoves DEF Ours
  <2>2. CASE answer[t] # None /\ answer[t].ok /\ answer[t].dev = d
    <3>1. r.by # t
      BY <2>2, NoRequest, NoneFacts
    <3>2. answer'[t] = answer[t]
      BY <1>3, <3>1, HandlerMoves, NoneFacts DEF MovesOn, Replies
    <3>3. QED
      BY <1>1, <2>1, <2>2, <3>2 DEF Renewing
  <2>3. ASSUME NEW s \in requests, s.by = t, At(s, "refresh", "rotated"), s.dev = d
        PROVE  Renewing(t, d)'
    <3>1. CASE s # r
      <4>1. s \in requests'
        BY <1>3, <3>1, HandlerMoves DEF MovesOn, Replies
      <4>2. QED
        BY <1>1, <2>1, <2>3, <4>1 DEF Renewing
    <3>2. CASE s = r
      <4>1. RefreshIssue(r)
        BY <1>3, <2>3, <3>2
           DEF Handler, At, RegisterUser, LoginVerify, IssueTokens, RefreshSelect, RefreshRotate,
               Authorize, TwoSteps, Authorized, Logout, PasswordVerify, ChangePassword,
               RevokeDevice, RevokeTokens, PutVault, GetVault, ServeRecords, Refuse, Refused,
               NeedsAccess
      <4>2. \E a : Replies(r, a) /\ a.ok /\ a.dev = r.dev
        BY <4>1, ReissueDoes
      <4>3. answer'[t] # None /\ answer'[t].ok /\ answer'[t].dev = d
        BY <2>3, <3>2, <4>2, NoneFacts, NoneOK DEF Replies
      <4>4. QED
        BY <1>1, <2>1, <4>3 DEF Renewing
    <3>3. QED
      BY <3>1, <3>2
  <2>4. QED
    BY <2>2, <2>3 DEF Renewing
<1>4. ASSUME NEW a \in Accounts, OtherDesktop(a)
      PROVE  Renewing(t, d)'
  BY <1>2, <1>4, OtherDoes DEF Ours
<1>5. ASSUME NEW s \in Tasks, TaskStep(s)
      PROVE  \/ Renewing(t, d)' \/ session' = None
             \/ Offers(t) /\ session' # None /\ session'.tok = answer[t].tok /\ answer'[t] = None
  <2>1. Queues
    BY <1>5, DesktopSteps
  <2>2. CASE s # t
    <3>1. (UNCHANGED answer \/ Takes(s)) /\ \E x : Sets(s, x)
      <4>1. CASE RefreshAnswered(s)
        BY <4>1, RefreshAnsweredDoes
      <4>2. CASE AnswerFails(s)
        BY <4>2, AnswerFailsDoes, GoesSets
      <4>3. CASE Listed(s) \/ Pushed(s) \/ Pulled(s) \/ LoggedOut(s)
        BY <4>3, ServedDoes, GoesSets
      <4>4. CASE SaveCursor(s) \/ ClearRefresh(s) \/ DropSession(s) \/ LocalFails(s)
        BY <4>4, LocalDoes, GoesSets
      <4>5. QED
        BY <1>5, <4>1, <4>2, <4>3, <4>4 DEF TaskStep
    <3>2. answer'[t] = answer[t] /\ cmd'[t] = cmd[t]
      BY <2>2, <3>1, NoneFacts DEF Takes, Sets
    <3>3. QED
      BY <1>2, <2>1, <3>2 DEF Queues
  <2>3. CASE s = t
    <3>1. CASE RefreshAnswered(t)
      <4>1. /\ answer[t] # None /\ answer[t].ok /\ session' \in Session
            /\ session'.tok = answer[t].tok /\ Takes(t)
        BY <3>1, RefreshAnsweredDoes
      <4>2. Offers(t) /\ answer'[t] = None
        BY <1>1, <4>1, NoneFacts DEF Offers, Takes
      <4>3. QED
        BY <4>1, <4>2, NoneOK
    <3>2. CASE AnswerFails(t)
      <4>1. Fails(t) /\ answer[t] # None /\ UNCHANGED session
        BY <3>2, AnswerFailsDoes DEF memory
      <4>2. \A r \in requests : r.by # t
        BY <4>1, NoRequest, NoneFacts
      <4>3. answer[t].ok
        BY <4>2 DEF Renewing
      <4>4. session = None
        BY <1>1, <4>1, <4>3 DEF Fails
      <4>5. QED
        BY <4>1, <4>4
    <3>3. CASE Listed(t) \/ Pushed(t) \/ Pulled(t) \/ LoggedOut(t)
      BY <1>1, <3>3, ServedDoes
    <3>4. CASE SaveCursor(t) \/ ClearRefresh(t) \/ DropSession(t) \/ LocalFails(t)
      BY <1>1, <3>4, LocalDoes
    <3>5. QED
      BY <1>5, <2>3, <3>1, <3>2, <3>3, <3>4 DEF TaskStep
  <2>4. QED
    BY <2>2, <2>3
<1>6. CASE AuthStep
  <2>1. Queues /\ UNCHANGED cmd
    BY <1>6, DesktopSteps
  <2>2. UNCHANGED answer \/ Takes(Auth)
    BY <1>6, AuthTokensDoes, AuthVaultDoes, AuthFailsDoes, ActivateDoes, PersistDoes,
       OpenSessionDoes, AuthEndDoes DEF AuthStep
  <2>3. answer'[t] = answer[t]
    BY <2>2, NoneFacts DEF Takes
  <2>4. QED
    BY <1>2, <2>1, <2>3 DEF Queues
<1>7. ASSUME NEW s \in Tasks, NEW kind \in Commands, Start(s, kind)
      PROVE  Renewing(t, d)'
  <2>1. Queues /\ UNCHANGED answer /\ cmd[s] = None /\ \E x : Sets(s, x)
    BY <1>7, StartDoes, DesktopSteps
  <2>2. cmd'[t] = cmd[t]
    BY <1>1, <2>1 DEF Sets
  <2>3. QED
    BY <1>2, <2>1, <2>2 DEF Queues
<1>8. ASSUME NEW a \in Accounts, NEW reg \in BOOLEAN, AuthStart(a, reg)
      PROVE  Renewing(t, d)'
  <2>1. Queues /\ UNCHANGED <<answer, cmd>>
    BY <1>8, AuthStartDoes, DesktopSteps
  <2>2. QED
    BY <1>2, <2>1 DEF Queues
<1>9. ASSUME NEW c \in Callers, GiveUp(c)
      PROVE  Renewing(t, d)' \/ d \in cut'
  <2>1. /\ Orphans({c}) /\ cut' = cut \cup LostRefresh(c)
        /\ \/ c = Auth /\ UNCHANGED cmd
           \/ c \in Tasks /\ FailsTo(c)
    BY <1>9, GiveUpDoes
  <2>2. CASE c = t
    BY <1>1, <2>1, <2>2, LostFacts DEF Renewing
  <2>3. CASE c # t
    <3>1. answer'[t] = answer[t] /\ cmd'[t] = cmd[t]
      BY <2>1, <2>3, NoneFacts, GoesSets DEF Orphans, Sets
    <3>2. \A r \in requests : r.by = t => r \in requests'
      BY <1>9, <2>3, Zenon DEF GiveUp, Abandon
    <3>3. QED
      BY <3>1, <3>2 DEF Renewing
  <2>4. QED
    BY <2>2, <2>3
<1>10. CASE Enqueue \/ UNCHANGED vars
  BY <1>2, <1>10, Zenon DEF Enqueue, vars, tasks
<1>11. QED
  BY <1>3, <1>4, <1>5, <1>6, <1>7, <1>8, <1>9, <1>10 DEF Next

(* While there is a session, no other profile becomes the active one.      *)
LEMMA ActiveStays ==
  ASSUME Inv, [Next]_vars, session # None
  PROVE  active' = active /\ (active # None => profile'[active].dev = profile[active].dev)
<1>1. ASSUME NEW r \in requests, Handler(r)
      PROVE  UNCHANGED <<profile, active>>
  BY <1>1, HandlerMoves DEF Ours
<1>2. ASSUME NEW a \in Accounts, OtherDesktop(a)
      PROVE  UNCHANGED <<profile, active>>
  BY <1>2, OtherDoes DEF Ours
<1>3. ASSUME NEW t \in Tasks, TaskStep(t)
      PROVE  active' = active /\ (active # None => profile'[active].dev = profile[active].dev)
  <2>1. CASE RefreshAnswered(t) \/ AnswerFails(t)
    BY <2>1, RefreshAnsweredDoes, AnswerFailsDoes DEF disk
  <2>2. CASE Listed(t) \/ Pushed(t) \/ Pulled(t) \/ LoggedOut(t)
    BY <2>2, ServedDoes
  <2>3. CASE SaveCursor(t) \/ ClearRefresh(t) \/ DropSession(t) \/ LocalFails(t)
    <3>1. UNCHANGED active
          /\ \/ UNCHANGED profile
             \/ active # None /\ \E p \in Profile :
                  Profiled(active, p) /\ p.dev = profile[active].dev
      BY <2>3, LocalDoes
    <3>2. QED
      BY <3>1, ActiveFacts DEF Profiled
  <2>4. QED
    BY <1>3, <2>1, <2>2, <2>3 DEF TaskStep
<1>4. CASE AuthTokens \/ AuthVault \/ AuthFails \/ OpenSession \/ AuthDone \/ LoginFails
  BY <1>4, AuthTokensDoes, AuthVaultDoes, AuthFailsDoes, OpenSessionDoes, AuthEndDoes DEF disk
<1>5. CASE Activate \/ PersistRefresh
  <2>1. auth # None /\ auth.pc \in {"activate", "persist"}
    BY <1>5, ActivateDoes, PersistDoes DEF Advances
  <2>2. QED
    BY <2>1 DEF Inv, LoggingIn
<1>6. ASSUME NEW t \in Tasks, NEW kind \in Commands, Start(t, kind)
      PROVE  UNCHANGED <<profile, active>>
  BY <1>6, StartDoes DEF disk
<1>7. ASSUME NEW a \in Accounts, NEW reg \in BOOLEAN, AuthStart(a, reg)
      PROVE  UNCHANGED <<profile, active>>
  BY <1>7, AuthStartDoes DEF disk
<1>8. ASSUME NEW c \in Callers, GiveUp(c)
      PROVE  UNCHANGED <<profile, active>>
  BY <1>8, GiveUpDoes DEF disk
<1>9. CASE Restart
  BY <1>9, RestartDoes DEF disk
<1>10. CASE Enqueue \/ UNCHANGED vars
  BY <1>10, Zenon DEF Enqueue, vars, disk
<1>11. QED
  BY <1>1, <1>2, <1>3, <1>4, <1>5, <1>6, <1>7, <1>8, <1>9, <1>10 DEF Next, AuthStep

(* A rotation for a command that waits renews the session.                 *)
LEMMA RotationRenews ==
  ASSUME Inv, NEW r \in requests, r.by \in Tasks, RefreshRotate(r)
  PROVE  Renewing(r.by, token[r.tok].dev)'
<1>1. /\ UNCHANGED cmd /\ r.kind = "refresh" /\ r.tok \in DOMAIN token
      /\ token[r.tok].dev = r.dev /\ Spends({r.tok})
  BY RotateDoes DEF Ours
<1>2. PICK q : MovesOn(r, q) /\ q.step = "rotated"
  BY RotateDoes
<1>3. cmd[r.by] # None /\ cmd[r.by].pc = "refresh"
  BY <1>1, CommandFacts DEF Inv, Calls, Asks, Kinds
<1>4. q \in requests' /\ q.by = r.by /\ At(q, "refresh", "rotated") /\ q.dev = r.dev
  BY <1>1, <1>2 DEF MovesOn, SameButStep, At
<1>5. token'[r.tok].dev = r.dev
  BY <1>1 DEF Spends
<1>6. QED
  BY <1>1, <1>3, <1>4, <1>5 DEF Renewing

LEMMA ConnectedSame ==
  ASSUME Inv, Spendable, Connected, [Next]_vars, ~Restart, session # None, session' # None,
         session'.tok = session.tok, session'.dev = session.dev
  PROVE  Connected'
<1>1. InCut /\ Unused /\ Begun /\ Grows /\ cut \subseteq cut'
  BY GrowsStep, CutGrows DEF Spendable
<1>2. PICK k, d : k = session.tok /\ d = session.dev
  OBVIOUS
<1>3. k \in DOMAIN token /\ token'[k].dev = token[k].dev
  BY <1>1, <1>2 DEF Inv, Held, Grows
<1>4. d = token'[k].dev \/ d \in cut'
  BY <1>1, <1>2, <1>3 DEF Connected
<1>5. CASE Good(k)
  <2>1. Good(k)' \/ \E r \in requests : r.by \in Tasks /\ RefreshRotate(r) /\ r.tok = k
    BY <1>1, <1>3, <1>5, GoodKept
  <2>2. CASE Good(k)'
    BY <1>2, <1>4, <2>2 DEF Connected, Good, Usable
  <2>3. ASSUME NEW r \in requests, r.by \in Tasks, RefreshRotate(r), r.tok = k
        PROVE  Connected'
    <3>1. Renewing(r.by, token[r.tok].dev)'
      BY <2>3, RotationRenews
    <3>2. QED
      BY <1>2, <1>4, <2>3, <3>1 DEF Connected, Renewing
  <2>4. QED
    BY <2>1, <2>2, <2>3
<1>6. ASSUME NEW t \in Tasks, NEW e, e = token[k].dev, Renewing(t, e)
      PROVE  Connected'
  <2>1. ~(Offers(t) /\ session'.tok = answer[t].tok)
    BY <1>1, NoneFacts DEF Unused
  <2>2. Renewing(t, e)' \/ e \in cut'
    BY <1>6, <2>1, RenewingAfter
  <2>3. CASE Renewing(t, e)'
    BY <1>2, <1>3, <1>4, <1>6, <2>3 DEF Connected, Renewing
  <2>4. CASE e \in cut'
    BY <1>2, <1>3, <1>4, <1>6, <2>4 DEF Connected, Good
  <2>5. QED
    BY <2>2, <2>3, <2>4
<1>7. CASE Stale
  <2>1. d \in cut' /\ active' = active
    BY <1>1, <1>2, <1>7, ActiveStays DEF Stale
  <2>2. ASSUME active # None, profile'[active].cipher = k
        PROVE  profile'[active].dev \in cut'
    <3>1. active \in Accounts /\ profile[active] # None
      BY <2>2, ActiveFacts
    <3>2. profile'[active].dev = profile[active].dev
      BY <2>2, ActiveStays
    <3>3. profile'[active] # None
      BY <2>1, <2>2, InvStep DEF Inv, Held
    <3>4. k # None
      BY <1>2, SessionFacts, NoneFacts DEF Inv
    <3>5. ~Saves(active)
      BY DEF Saves, Inv, LoggingIn
    <3>6. profile[active].cipher = k
      BY <2>2, <3>1, <3>3, <3>4, <3>5, CipherAfter
    <3>7. QED
      BY <1>1, <1>2, <1>7, <2>2, <3>2, <3>6 DEF Stale
  <2>3. QED
    BY <1>2, <1>4, <2>1, <2>2 DEF Connected, Stale
<1>8. QED
  BY <1>2, <1>5, <1>6, <1>7 DEF Connected

LEMMA ConnectedRestart ==
  ASSUME Inv, Spendable, Kept, Connected, Restart, [Next]_vars, session' # None
  PROVE  Connected'
<1>1. InCut /\ Unused /\ Begun /\ cut \subseteq cut'
  BY CutGrows DEF Spendable
<1>2. PICK k, d : k = session'.tok /\ d = session'.dev
  OBVIOUS
<1>3. /\ UNCHANGED <<device, token, profile, active>> /\ active # None /\ keyFile # None
      /\ profile[active].cipher # None /\ k = profile[active].cipher /\ d = profile[active].dev
      /\ session # None /\ session.tok # k => d \in cut'
      /\ token[k].dev # d => d \in cut'
      /\ \A t \in Tasks : cmd[t] # None => LostRefresh(t) \subseteq cut'
  BY <1>2, RestartDoes DEF server, disk
<1>4. active \in Accounts /\ profile[active] # None
  BY <1>3, ActiveFacts
<1>5. k \in DOMAIN token
  BY <1>3, <1>4, IssuedTokens
<1>6. CASE d \in cut'
  BY <1>2, <1>3, <1>6 DEF Connected, Stale
<1>7. CASE d \notin cut'
  <2>1. token[k].dev = d
    BY <1>3, <1>7
  <2>2. Good(k)
    <3>1. CASE session # None
      <4>1. session.tok = k
        BY <1>3, <1>7, <3>1
      <4>2. ASSUME NEW t \in Tasks, Renewing(t, d)
            PROVE  FALSE
        <5>1. d \in LostRefresh(t)
          BY <4>2, LostFacts, NoneFacts DEF Renewing
        <5>2. QED
          BY <1>3, <1>7, <4>2, <5>1 DEF Renewing
      <4>3. ~Stale
        BY <1>1, <1>3, <1>7, <4>1 DEF Stale
      <4>4. QED
        BY <2>1, <3>1, <4>1, <4>2, <4>3 DEF Connected
    <3>2. CASE session = None
      <4>1. /\ auth # None /\ auth.pc \in {"persist", "session"}
            /\ auth.pc = "persist" => profile[active].dev = auth.dev
            /\ auth.pc = "session" => profile[active].cipher = auth.tok
        BY <1>3, <2>1, <3>2, AuthFacts DEF Kept, Inv
      <4>2. auth.pc # "persist"
        BY <1>1, <1>3, <1>4, <2>1, <4>1 DEF Begun
      <4>3. QED
        BY <1>1, <1>3, <4>1, <4>2 DEF Begun, Opening
    <3>3. QED
      BY <3>1, <3>2
  <2>3. Good(k)'
    BY <1>1, <1>3, <2>2 DEF Good, Usable
  <2>4. QED
    BY <1>2, <1>3, <2>1, <2>3 DEF Connected, Good, Usable
<1>8. QED
  BY <1>6, <1>7

LEMMA ConnectedStep ==
  ASSUME Inv, Spendable, Kept, Connected, [Next]_vars
  PROVE  Connected'
<1>1. SUFFICES ASSUME session' # None, ~Restart PROVE Connected'
  BY ConnectedRestart DEF Connected
<1>2. InCut /\ Unused /\ Begun /\ Grows
  BY GrowsStep DEF Spendable
<1>3. ASSUME NEW k \in DOMAIN token, Good(k), \A r \in requests : r.kind = "refresh" => r.tok # k,
             session'.tok = k, session'.dev = token[k].dev
      PROVE  Connected'
  <2>1. Good(k)' /\ token'[k].dev = token[k].dev
    BY <1>2, <1>3, UnaskedStays DEF Grows
  <2>2. QED
    BY <1>3, <2>1 DEF Connected, Good, Usable
<1>4. CASE session # None /\ session'.tok = session.tok /\ session'.dev = session.dev
  BY <1>1, <1>4, ConnectedSame
<1>5. ASSUME NEW t \in Tasks, Offers(t), session'.tok = answer[t].tok, session'.dev = answer[t].dev
      PROVE  Connected'
  BY <1>2, <1>3, <1>5, IssuedTokens, NoneFacts DEF Unused
<1>6. CASE Opening /\ session'.tok = auth.tok /\ session'.dev = auth.dev
  BY <1>2, <1>3, <1>6, IssuedTokens DEF Begun
<1>7. QED
  BY <1>1, <1>4, <1>5, <1>6, SessionAfter

(* Refreshes that overlap, whichever of their answers comes last, leave    *)
(* the session a token the server still accepts.  Claimed of no session    *)
(* the server ended, nor of one whose latest token the desktop never took  *)
(* (cut): the answer was lost, the refresh went on after its caller gave   *)
(* up, or the desktop restarted with the token of its login.  SoleLogout:  *)
(* of logging out and changing the password, the commands that end a       *)
(* session, one runs at a time.                                            *)
THEOREM SessionStaysConnected ==
  ASSUME SoleLogout
  PROVE  Spec => []ConnectedUnlessCut
<1>1. Init => Kept /\ Connected
  BY DEF Init, Kept, Connected
<1>2. Inv /\ Orderly /\ Leaving /\ Spendable /\ Kept /\ Connected /\ [Next]_vars
        => Kept' /\ Connected'
  BY KeptStep, ConnectedStep
<1>3. Connected => ConnectedUnlessCut
  <2>1. SUFFICES ASSUME Connected, session # None, session.dev \notin cut,
                        \A t \in Tasks : cmd[t] = None \/ cmd[t].pc # "refresh"
                 PROVE  Usable(session.tok)
    BY DEF ConnectedUnlessCut
  <2>2. Good(session.tok) /\ session.dev = token[session.tok].dev
    BY <2>1 DEF Connected, Renewing, Stale
  <2>3. QED
    BY <2>1, <2>2 DEF Good
<1>4. QED
  BY <1>1, <1>2, <1>3, InvHolds, OrderlyHolds, LeavingHolds, SpendableHolds, PTL DEF Spec
=============================================================================
