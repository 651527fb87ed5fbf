---------------------------- MODULE CloudSession ----------------------------
(***************************************************************************)
(* The cloud session of one desktop: the server's accounts, vaults,        *)
(* devices and refresh tokens, the session in memory, and what survives a  *)
(* restart (cloud_profiles, cloud-vault-key.dpapi, the outbox).            *)
(*                                                                         *)
(* An account stands for a base URL and an account name, all of one        *)
(* server.  The vault key of an account is named by the account; an access *)
(* token by its device, since every command gets a fresh one before it     *)
(* uses it.  The other desktops of an account are requests that come from  *)
(* elsewhere.                                                              *)
(***************************************************************************)
EXTENDS Naturals, Sequences, FiniteSets

CONSTANTS
    Accounts,
    Tasks,       \* command handlers that may be under way at the same time
    Auth,        \* the handler of cloud_auth, as a caller of the server
    Commands,    \* the commands the tasks run
    None,
    MaxDevices, MaxTokens, MaxPasswords, MaxEnds,  \* bounds: how often
    MaxLate      \* bound: requests under way that nobody waits for

Kinds == {"devices", "revoke", "password", "logout", "push", "pull"}
Callers == Tasks \cup {Auth}

ASSUME ConstantsOK ==
    /\ Auth \notin Tasks /\ None \notin Callers \cup Accounts \cup Nat
    /\ Commands \subseteq Kinds
    /\ {MaxDevices, MaxTokens, MaxPasswords, MaxEnds, MaxLate} \subseteq Nat

VARIABLES
    password,  \* users: the password of an account, by number
    vault,     \* vault_bootstrap: the wrapped key, and the password that opens it
    device,    \* devices, in the order they were issued
    token,     \* refresh_tokens, in the order they were issued
    requests,  \* requests at the server
    answer,    \* answers on their way to their callers
    session,   \* ProductState.cloud
    syncKey,   \* ProductState.sync_key
    profile,   \* cloud_profiles
    active,    \* the profile with is_active
    keyFile,   \* cloud-vault-key.dpapi
    outbox,    \* the keys the rows of sync_outbox are encrypted under
    versions,  \* the accounts the rows of sync_versions come from
    auth,      \* cloud_auth in progress
    cmd,       \* the commands in progress
    ends,      \* how often the application ended
    cut,       \* history: devices whose session was ended for the desktop: by a
               \* logout, a revocation, a new password, or a token it never got
    mixed      \* history: a command outlived its login, or a login ended, or a row
               \* was queued, between its profile and its vault key on disk

server == <<password, vault, device, token>>
disk == <<profile, active, keyFile, outbox, versions>>
memory == <<session, syncKey>>
tasks == <<auth, cmd>>
vars == <<server, requests, answer, memory, disk, tasks, ends, cut, mixed>>

Keys == Accounts \cup {None}
Passwords == 0 .. MaxPasswords
Device == [acc: Accounts, revoked: BOOLEAN]
Token == [dev: Nat \ {0}, live: BOOLEAN]
Vault == [key: Accounts, pw: Passwords]
Session == [tok: Nat, dev: Nat, key: Accounts, cursor: {0, 1}]
Profile == [dev: Nat, cipher: Nat \cup {None}, cursor: {0, 1}]
Request ==
    [kind: Kinds \cup {"register", "login", "refresh", "put_vault", "get_vault"},
     step: {"arrived", "authorized", "verified", "selected", "rotated", "marked"},
     by: Callers \cup {None}, acc: Accounts, dev: Nat, tok: Nat, pw: Passwords,
     key: Keys, target: Nat]
Answer == [ok: BOOLEAN, tok: Nat, dev: Nat, keys: SUBSET Accounts, pw: Passwords]
AuthTask == [reg: BOOLEAN, acc: Accounts, pw: Passwords, tok: Nat, dev: Nat, key: Keys,
             pc: {"tokens", "vault", "activate", "persist", "session", "file"}]
Command == [kind: Kinds, acc: Keys, dev: Nat, key: Keys, pw: Passwords, target: Nat,
            pc: {"refresh", "request", "cursor", "clear", "drop"}]

ASSUME NoneOK == None \notin Vault \cup Session \cup Profile \cup Answer \cup AuthTask \cup Command

(* Every variable holds a value of its type; tokens and devices that are   *)
(* named were issued.                                                      *)
TypeOK ==
    /\ password \in [Accounts -> Passwords \cup {None}]
    /\ vault \in [Accounts -> Vault \cup {None}]
    /\ device \in Seq(Device) /\ token \in Seq(Token)
    /\ \A t \in DOMAIN token : token[t].dev \in DOMAIN device
    /\ requests \subseteq Request
    /\ answer \in [Callers -> Answer \cup {None}]
    /\ session \in Session \cup {None} /\ syncKey \in Keys
    /\ session # None => session.tok \in DOMAIN token
    /\ profile \in [Accounts -> Profile \cup {None}] /\ active \in Keys
    /\ keyFile \in Keys
    /\ outbox \subseteq Accounts /\ versions \subseteq Accounts
    /\ auth \in AuthTask \cup {None}
    /\ cmd \in [Tasks -> Command \cup {None}]
    /\ ends \in 0 .. MaxEnds /\ cut \subseteq Nat /\ mixed \in BOOLEAN

Init ==
    /\ password = [a \in Accounts |-> None]
    /\ vault = [a \in Accounts |-> None]
    /\ device = <<>> /\ token = <<>>
    /\ requests = {}
    /\ answer = [c \in Callers |-> None]
    /\ session = None /\ syncKey = None
    /\ profile = [a \in Accounts |-> None] /\ active = None
    /\ keyFile = None
    /\ outbox = {} /\ versions = {}
    /\ auth = None
    /\ cmd = [t \in Tasks |-> None]
    /\ ends = 0 /\ cut = {} /\ mixed = FALSE

-----------------------------------------------------------------------------
(* The server.  A handler takes the database lock several times: one step  *)
(* of a request is what it does under one lock.                            *)
ReqOf(kind, by, acc, dev) ==
    [kind |-> kind, step |-> "arrived", by |-> by, acc |-> acc, dev |-> dev, tok |-> 0,
     pw |-> 0, key |-> None, target |-> 0]

Plain == [ok |-> TRUE, tok |-> 0, dev |-> 0, keys |-> {}, pw |-> 0]

Usable(t) == token[t].live /\ ~device[token[t].dev].revoked

Step(r, step) ==
    /\ requests' = (requests \ {r}) \cup {[r EXCEPT !.step = step]}
    /\ UNCHANGED answer

Reply(r, a) ==
    /\ requests' = requests \ {r}
    /\ answer' = IF r.by = None THEN answer ELSE [answer EXCEPT ![r.by] = a]

At(r, kind, step) == r.kind = kind /\ r.step = step

Elsewhere == <<memory, disk, tasks, ends, mixed>>

RegisterUser(r) ==
    /\ At(r, "register", "arrived")
    /\ password[r.acc] = None
    /\ password' = [password EXCEPT ![r.acc] = r.pw]
    /\ Step(r, "verified")
    /\ UNCHANGED <<vault, device, token, cut, Elsewhere>>

LoginVerify(r) ==
    /\ At(r, "login", "arrived")
    /\ password[r.acc] = r.pw
    /\ Step(r, "verified")
    /\ UNCHANGED <<server, cut, Elsewhere>>

(* issue_tokens: every login is a new device.                              *)
IssueTokens(r) ==
    /\ r.kind \in {"register", "login"} /\ r.step = "verified"
    /\ Len(device) < MaxDevices /\ Len(token) < MaxTokens
    /\ device' = Append(device, [acc |-> r.acc, revoked |-> FALSE])
    /\ token' = Append(token, [dev |-> Len(device'), live |-> TRUE])
    /\ Reply(r, [Plain EXCEPT !.tok = Len(token'), !.dev = Len(device')])
    /\ UNCHANGED <<password, vault, cut, Elsewhere>>

RefreshSelect(r) ==
    /\ At(r, "refresh", "arrived")
    /\ Usable(r.tok)
    /\ Step(r, "selected")
    /\ UNCHANGED <<server, cut, Elsewhere>>

RevokedTokens(devices) ==
    [t \in DOMAIN token |->
        IF token[t].dev \in devices THEN [token[t] EXCEPT !.live = FALSE] ELSE token[t]]

(* A mutant: every token of the device is ended, not the one replaced.     *)
RefreshRotateAll(r) ==
    /\ At(r, "refresh", "selected")
    /\ token' = RevokedTokens({r.dev})
    /\ Step(r, "rotated")
    /\ cut' = IF r.by = None THEN cut \cup {r.dev} ELSE cut
    /\ UNCHANGED <<password, vault, device, Elsewhere>>

RefreshRotate(r) ==
    /\ At(r, "refresh", "selected")
    /\ token' = [token EXCEPT ![r.tok].live = FALSE]
    /\ Step(r, "rotated")
    /\ cut' = IF r.by = None THEN cut \cup {r.dev} ELSE cut
    /\ UNCHANGED <<password, vault, device, Elsewhere>>

(* issue_tokens_for_device                                                 *)
RefreshIssue(r) ==
    /\ At(r, "refresh", "rotated")
    /\ Len(token) < MaxTokens
    /\ token' = Append(token, [dev |-> r.dev, live |-> TRUE])
    /\ Reply(r, [Plain EXCEPT !.tok = Len(token'), !.dev = r.dev])
    /\ UNCHANGED <<password, vault, device, cut, Elsewhere>>

(* authorize looks at the device only; for a handler that only reads, or   *)
(* writes its vault, it is one step with what follows.                     *)
TwoSteps == {"password", "logout", "revoke"}

NeedsAccess(r) == r.kind \notin {"register", "login", "refresh"}

Authorized(r) == r.step = "arrived" /\ ~device[r.dev].revoked

Authorize(r) ==
    /\ r.kind \in TwoSteps /\ Authorized(r)
    /\ Step(r, "authorized")
    /\ UNCHANGED <<server, cut, Elsewhere>>

DevicesOf(a) == {d \in DOMAIN device : device[d].acc = a}

Logout(r) ==
    /\ At(r, "logout", "authorized")
    /\ token' = RevokedTokens({r.dev})
    /\ cut' = cut \cup {r.dev}
    /\ Reply(r, Plain)
    /\ UNCHANGED <<password, vault, device, Elsewhere>>

PasswordVerify(r) ==
    /\ At(r, "password", "authorized")
    /\ password[r.acc] = r.pw
    /\ Step(r, "verified")
    /\ UNCHANGED <<server, cut, Elsewhere>>

(* A mutant: the envelope stays as it was.                                 *)
ChangePasswordOnly(r) ==
    /\ At(r, "password", "verified")
    /\ password[r.acc] < MaxPasswords
    /\ password' = [password EXCEPT ![r.acc] = @ + 1]
    /\ token' = RevokedTokens(DevicesOf(r.acc))
    /\ cut' = cut \cup DevicesOf(r.acc)
    /\ Reply(r, Plain)
    /\ UNCHANGED <<vault, device, Elsewhere>>

(* One transaction: the new hash, every token of the user, the envelope.   *)
ChangePassword(r) ==
    /\ At(r, "password", "verified")
    /\ password[r.acc] < MaxPasswords
    /\ password' = [password EXCEPT ![r.acc] = @ + 1]
    /\ vault' = [vault EXCEPT ![r.acc] = [key |-> r.key, pw |-> password[r.acc] + 1]]
    /\ token' = RevokedTokens(DevicesOf(r.acc))
    /\ cut' = cut \cup DevicesOf(r.acc)
    /\ Reply(r, Plain)
    /\ UNCHANGED <<device, Elsewhere>>

RevokeDevice(r) ==
    /\ At(r, "revoke", "authorized")
    /\ r.target \in DevicesOf(r.acc) /\ ~device[r.target].revoked
    /\ device' = [device EXCEPT ![r.target].revoked = TRUE]
    /\ cut' = cut \cup {r.target}
    /\ Step(r, "marked")
    /\ UNCHANGED <<password, vault, token, Elsewhere>>

RevokeTokens(r) ==
    /\ At(r, "revoke", "marked")
    /\ token' = RevokedTokens({r.target})
    /\ Reply(r, Plain)
    /\ UNCHANGED <<password, vault, device, cut, Elsewhere>>

PutVault(r) ==
    /\ r.kind = "put_vault" /\ Authorized(r)
    /\ vault' = [vault EXCEPT ![r.acc] = [key |-> r.key, pw |-> r.pw]]
    /\ Reply(r, Plain)
    /\ UNCHANGED <<password, device, token, cut, Elsewhere>>

GetVault(r) ==
    /\ r.kind = "get_vault" /\ Authorized(r)
    /\ vault[r.acc] # None
    /\ Reply(r, [Plain EXCEPT !.keys = {vault[r.acc].key}, !.pw = vault[r.acc].pw])
    /\ UNCHANGED <<server, cut, Elsewhere>>

(* devices, push_records and pull_records: whether there is anything new   *)
(* for a pull depends on the other desktops.                               *)
ServeRecords(r) ==
    /\ r.kind \in {"devices", "push", "pull"} /\ Authorized(r)
    /\ \E keys \in IF r.kind = "pull" THEN {{}, {r.acc}} ELSE {{}} :
         Reply(r, [Plain EXCEPT !.keys = keys])
    /\ UNCHANGED <<server, cut, Elsewhere>>

Refused(r) ==
    \/ At(r, "register", "arrived") /\ password[r.acc] # None
    \/ At(r, "login", "arrived") /\ password[r.acc] # r.pw
    \/ At(r, "refresh", "arrived") /\ ~Usable(r.tok)
    \/ NeedsAccess(r) /\ r.step = "arrived" /\ device[r.dev].revoked
    \/ At(r, "password", "authorized") /\ password[r.acc] # r.pw
    \/ At(r, "revoke", "authorized")
       /\ ~(r.target \in DevicesOf(r.acc) /\ ~device[r.target].revoked)
    \/ At(r, "get_vault", "arrived") /\ vault[r.acc] = None

Refuse(r) ==
    /\ Refused(r)
    /\ Reply(r, [Plain EXCEPT !.ok = FALSE])
    /\ UNCHANGED <<server, cut, Elsewhere>>

Handler(r) ==
    \/ RegisterUser(r) \/ LoginVerify(r) \/ IssueTokens(r)
    \/ RefreshSelect(r) \/ RefreshRotate(r) \/ RefreshIssue(r)
    \/ Authorize(r) \/ Logout(r) \/ PasswordVerify(r) \/ ChangePassword(r)
    \/ RevokeDevice(r) \/ RevokeTokens(r) \/ PutVault(r) \/ GetVault(r)
    \/ ServeRecords(r) \/ Refuse(r)

(* Another desktop of the account changes the password or revokes a        *)
(* device; its own session is not modelled.                                *)
OtherDesktop(a) ==
    /\ vault[a] # None
    /\ \/ /\ password[a] < MaxPasswords
          /\ password' = [password EXCEPT ![a] = @ + 1]
          /\ vault' = [vault EXCEPT ![a].pw = password[a] + 1]
          /\ token' = RevokedTokens(DevicesOf(a))
          /\ cut' = cut \cup DevicesOf(a)
          /\ UNCHANGED device
       \/ \E d \in DevicesOf(a) :
          /\ device' = [device EXCEPT ![d].revoked = TRUE]
          /\ token' = RevokedTokens({d})
          /\ cut' = cut \cup {d}
          /\ UNCHANGED <<password, vault>>
    /\ UNCHANGED <<requests, answer, Elsewhere>>

-----------------------------------------------------------------------------
(* The desktop.  A command reads the session, gets a fresh access token,   *)
(* and only then sends its request.                                        *)
Send(c, r) == requests' = requests \cup {[r EXCEPT !.by = c]}

Set(t, c) == cmd' = [cmd EXCEPT ![t] = c]

Goto(t, pc) == Set(t, [cmd[t] EXCEPT !.pc = pc])

Take(c) == answer' = [answer EXCEPT ![c] = None]

Mixing(a, b) == mixed' = (mixed \/ a # b)

Start(t, kind) ==
    /\ cmd[t] = None
    /\ \A s \in Tasks : cmd[s] # None => cmd[s].kind # kind
    /\ session # None
    /\ LET a == device[session.dev].acc
       IN \E d \in IF kind = "revoke" THEN DevicesOf(a) ELSE {0} :
            /\ Set(t, [kind |-> kind, acc |-> session.key, dev |-> 0, key |-> None,
                       pw |-> password[a], target |-> d, pc |-> "refresh"])
            /\ Send(t, [ReqOf("refresh", t, a, token[session.tok].dev)
                        EXCEPT !.tok = session.tok])
    /\ UNCHANGED <<server, answer, memory, disk, auth, ends, cut, mixed>>

(* refresh_cloud_session writes the tokens into whatever session there is, *)
(* and returns the vault key of that session.  cloud_push_local then fills *)
(* the outbox before it sends: its rows stay there when the upload fails.  *)
RefreshAnswered(t) ==
    LET c == cmd[t]
        d == answer[t].dev
        ready == [c EXCEPT !.dev = d, !.key = session.key, !.pc = "request"]
    IN  /\ c # None /\ c.pc = "refresh"
        /\ answer[t] # None /\ answer[t].ok /\ session # None
        /\ session' = [session EXCEPT !.tok = answer[t].tok, !.dev = d]
        /\ mixed' = (mixed \/ c.acc # session.key)
        /\ outbox' = IF c.kind = "push" THEN outbox \cup {session.key} ELSE outbox
        /\ Take(t)
        /\ IF c.kind = "revoke" /\ c.target = d
              THEN Set(t, None) /\ UNCHANGED requests
              ELSE /\ Set(t, ready)
                   /\ Send(t, [ReqOf(c.kind, t, device[d].acc, d)
                               EXCEPT !.key = session.key, !.pw = c.pw, !.target = c.target])
        /\ UNCHANGED <<server, syncKey, profile, active, keyFile, versions, auth, ends, cut>>

(* An error; logging out goes on without the server.                       *)
Fails(t) ==
    /\ answer[t] # None
    /\ \/ cmd[t].pc = "refresh" /\ (~answer[t].ok \/ session = None)
       \/ cmd[t].pc = "request" /\ ~answer[t].ok
       \/ cmd[t].pc = "request" /\ cmd[t].kind = "pull" /\ ~(answer[t].keys \subseteq {cmd[t].key})

\* A mutant: logging out ends with the error, too.
FailedAny(t) == Set(t, None)

Failed(t) == IF cmd[t].kind = "logout" THEN Goto(t, "clear") ELSE Set(t, None)

AnswerFails(t) ==
    /\ cmd[t] # None
    /\ Fails(t)
    /\ Failed(t)
    /\ Take(t)
    /\ UNCHANGED <<server, requests, memory, disk, auth, ends, cut, mixed>>

(* What a command makes of its answer.                                     *)
Served(t, kind) ==
    /\ cmd[t] # None /\ cmd[t].kind = kind /\ cmd[t].pc = "request"
    /\ answer[t] # None /\ ~Fails(t)
    /\ Take(t)
    /\ UNCHANGED <<server, requests, memory, profile, active, keyFile, auth, ends, cut>>

Listed(t) ==
    /\ \E kind \in {"devices", "revoke"} : Served(t, kind)
    /\ Set(t, None)
    /\ UNCHANGED <<outbox, versions, mixed>>

Pushed(t) ==
    /\ Served(t, "push")
    /\ Set(t, None)
    /\ outbox' \in {{}, outbox}
    /\ UNCHANGED <<versions, mixed>>

Pulled(t) ==
    /\ Served(t, "pull")
    /\ IF answer[t].keys = {}
          THEN Set(t, None) /\ UNCHANGED <<versions, mixed>>
          ELSE /\ Goto(t, "cursor")
               /\ versions' = versions \cup {device[cmd[t].dev].acc}
               /\ Mixing(device[cmd[t].dev].acc, active)
    /\ UNCHANGED outbox

LoggedOut(t) ==
    /\ \E kind \in {"logout", "password"} : Served(t, kind)
    /\ Goto(t, "clear")
    /\ UNCHANGED <<outbox, versions, mixed>>

(* clear_cloud_refresh, persist_cloud_cursor: whatever profile is active.  *)
SetActive(p) == profile' = IF active = None THEN profile ELSE [profile EXCEPT ![active] = p]

Local(t, pc) ==
    /\ cmd[t] # None /\ cmd[t].pc = pc
    /\ UNCHANGED <<server, requests, answer, syncKey, active, keyFile, outbox, versions, auth,
                   ends, cut>>

SaveCursor(t) ==
    /\ Local(t, "cursor")
    /\ session' = IF session = None THEN None ELSE [session EXCEPT !.cursor = 1]
    /\ SetActive([profile[active] EXCEPT !.cursor = 1])
    /\ Mixing(device[cmd[t].dev].acc, active)
    /\ Set(t, None)

ClearRefresh(t) ==
    /\ Local(t, "clear")
    /\ SetActive([profile[active] EXCEPT !.cipher = None])
    /\ Goto(t, "drop")
    /\ UNCHANGED <<session, mixed>>

DropSession(t) ==
    /\ Local(t, "drop")
    /\ session' = None
    /\ Set(t, None)
    /\ mixed' = (mixed \/ (session # None /\ active # None /\ profile[active].cipher # None))
    /\ UNCHANGED profile

(* The database refuses the statement: the command ends with an error, and *)
(* a pull has its cursor in memory.                                        *)
LocalFails(t) ==
    /\ Local(t, "clear") \/ Local(t, "cursor")
    /\ session' \in {session} \cup (IF session = None \/ cmd[t].pc = "clear" THEN {}
                                    ELSE {[session EXCEPT !.cursor = 1]})
    /\ Set(t, None)
    /\ UNCHANGED <<profile, mixed>>

(* cloud_auth.                                                             *)
Serving == UNCHANGED <<server, memory, cmd, ends, cut>>

AuthStart(a, reg) ==
    /\ auth = None /\ session = None
    /\ reg \/ password[a] # None
    /\ LET pw == IF password[a] = None THEN 0 ELSE password[a]
       IN /\ auth' = [reg |-> reg, acc |-> a, pw |-> pw, tok |-> 0, dev |-> 0, key |-> None,
                      pc |-> "tokens"]
          /\ Send(Auth, [ReqOf(IF reg THEN "register" ELSE "login", Auth, a, 0) EXCEPT !.pw = pw])
    /\ Serving /\ UNCHANGED <<answer, disk, mixed>>

AuthTokens ==
    /\ auth # None /\ auth.pc = "tokens" /\ answer[Auth] # None /\ answer[Auth].ok
    /\ auth' = [auth EXCEPT !.tok = answer[Auth].tok, !.dev = answer[Auth].dev, !.pc = "vault"]
    /\ Send(Auth, [ReqOf(IF auth.reg THEN "put_vault" ELSE "get_vault", Auth, auth.acc,
                         answer[Auth].dev) EXCEPT !.pw = auth.pw, !.key = auth.acc])
    /\ Take(Auth)
    /\ Serving /\ UNCHANGED <<disk, mixed>>

(* The envelope opens with the password it was wrapped with.               *)
Opens == answer[Auth].ok /\ (auth.reg \/ answer[Auth].pw = auth.pw)

AuthVault ==
    /\ auth # None /\ auth.pc = "vault" /\ answer[Auth] # None /\ Opens
    /\ auth' = [auth EXCEPT !.pc = "activate",
                            !.key = IF auth.reg THEN auth.acc ELSE CHOOSE k \in answer[Auth].keys : TRUE]
    /\ Take(Auth)
    /\ Serving /\ UNCHANGED <<requests, disk, mixed>>

AuthFails ==
    /\ auth # None /\ answer[Auth] # None
    /\ IF auth.pc = "tokens" THEN ~answer[Auth].ok ELSE auth.pc = "vault" /\ ~Opens
    /\ auth' = None
    /\ Take(Auth)
    /\ Serving /\ UNCHANGED <<requests, disk, mixed>>

Switched == active \notin {None, auth.acc}

(* Mutants: what was synchronised with the former account stays; the       *)
(* former profile stays active.                                            *)
ActivateKeeping ==
    /\ auth # None /\ auth.pc = "activate"
    /\ active' = auth.acc
    /\ profile' = [profile EXCEPT ![auth.acc] =
          IF @ = None THEN [dev |-> auth.dev, cipher |-> None, cursor |-> 0]
          ELSE [@ EXCEPT !.dev = auth.dev]]
    /\ auth' = [auth EXCEPT !.pc = "persist"]
    /\ Serving /\ UNCHANGED <<requests, answer, keyFile, outbox, versions, mixed>>

ActivateBeside ==
    /\ auth # None /\ auth.pc = "activate"
    /\ active' = IF active = None THEN auth.acc ELSE active
    /\ profile' = [profile EXCEPT ![auth.acc] =
          [dev |-> auth.dev, cipher |-> None, cursor |-> 0]]
    /\ auth' = [auth EXCEPT !.pc = "persist"]
    /\ Serving /\ UNCHANGED <<requests, answer, keyFile, outbox, versions, mixed>>

Activate ==
    /\ auth # None /\ auth.pc = "activate"
    /\ active' = auth.acc
    /\ LET p == profile[auth.acc]
       IN  profile' = [profile EXCEPT ![auth.acc] =
              IF p = None THEN [dev |-> auth.dev, cipher |-> None, cursor |-> 0]
              ELSE [p EXCEPT !.dev = auth.dev, !.cursor = IF Switched THEN 0 ELSE p.cursor]]
    /\ outbox' = IF Switched THEN {} ELSE outbox
    /\ versions' = IF Switched THEN {} ELSE versions
    /\ auth' = [auth EXCEPT !.pc = "persist"]
    /\ mixed' = (mixed \/ (Switched /\ \E t \in Tasks : cmd[t] # None /\ cmd[t].pc = "cursor"))
    /\ Serving /\ UNCHANGED <<requests, answer, keyFile>>

PersistRefresh ==
    /\ auth # None /\ auth.pc = "persist"
    /\ profile' = [profile EXCEPT ![auth.acc].cipher = auth.tok]
    /\ auth' = [auth EXCEPT !.pc = "session"]
    /\ Serving /\ UNCHANGED <<requests, answer, active, keyFile, outbox, versions, mixed>>

OpenSession ==
    /\ auth # None /\ auth.pc = "session"
    /\ session' = [tok |-> auth.tok, dev |-> auth.dev, key |-> auth.key,
                   cursor |-> profile[auth.acc].cursor]
    /\ auth' = [auth EXCEPT !.pc = "file"]
    /\ UNCHANGED <<server, requests, answer, syncKey, disk, cmd, ends, cut, mixed>>

AuthDone ==
    /\ auth # None /\ auth.pc = "file"
    /\ keyFile' = auth.key /\ syncKey' = auth.key
    /\ auth' = None
    /\ UNCHANGED <<server, requests, answer, session, profile, active, outbox, versions, cmd, ends,
                   cut, mixed>>

(* A login has activated its profile, and its key is not in the file.      *)
Unfiled == auth # None /\ auth.pc \in {"persist", "session", "file"} /\ keyFile # auth.key

(* The database refuses a statement, protect_key or the write of the file  *)
(* fails: what was done before stays.                                      *)
LoginFails ==
    /\ auth # None /\ auth.pc \in {"activate", "persist", "file"}
    /\ auth' = None
    /\ mixed' = (mixed \/ Unfiled)
    /\ UNCHANGED <<server, requests, answer, memory, disk, cmd, ends, cut>>

(* enqueue_*: the key of the session, or the one a session left.           *)
EnqueueKey == IF session # None THEN session.key ELSE syncKey

Enqueue ==
    /\ EnqueueKey \notin outbox \cup {None}
    /\ outbox' = outbox \cup {EnqueueKey}
    /\ mixed' = (mixed \/ Unfiled)
    /\ UNCHANGED <<server, requests, answer, memory, profile, active, keyFile, versions, tasks,
                   ends, cut>>

(* A refresh whose token is gone and whose answer nobody takes.            *)
LostRefresh(c) ==
    (UNION {IF r.by = c /\ At(r, "refresh", "rotated") THEN {r.dev} ELSE {} : r \in requests})
    \cup IF answer[c] # None /\ answer[c].ok /\ c \in Tasks /\ cmd[c].pc = "refresh"
            THEN {answer[c].dev} ELSE {}

(* The requests of the callers go on at the server, or no further: they    *)
(* never reached it, or it ended as well.                                  *)
Abandon(callers) ==
    /\ \E kept \in SUBSET {r \in requests : r.by \in callers} :
         /\ requests' = {r \in requests : r.by \notin callers} \cup
                        {[r EXCEPT !.by = None] : r \in kept}
         /\ Cardinality({r \in requests' : r.by = None}) <= MaxLate
    /\ answer' = [c \in Callers |-> IF c \in callers THEN None ELSE answer[c]]

Waiting(c) == answer[c] # None \/ \E r \in requests : r.by = c

(* The client's timeout.                                                   *)
GiveUp(c) ==
    /\ Waiting(c)
    /\ Abandon({c})
    /\ cut' = cut \cup LostRefresh(c)
    /\ IF c = Auth THEN auth' = None /\ UNCHANGED cmd ELSE Failed(c) /\ UNCHANGED auth
    /\ UNCHANGED <<server, memory, disk, ends, mixed>>

\* A mutant: whatever cipher there is.
RestoredAny ==
    IF active = None \/ keyFile = None THEN None
    ELSE [tok |-> profile[active].cipher, dev |-> profile[active].dev, key |-> keyFile,
          cursor |-> profile[active].cursor]

(* The application ends, and starts again with restore_cloud_session.      *)
Restored ==
    IF active = None \/ keyFile = None \/ profile[active].cipher = None THEN None
    ELSE [tok |-> profile[active].cipher, dev |-> profile[active].dev, key |-> keyFile,
          cursor |-> profile[active].cursor]

Restart ==
    /\ ends < MaxEnds /\ ends' = ends + 1
    /\ Abandon(Callers)
    /\ auth' = None /\ cmd' = [t \in Tasks |-> None]
    /\ syncKey' = keyFile /\ session' = Restored
    /\ cut' = cut \cup (UNION {LostRefresh(c) : c \in {t \in Tasks : cmd[t] # None}})
                  \cup IF session # None /\ Restored # None /\ session.tok # Restored.tok
                         THEN {session.dev, Restored.dev} ELSE {}
                  \cup IF Restored # None /\ token[Restored.tok].dev # Restored.dev
                         THEN {Restored.dev} ELSE {}
    /\ mixed' = (mixed \/ Unfiled)
    /\ UNCHANGED <<server, disk>>

TaskStep(t) ==
    \/ RefreshAnswered(t) \/ AnswerFails(t) \/ Listed(t) \/ Pushed(t) \/ Pulled(t) \/ LoggedOut(t)
    \/ SaveCursor(t) \/ ClearRefresh(t) \/ DropSession(t) \/ LocalFails(t)

AuthStep ==
    \/ AuthTokens \/ AuthVault \/ AuthFails \/ Activate \/ PersistRefresh \/ OpenSession
    \/ AuthDone \/ LoginFails

Next ==
    \/ \E r \in requests : Handler(r)
    \/ \E a \in Accounts : OtherDesktop(a)
    \/ \E t \in Tasks : TaskStep(t)
    \/ \E t \in Tasks, kind \in Commands : Start(t, kind)
    \/ \E a \in Accounts, reg \in BOOLEAN : AuthStart(a, reg)
    \/ AuthStep
    \/ Enqueue
    \/ \E c \in Callers : GiveUp(c)
    \/ Restart

Spec == Init /\ [][Next]_vars

-----------------------------------------------------------------------------
(* Of refreshes that overlap, the token that is kept is one the server     *)
(* still accepts, whichever answer comes last: a rotation ends the token   *)
(* it replaces and no other.  Not so (cut) where the server ended the      *)
(* session, and where a refresh went without the desktop's taking its      *)
(* token: its answer was lost, it went on after its caller gave up, or the *)
(* desktop restarted with the token of the login.                          *)
ConnectedUnlessCut ==
    (session # None /\ session.dev \notin cut
        /\ \A t \in Tasks : cmd[t] = None \/ cmd[t].pc # "refresh")
    => Usable(session.tok)

(* The token, the vault key and the active profile of a session belong to  *)
(* one account, except where a command outlived its login or a login was   *)
(* cut short before its vault key was written.                             *)
SessionIsOneAccount ==
    (session # None /\ ~mixed) =>
        /\ device[token[session.tok].dev].acc = session.key
        /\ session.key = active
        /\ session.dev = token[session.tok].dev

(* Whoever logs in with the account's password can open its vault: the     *)
(* envelope follows every change of the password.                          *)
VaultOpensWithPassword ==
    \A a \in Accounts : vault[a] # None =>
        (~mixed => vault[a].key = a) /\ vault[a].pw = password[a]

(* What synchronisation keeps on disk is the active account's: no row is   *)
(* queued under another account's key, no version is another account's,    *)
(* and a saved cursor has the versions of what it passed.                  *)
SyncStateIsOfAccount ==
    ~mixed =>
        /\ outbox \subseteq {active} /\ versions \subseteq {active}
        /\ active # None /\ profile[active].cursor = 1 => active \in versions

(* However the server answers, or if it does not: a logout that returns    *)
(* leaves no session, and none that the next start restores, unless the    *)
(* database refuses to forget the token.                                   *)
LogoutLeavesNothing ==
    [][\A t \in Tasks :
         (cmd[t] # None /\ cmd[t].kind = "logout" /\ cmd[t].pc # "clear"
            /\ cmd'[t] = None /\ ends' = ends) =>
             session' = None /\ (active # None => profile'[active].cipher = None)]_vars
=============================================================================
