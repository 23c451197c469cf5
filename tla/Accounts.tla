------------------------------- MODULE Accounts -------------------------------
(***************************************************************************)
(* Accounts and sign-in methods of the CipherBox API.                      *)
(*                                                                         *)
(* Signing in takes two requests.  The identity service is shown a Google  *)
(* account, an email address or a wallet (an identity), finds or creates   *)
(* its users row and answers with a JWT naming the row.  The client gives  *)
(* the JWT to Core Kit, which derives the account's key from it, and sends *)
(* both to /auth/login, which answers with tokens for a users row: the one *)
(* with that key, or the one whose placeholder key names the JWT's row.    *)
(* A signed-in user may link further identities and unlink them.           *)
(*                                                                         *)
(* Every await on the database ends a step.  The tables' UNIQUE indexes,   *)
(* on users(publicKey) and auth_methods(type, identifier_hash), fail the   *)
(* statement that would break them and with it the request.                *)
(***************************************************************************)
EXTENDS Integers, FiniteSets

CONSTANTS
    Users,      \* ids of users rows; their number bounds the rows ever created
    Identities, \* what the identity service can verify
    KindOf,     \* identity -> "google", "email" or "wallet"
    EmailOf,    \* identity -> the address it comes with (an email identity is
                \* its address), None for a wallet
    Calls,      \* requests the API can serve at a time
    None        \* SQL NULL, no row, no call

Kinds == {"google", "email", "wallet"}

Keys == [kind : {"temp", "pending", "real"}, of : Users]

(* What identifiers are hashed from: verified identities, the addresses    *)
(* they come with, and a JWT's sub when it carries no address              *)
Hashes == Identities \cup {EmailOf[i] : i \in Identities} \cup Users

MethodKeys == [type : Kinds, hash : Hashes]

ASSUME AccountsAssumption ==
    /\ KindOf \in [Identities -> Kinds]
    /\ EmailOf \in [Identities -> Identities \cup {None}]
    /\ \A i \in Identities : KindOf[i] = "email" => EmailOf[i] = i
    /\ \A i \in Identities : KindOf[i] = "wallet" <=> EmailOf[i] = None
    /\ None \notin Users \cup Identities \cup Calls \cup Keys \cup MethodKeys

VARIABLES
    rows,       \* users: id -> publicKey, or None
    methods,    \* auth_methods: (type, identifier_hash) -> user id, or None
    calls,      \* requests in flight
    jwts,       \* identity JWTs clients hold
    mfa,        \* accounts with MFA: a new device lacks their device factor
    sessions,   \* history: tokens issued by /auth/login
    had,        \* history: rows that ever had a sign-in method
    unlinked    \* history: methods that were ever unlinked

vars == <<rows, methods, calls, jwts, mfa, sessions, had, unlinked>>

Jwt == [sub : Users, ident : Identities]

(* row: whose tokens; sub: the row the JWT named; key: the public key sent *)
Session == [row : Users, sub : Users, key : Keys]

(* pc names the next database access of the handler                        *)
Call == [pc : {"create", "rename", "method", "touch",
               "placeholder", "resolve", "insert", "authMethod", "anyMethod",
               "safety", "lastUsed", "link", "remove"},
         user : Users \cup {None}, ident : Identities \cup {None},
         sub : Users \cup {None}, key : Keys \cup {None},
         method : MethodKeys \cup {None}]

ASSUME NoneAssumption == None \notin Call

Temp(u)    == [kind |-> "temp", of |-> u]
Pending(u) == [kind |-> "pending", of |-> u]    \* pending-core-kit-{id}
Real(u)    == [kind |-> "real", of |-> u]       \* Core Kit: verifierId = sub

-----------------------------------------------------------------------------
(* The tables *)

Method(t, h) == [type |-> t, hash |-> h]

(* The identity service looks a Google account up by its immutable sub     *)
LoginMethod(i) == Method(KindOf[i], i)

(* linkJwtMethod: payload.email || payload.sub; wallets by address *)
LinkMethod(i) ==
    Method(KindOf[i], IF KindOf[i] = "wallet" THEN i ELSE EmailOf[i])

(* login: payload.email || payload.sub *)
Identifier(sub, i) == IF EmailOf[i] = None THEN sub ELSE EmailOf[i]

MethodsOf(u) == {m \in MethodKeys : methods[m] = u}

(* Mistake: no unique index, an INSERT replaces what is there *)
NeverTaken(m) == FALSE

(* UQ_auth_methods_type_hash refuses an INSERT *)
MethodTaken(m) == methods[m] # None

(* Mistake: no unique constraint on publicKey *)
NeverHeldByOther(u, key) == FALSE

(* UQ_users_publicKey refuses row u the key *)
HeldByOther(u, key) == \E v \in Users \ {u} : rows[v] = key

(* Like `pending-core-kit-${verifierId}%` *)
Placeholders(sub) == {u \in Users : rows[u] = Pending(sub)}

(* Mistake: count and delete without the row locks *)
NoLock(u) == TRUE

(* unlinkMethod's pessimistic_write lock on the user's methods; the        *)
(* requests that only insert or touch methods do not wait for it           *)
Unlocked(u) ==
    \A c \in Calls : calls[c] # None /\ calls[c].pc = "remove" => calls[c].user # u

Insert(m, u) ==
    /\ methods' = [methods EXCEPT ![m] = u]
    /\ had' = had \cup {u}

(* save(copy) of a method row read earlier as u's: an UPDATE of lastUsedAt;*)
(* if it was deleted since, an INSERT of the copy, unless the deletion     *)
(* falls between save's own SELECT and UPDATE                              *)
SaveCopy(m, u) ==
    \/ methods[m] = u /\ UNCHANGED <<methods, had>>
    \/ methods[m] = None /\ (Insert(m, u) \/ UNCHANGED <<methods, had>>)

-----------------------------------------------------------------------------
Init ==
    /\ rows = [u \in Users |-> None]
    /\ methods = [m \in MethodKeys |-> None]
    /\ calls = [c \in Calls |-> None]
    /\ jwts = {}
    /\ mfa = {}
    /\ sessions = {}
    /\ had = {}
    /\ unlinked = {}

NewCall == [pc |-> "touch", user |-> None, ident |-> None, sub |-> None,
            key |-> None, method |-> None]

(* Request c runs on to the access call.pc *)
Continue(c, call) == calls' = [calls EXCEPT ![c] = call]

(* Request c is answered, or fails *)
End(c) == calls' = [calls EXCEPT ![c] = None]

At(c, pc) == calls[c] # None /\ calls[c].pc = pc

-----------------------------------------------------------------------------
(* Identity service: findOrCreateUserByIdentifier, then the JWT *)

Identify(c, i) ==
    LET m == LoginMethod(i)
        call == [NewCall EXCEPT !.ident = i, !.method = m]
    IN
    /\ calls[c] = None
    /\ IF methods[m] # None
         THEN Continue(c, [call EXCEPT !.pc = "touch", !.user = methods[m]])
         ELSE Continue(c, [call EXCEPT !.pc = "create"])
    /\ UNCHANGED <<rows, methods, jwts, mfa, sessions, had, unlinked>>

(* The method exists: save its lastUsedAt and sign a JWT for its user *)
Touch(c) ==
    LET call == calls[c] IN
    /\ At(c, "touch")
    /\ SaveCopy(call.method, call.user)
    /\ jwts' = jwts \cup {[sub |-> call.user, ident |-> call.ident]}
    /\ End(c)
    /\ UNCHANGED <<rows, mfa, sessions, unlinked>>

(* A new users row under a random temporary key *)
CreateUser(c, u) ==
    /\ At(c, "create")
    /\ rows[u] = None
    /\ rows' = [rows EXCEPT ![u] = Temp(u)]
    /\ Continue(c, [calls[c] EXCEPT !.pc = "rename", !.user = u])
    /\ UNCHANGED <<methods, jwts, mfa, sessions, had, unlinked>>

(* Its key becomes the placeholder with its own id *)
RenamePlaceholder(c) ==
    LET call == calls[c] IN
    /\ At(c, "rename")
    /\ ~HeldByOther(call.user, Pending(call.user))
    /\ rows' = [rows EXCEPT ![call.user] = Pending(call.user)]
    /\ Continue(c, [call EXCEPT !.pc = "method"])
    /\ UNCHANGED <<methods, jwts, mfa, sessions, had, unlinked>>

(* Its method is inserted and the JWT signed.  A concurrent first login of *)
(* the same identity may have inserted it already: the request fails, and  *)
(* its users row is left without a method.                                 *)
CreateMethod(c) ==
    LET call == calls[c] IN
    /\ At(c, "method")
    /\ ~MethodTaken(call.method)
    /\ Insert(call.method, call.user)
    /\ jwts' = jwts \cup {[sub |-> call.user, ident |-> call.ident]}
    /\ End(c)
    /\ UNCHANGED <<rows, mfa, sessions, unlinked>>

-----------------------------------------------------------------------------
(* /auth/login *)

(* With its factors at hand Core Kit gives the client the account's key;   *)
(* on a new device of an MFA account the client logs in with the           *)
(* placeholder key first, to reach the device-approval endpoints           *)
KeysSent(j) == {Real(j.sub)} \cup (IF j.sub \in mfa THEN {Pending(j.sub)} ELSE {})

(* The user is looked up by the key sent *)
LoginFind(c, j, key) ==
    LET call == [NewCall EXCEPT !.ident = j.ident, !.sub = j.sub, !.key = key]
        found == {u \in Users : rows[u] = key}
    IN
    /\ calls[c] = None
    /\ key \in KeysSent(j)
    /\ \/ \E u \in found : Continue(c, [call EXCEPT !.pc = "authMethod", !.user = u])
       \/ found = {} /\ Continue(c, [call EXCEPT !.pc = "placeholder"])
    /\ UNCHANGED <<rows, methods, jwts, mfa, sessions, had, unlinked>>

(* else by the placeholder that names the JWT's sub *)
LoginPlaceholder(c) ==
    LET call == calls[c]
        found == Placeholders(call.sub)
    IN
    /\ At(c, "placeholder")
    /\ \/ \E u \in found : Continue(c, [call EXCEPT !.pc = "resolve", !.user = u])
       \/ found = {} /\ Continue(c, [call EXCEPT !.pc = "insert"])
    /\ UNCHANGED <<rows, methods, jwts, mfa, sessions, had, unlinked>>

(* The placeholder row is given the key sent *)
LoginResolve(c) ==
    LET call == calls[c] IN
    /\ At(c, "resolve")
    /\ ~HeldByOther(call.user, call.key)
    /\ rows' = [rows EXCEPT ![call.user] = call.key]
    /\ Continue(c, [call EXCEPT !.pc = "authMethod"])
    /\ UNCHANGED <<methods, jwts, mfa, sessions, had, unlinked>>

(* No row found either way: a new one is inserted *)
LoginInsert(c, u) ==
    LET call == calls[c] IN
    /\ At(c, "insert")
    /\ rows[u] = None
    /\ ~HeldByOther(u, call.key)
    /\ rows' = [rows EXCEPT ![u] = call.key]
    /\ Continue(c, [call EXCEPT !.pc = "authMethod", !.user = u])
    /\ UNCHANGED <<methods, jwts, mfa, sessions, had, unlinked>>

(* The user's method with the JWT's identifier, of whatever type *)
LoginAuthMethod(c) ==
    LET call == calls[c]
        found == {m \in MethodsOf(call.user) : m.hash = Identifier(call.sub, call.ident)}
    IN
    /\ At(c, "authMethod")
    /\ \/ \E m \in found : Continue(c, [call EXCEPT !.pc = "lastUsed", !.method = m])
       \/ found = {} /\ Continue(c, [call EXCEPT !.pc = "anyMethod"])
    /\ UNCHANGED <<rows, methods, jwts, mfa, sessions, had, unlinked>>

(* else any method of the user's *)
LoginAnyMethod(c) ==
    LET call == calls[c]
        found == MethodsOf(call.user)
    IN
    /\ At(c, "anyMethod")
    /\ \/ \E m \in found : Continue(c, [call EXCEPT !.pc = "lastUsed", !.method = m])
       \/ found = {} /\ Continue(c, [call EXCEPT !.pc = "safety"])
    /\ UNCHANGED <<rows, methods, jwts, mfa, sessions, had, unlinked>>

(* identifier.startsWith('0x') ? 'wallet' : 'email': an address or a uuid  *)
InferredType == "email"

(* Safety net: a user without a method gets one; the request fails if the  *)
(* method is another user's                                                *)
LoginSafetyNet(c) ==
    LET call == calls[c]
        m == Method(InferredType, Identifier(call.sub, call.ident))
    IN
    /\ At(c, "safety")
    /\ ~MethodTaken(m)
    /\ Insert(m, call.user)
    /\ Continue(c, [call EXCEPT !.pc = "lastUsed", !.method = m])
    /\ UNCHANGED <<rows, jwts, mfa, sessions, unlinked>>

(* lastUsedAt is saved and tokens are issued for the user *)
LoginTokens(c) ==
    LET call == calls[c] IN
    /\ At(c, "lastUsed")
    /\ SaveCopy(call.method, call.user)
    /\ sessions' = sessions \cup {[row |-> call.user, sub |-> call.sub, key |-> call.key]}
    /\ End(c)
    /\ UNCHANGED <<rows, jwts, mfa, unlinked>>

(* enableMfa, by a client logged in with the account's key *)
EnableMfa(u) ==
    /\ u \notin mfa
    /\ \E s \in sessions : s.row = u /\ s.key = Real(u)
    /\ mfa' = mfa \cup {u}
    /\ UNCHANGED <<rows, methods, calls, jwts, sessions, had, unlinked>>

-----------------------------------------------------------------------------
(* Linking and unlinking, with a session's access token *)

(* A link whose JWT or SIWE message is verified.  A method of another user *)
(* or of this one already is refused (nothing changes, so no step).  The   *)
(* two lookups are one step: what happens between them, the unique index   *)
(* decides at the insert.                                                  *)
Link(c, s, i) ==
    LET m == LinkMethod(i) IN
    /\ calls[c] = None
    /\ s \in sessions
    /\ methods[m] = None
    /\ Continue(c, [NewCall EXCEPT !.pc = "link", !.user = s.row, !.method = m])
    /\ UNCHANGED <<rows, methods, jwts, mfa, sessions, had, unlinked>>

LinkInsert(c) ==
    LET call == calls[c] IN
    /\ At(c, "link")
    /\ ~MethodTaken(call.method)
    /\ Insert(call.method, call.user)
    /\ End(c)
    /\ UNCHANGED <<rows, jwts, mfa, sessions, unlinked>>

(* unlinkMethod locks the user's methods and refuses the last one *)
Unlink(c, s, m) ==
    /\ calls[c] = None
    /\ s \in sessions
    /\ methods[m] = s.row
    /\ Unlocked(s.row)
    /\ \E other \in MethodKeys \ {m} : methods[other] = s.row
    /\ Continue(c, [NewCall EXCEPT !.pc = "remove", !.user = s.row, !.method = m])
    /\ UNCHANGED <<rows, methods, jwts, mfa, sessions, had, unlinked>>

Removed == None

(* The transaction removes it and commits *)
UnlinkCommit(c) ==
    LET call == calls[c] IN
    /\ At(c, "remove")
    /\ methods' = [methods EXCEPT ![call.method] = Removed]
    /\ unlinked' = unlinked \cup {call.method}
    /\ End(c)
    /\ UNCHANGED <<rows, jwts, mfa, sessions, had>>

(* A statement is refused, by a unique index or by a failing database, or  *)
(* the API restarts: the request ends where it stands                      *)
CallFails(c) ==
    /\ calls[c] # None
    /\ End(c)
    /\ UNCHANGED <<rows, methods, jwts, mfa, sessions, had, unlinked>>

-----------------------------------------------------------------------------
IdentityStep(c) ==
    \/ \E i \in Identities : Identify(c, i)
    \/ \E u \in Users : CreateUser(c, u)
    \/ Touch(c) \/ RenamePlaceholder(c) \/ CreateMethod(c)

LoginStep(c) ==
    \/ \E j \in jwts, key \in Keys : LoginFind(c, j, key)
    \/ \E u \in Users : LoginInsert(c, u)
    \/ LoginPlaceholder(c) \/ LoginResolve(c) \/ LoginAuthMethod(c)
    \/ LoginAnyMethod(c) \/ LoginSafetyNet(c) \/ LoginTokens(c)

MethodStep(c) ==
    \/ \E s \in sessions, i \in Identities : Link(c, s, i)
    \/ \E s \in sessions, m \in MethodKeys : Unlink(c, s, m)
    \/ LinkInsert(c) \/ UnlinkCommit(c)

Next ==
    \/ \E c \in Calls : IdentityStep(c) \/ LoginStep(c) \/ MethodStep(c) \/ CallFails(c)
    \/ \E u \in Users : EnableMfa(u)

Spec == Init /\ [][Next]_vars

-----------------------------------------------------------------------------
(* Properties *)

(* Every variable holds what the tables and requests can hold. *)
TypeOK ==
    /\ rows \in [Users -> Keys \cup {None}]
    /\ methods \in [MethodKeys -> Users \cup {None}]
    /\ calls \in [Calls -> Call \cup {None}]
    /\ jwts \in SUBSET Jwt
    /\ mfa \in SUBSET Users
    /\ sessions \in SUBSET Session
    /\ had \in SUBSET Users
    /\ unlinked \in SUBSET MethodKeys

(* A row is a phantom of the account its key belongs to when a temporary   *)
(* login inserted it                                                       *)
Phantom(u) == rows[u] # None /\ rows[u].of # u

(* A login with the key Core Kit derived is answered with tokens for the   *)
(* very account the identity service named, whatever placeholder rows,     *)
(* first logins and MFA logins race with it: nobody is given an empty      *)
(* second account, and nobody another one's.  (Unless the JWT itself names *)
(* a phantom, the row of a temporary login of an account past its first.)  *)
KeyedSessionIsAccount ==
    \A s \in sessions :
        s.key = Real(s.sub) /\ ~Phantom(s.sub) => s.row = s.sub

(* No login, however stale what it read, takes a row's real key away or    *)
(* changes it: the vault and every share are encrypted to it.              *)
KeyNeverLost ==
    [][\A u \in Users :
          rows[u] # None /\ rows[u].kind = "real" => rows'[u] = rows[u]]_vars

(* "Cannot unlink the last remaining auth method": a user who ever had a   *)
(* way to sign in keeps one, under concurrent unlinks.                     *)
LastMethodKept == \A u \in had : \E m \in MethodKeys : methods[m] = u

(* Until its method is unlinked, an identity always signs in to the same   *)
(* account, also when its first logins race each other or a link.          *)
OneAccountPerIdentity ==
    \A j, k \in jwts :
        j.ident = k.ident /\ LoginMethod(j.ident) \notin unlinked => j.sub = k.sub

-----------------------------------------------------------------------------
(* The inductive invariant *)

(* A row that is past its temporary key *)
Settled(u) == rows[u] # None /\ rows[u].kind # "temp"

(* A temporary key is the row's own.  A row under the placeholder of       *)
(* another account exists only once that account has its real key; a row   *)
(* under the real key of another id only if that id is a phantom.          *)
RowsOwned ==
    \A u, v \in Users :
        /\ rows[u] = Temp(v) => u = v
        /\ rows[u] = Pending(v) /\ u # v => rows[v] = Real(v)
        /\ rows[u] = Real(v) /\ u # v => Settled(v) /\ Phantom(v)

(* UQ_users_publicKey *)
KeysUnique == \A u, v \in Users : rows[u] # None /\ rows[u] = rows[v] => u = v

(* JWTs, methods, sessions and MFA are of settled rows; tokens handed out  *)
(* for a real key are of the row that holds it                             *)
ClientsSettled ==
    /\ \A j \in jwts : Settled(j.sub)
    /\ \A m \in MethodKeys : methods[m] # None => Settled(methods[m])
    /\ \A s \in sessions : /\ Settled(s.row)
                           /\ s.key = Real(s.sub) => rows[s.row] = s.key
                           /\ s.key \in {Real(s.sub), Pending(s.sub)}
    /\ \A u \in mfa : rows[u] = Real(u)

LoginPcs == {"placeholder", "resolve", "insert", "authMethod", "anyMethod",
             "safety", "lastUsed"}

(* What a request still at work knows of the rows.  A placeholder found is *)
(* the account's own or, the account having its real key, a phantom's.     *)
CallSettled(call) ==
    /\ call.pc \in {"touch", "method", "authMethod", "anyMethod", "safety",
                    "lastUsed", "link", "remove"}
          => call.user \in Users /\ Settled(call.user)
    /\ call.pc = "rename" => call.user \in Users /\ rows[call.user] = Temp(call.user)
    /\ call.pc \in LoginPcs =>
          /\ call.sub \in Users /\ Settled(call.sub)
          /\ \/ call.key = Real(call.sub)
             \/ call.key = Pending(call.sub) /\ rows[call.sub] = Real(call.sub)
    /\ call.pc = "insert" => rows[call.sub] # Pending(call.sub)
    /\ call.pc = "resolve" =>
          /\ call.user \in Users
          /\ \/ /\ call.user = call.sub /\ call.key = Real(call.sub)
                /\ rows[call.sub] \in {Pending(call.sub), Real(call.sub)}
             \/ /\ call.user # call.sub /\ rows[call.user] = Pending(call.sub)
                /\ rows[call.sub] = Real(call.sub)
    /\ call.pc \in {"authMethod", "anyMethod", "safety", "lastUsed"}
          => (call.key = Real(call.sub) => rows[call.user] = call.key)

CallsSettled == \A c \in Calls : calls[c] # None => CallSettled(calls[c])

(* Requests that start do so with what their first step needs *)
CallsComplete ==
    \A c \in Calls : calls[c] # None =>
        /\ calls[c].pc \in {"touch", "create", "rename", "method"}
              => /\ calls[c].ident \in Identities
                 /\ calls[c].method = LoginMethod(calls[c].ident)
        /\ calls[c].pc \in LoginPcs => calls[c].ident \in Identities
        /\ calls[c].pc \in {"touch", "lastUsed", "link", "remove"}
              => calls[c].method \in MethodKeys

(* No two requests rename one row, or unlink methods of one user *)
CallsApart ==
    \A c, d \in Calls : \A pc \in {"rename", "remove"} :
        At(c, pc) /\ At(d, pc) /\ c # d => calls[c].user # calls[d].user

RowsInv ==
    /\ TypeOK
    /\ RowsOwned
    /\ KeysUnique
    /\ ClientsSettled
    /\ CallsSettled
    /\ CallsComplete
    /\ CallsApart

(* An unlink holding the lock removes a method and leaves another *)
UnlinksLeaveOne ==
    \A c \in Calls : At(c, "remove") =>
        /\ methods[calls[c].method] = calls[c].user
        /\ \E other \in MethodKeys \ {calls[c].method} : methods[other] = calls[c].user

(* A JWT names the user of its identity's method, until that is unlinked *)
JwtsNameOwner ==
    /\ \A j \in jwts : \/ LoginMethod(j.ident) \in unlinked
                       \/ methods[LoginMethod(j.ident)] = j.sub
    /\ \A c \in Calls : At(c, "touch") => \/ calls[c].method \in unlinked
                                           \/ methods[calls[c].method] = calls[c].user

AccountsInv ==
    /\ RowsInv
    /\ UnlinksLeaveOne
    /\ JwtsNameOwner
    /\ LastMethodKept
=============================================================================
