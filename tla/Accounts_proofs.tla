---------------------------- MODULE Accounts_proofs ----------------------------
(* Theorems about Accounts for every set of users, identities and          *)
(* concurrent requests.                                                    *)
EXTENDS Accounts, TLAPS

(* How rows change: a settled row stays as it is or trades a placeholder   *)
(* for the real key it stands for                                          *)
Advance ==
    \A u \in Users : Settled(u) =>
        \/ rows'[u] = rows[u]
        \/ \E v \in Users : rows[u] = Pending(v) /\ rows'[u] = Real(v)

LEMMA KeyValues ==
    /\ \A u \in Users : Temp(u) \in Keys /\ Pending(u) \in Keys /\ Real(u) \in Keys
    /\ \A u, v \in Users : /\ Temp(u) # Pending(v) /\ Temp(u) # Real(v)
                           /\ Pending(u) # Real(v)
    /\ \A u, v \in Users : /\ Temp(u) = Temp(v) => u = v
                           /\ Pending(u) = Pending(v) => u = v
                           /\ Real(u) = Real(v) => u = v
    /\ \A k \in Keys : \E u \in Users : k \in {Temp(u), Pending(u), Real(u)}
    /\ \A u \in Users : /\ Temp(u).kind = "temp" /\ Pending(u).kind = "pending"
                        /\ Real(u).kind = "real"
                        /\ Temp(u).of = u /\ Pending(u).of = u /\ Real(u).of = u
                        /\ Temp(u) # None /\ Pending(u) # None /\ Real(u) # None
  BY AccountsAssumption DEF Keys, Temp, Pending, Real

LEMMA MethodValues ==
    ASSUME NEW i \in Identities
    PROVE  LoginMethod(i) \in MethodKeys /\ LinkMethod(i) \in MethodKeys
  BY AccountsAssumption DEF LoginMethod, LinkMethod, Method, MethodKeys, Hashes, Kinds

LEMMA SafetyMethodValue ==
    ASSUME NEW i \in Identities, NEW u \in Users
    PROVE  Method(InferredType, Identifier(u, i)) \in MethodKeys
  BY AccountsAssumption DEF Method, MethodKeys, Hashes, Kinds, InferredType, Identifier

(* A call is a record, and changing some of its fields changes only those *)
LEMMA CallFields ==
    ASSUME NEW call \in Call,
           NEW pc \in {"create", "rename", "method", "touch", "placeholder", "resolve",
                       "insert", "authMethod", "anyMethod", "safety", "lastUsed",
                       "link", "remove"},
           NEW u \in Users \cup {None}, NEW m \in MethodKeys \cup {None}
    PROVE  /\ call # None
           /\ [call EXCEPT !.pc = pc] \in Call
           /\ [call EXCEPT !.pc = pc, !.user = u] \in Call
           /\ [call EXCEPT !.pc = pc, !.method = m] \in Call
<1>1. call # None
  BY NoneAssumption
<1>2. [call EXCEPT !.pc = pc] \in Call
  BY DEF Call
<1>3. [call EXCEPT !.pc = pc, !.user = u] \in Call
  BY DEF Call
<1>4. [call EXCEPT !.pc = pc, !.method = m] \in Call
  BY DEF Call
<1> QED
  BY <1>1, <1>2, <1>3, <1>4

LEMMA NewCalls ==
    /\ \A i \in Identities, m \in MethodKeys :
          [NewCall EXCEPT !.ident = i, !.method = m] \in Call
    /\ \A i \in Identities, u \in Users, k \in Keys :
          [NewCall EXCEPT !.ident = i, !.sub = u, !.key = k] \in Call
    /\ NewCall \in Call
  BY DEF NewCall, Call

-----------------------------------------------------------------------------
(* Type correctness *)

LEMMA SaveCopyType ==
    ASSUME TypeOK, NEW m \in MethodKeys, NEW u \in Users, SaveCopy(m, u)
    PROVE  /\ methods' \in [MethodKeys -> Users \cup {None}]
           /\ had' \in SUBSET Users
  BY DEF TypeOK, SaveCopy, Insert

LEMMA ActionType ==
    ASSUME NEW c \in Calls, TypeOK, CallsSettled, CallsComplete,
           IdentityStep(c) \/ LoginStep(c) \/ MethodStep(c) \/ CallFails(c)
    PROVE  TypeOK'
<1> DEFINE call == calls[c]
<1>0. /\ rows \in [Users -> Keys \cup {None}] /\ methods \in [MethodKeys -> Users \cup {None}]
      /\ calls \in [Calls -> Call \cup {None}] /\ jwts \in SUBSET Jwt
      /\ mfa \in SUBSET Users /\ sessions \in SUBSET Session
      /\ had \in SUBSET Users /\ unlinked \in SUBSET MethodKeys
  BY DEF TypeOK
<1>1. calls[c] # None => CallSettled(calls[c])
  BY DEF CallsSettled
<1>c. /\ \A x \in Call : Continue(c, x) => calls' \in [Calls -> Call \cup {None}]
      /\ End(c) => calls' \in [Calls -> Call \cup {None}]
  BY <1>0 DEF Continue, End
<1>2. ASSUME NEW i \in Identities, Identify(c, i) PROVE TypeOK'
  <2>1. LoginMethod(i) \in MethodKeys
    BY MethodValues
  <2> DEFINE new == [NewCall EXCEPT !.ident = i, !.method = LoginMethod(i)]
  <2>2. new \in Call
    BY <2>1, NewCalls
  <2>3. [new EXCEPT !.pc = "create"] \in Call
    BY <2>2, CallFields
  <2>4. methods[LoginMethod(i)] # None =>
           [new EXCEPT !.pc = "touch", !.user = methods[LoginMethod(i)]] \in Call
    BY <2>1, <2>2, <1>0, CallFields
  <2> HIDE DEF new
  <2>5. calls' \in [Calls -> Call \cup {None}]
    BY <1>2, <1>c, <2>3, <2>4 DEF Identify, new
  <2> QED
    BY <1>2, <1>0, <2>5 DEF Identify, TypeOK
<1>3. ASSUME Touch(c) PROVE TypeOK'
  <2>1. call.method \in MethodKeys /\ call.user \in Users /\ call.ident \in Identities
    BY <1>3, <1>1 DEF Touch, At, CallsComplete, CallSettled
  <2>2. methods' \in [MethodKeys -> Users \cup {None}] /\ had' \in SUBSET Users
    BY <1>3, <2>1, SaveCopyType DEF Touch
  <2>3. jwts' \in SUBSET Jwt
    BY <1>3, <2>1, <1>0 DEF Touch, Jwt
  <2> QED
    BY <1>3, <1>0, <1>c, <2>2, <2>3 DEF Touch, TypeOK
<1>4. ASSUME NEW u \in Users, CreateUser(c, u) PROVE TypeOK'
  <2>1. [call EXCEPT !.pc = "rename", !.user = u] \in Call
    BY <1>4, <1>0, CallFields DEF CreateUser, At
  <2> QED
    BY <1>4, <1>0, <1>c, <2>1, KeyValues DEF CreateUser, TypeOK
<1>5. ASSUME RenamePlaceholder(c) PROVE TypeOK'
  <2>1. [call EXCEPT !.pc = "method"] \in Call
    BY <1>5, <1>0, CallFields DEF RenamePlaceholder, At
  <2>2. call.user \in Users
    BY <1>5, <1>1 DEF RenamePlaceholder, At, CallSettled
  <2> QED
    BY <1>5, <1>0, <1>c, <2>1, <2>2, KeyValues DEF RenamePlaceholder, TypeOK
<1>6. ASSUME CreateMethod(c) PROVE TypeOK'
  <2>1. call.user \in Users /\ call.ident \in Identities /\ call.method \in MethodKeys
    BY <1>6, <1>1, MethodValues DEF CreateMethod, At, CallSettled, CallsComplete
  <2> QED
    BY <1>6, <1>0, <1>c, <2>1 DEF CreateMethod, Insert, TypeOK, Jwt
<1>7. ASSUME NEW j \in jwts, NEW key \in Keys, LoginFind(c, j, key) PROVE TypeOK'
  <2> DEFINE new == [NewCall EXCEPT !.ident = j.ident, !.sub = j.sub, !.key = key]
  <2>1. new \in Call
    BY <1>0, NewCalls DEF Jwt
  <2>2. [new EXCEPT !.pc = "placeholder"] \in Call
    BY <2>1, CallFields
  <2>3. \A u \in Users : [new EXCEPT !.pc = "authMethod", !.user = u] \in Call
    BY <2>1, CallFields
  <2> HIDE DEF new
  <2>4. calls' \in [Calls -> Call \cup {None}]
    BY <1>7, <1>c, <2>2, <2>3 DEF LoginFind, new
  <2> QED
    BY <1>7, <1>0, <2>4 DEF LoginFind, TypeOK
<1>8. ASSUME LoginPlaceholder(c) PROVE TypeOK'
  <2>1. call \in Call
    BY <1>8, <1>0 DEF LoginPlaceholder, At
  <2>2. [call EXCEPT !.pc = "insert"] \in Call
    BY <2>1, CallFields
  <2>3. \A u \in Users : [call EXCEPT !.pc = "resolve", !.user = u] \in Call
    BY <2>1, CallFields
  <2>4. calls' \in [Calls -> Call \cup {None}]
    BY <1>8, <1>c, <2>2, <2>3 DEF LoginPlaceholder, Placeholders
  <2> QED
    BY <1>8, <1>0, <2>4 DEF LoginPlaceholder, TypeOK
<1>9. ASSUME LoginResolve(c) PROVE TypeOK'
  <2>1. call \in Call /\ call.user \in Users /\ call.key \in Keys
    BY <1>9, <1>0, <1>1, KeyValues DEF LoginResolve, At, CallSettled, LoginPcs
  <2>2. [call EXCEPT !.pc = "authMethod"] \in Call
    BY <2>1, CallFields
  <2> QED
    BY <1>9, <1>0, <1>c, <2>1, <2>2 DEF LoginResolve, TypeOK
<1>10. ASSUME NEW u \in Users, LoginInsert(c, u) PROVE TypeOK'
  <2>1. call \in Call /\ call.key \in Keys
    BY <1>10, <1>0, <1>1, KeyValues DEF LoginInsert, At, CallSettled, LoginPcs
  <2>2. [call EXCEPT !.pc = "authMethod", !.user = u] \in Call
    BY <2>1, CallFields
  <2> QED
    BY <1>10, <1>0, <1>c, <2>1, <2>2 DEF LoginInsert, TypeOK
<1>11. ASSUME LoginAuthMethod(c) \/ LoginAnyMethod(c) PROVE TypeOK'
  <2>1. call \in Call
    BY <1>11, <1>0 DEF LoginAuthMethod, LoginAnyMethod, At
  <2>2. [call EXCEPT !.pc = "anyMethod"] \in Call /\ [call EXCEPT !.pc = "safety"] \in Call
    BY <2>1, CallFields
  <2>3. \A m \in MethodKeys : [call EXCEPT !.pc = "lastUsed", !.method = m] \in Call
    BY <2>1, CallFields
  <2>4. calls' \in [Calls -> Call \cup {None}]
    BY <1>11, <1>c, <2>2, <2>3 DEF LoginAuthMethod, LoginAnyMethod, MethodsOf
  <2> QED
    BY <1>11, <1>0, <2>4 DEF LoginAuthMethod, LoginAnyMethod, TypeOK
<1>12. ASSUME LoginSafetyNet(c) PROVE TypeOK'
  <2> DEFINE m == Method(InferredType, Identifier(call.sub, call.ident))
  <2>1. call \in Call /\ call.user \in Users /\ call.sub \in Users /\ call.ident \in Identities
    BY <1>12, <1>0, <1>1 DEF LoginSafetyNet, At, CallSettled, CallsComplete, LoginPcs
  <2>2. m \in MethodKeys
    BY <2>1, SafetyMethodValue
  <2>3. [call EXCEPT !.pc = "lastUsed", !.method = m] \in Call
    BY <2>1, <2>2, CallFields
  <2> HIDE DEF m
  <2>4. calls' \in [Calls -> Call \cup {None}] /\ Insert(m, call.user)
    BY <1>12, <1>c, <2>3 DEF LoginSafetyNet, m
  <2> QED
    BY <1>12, <1>0, <2>1, <2>2, <2>4 DEF LoginSafetyNet, Insert, TypeOK
<1>13. ASSUME LoginTokens(c) PROVE TypeOK'
  <2>1. /\ call.method \in MethodKeys /\ call.user \in Users /\ call.sub \in Users
        /\ call.key \in Keys
    BY <1>13, <1>0, <1>1, KeyValues DEF LoginTokens, At, CallSettled, CallsComplete, LoginPcs
  <2>2. methods' \in [MethodKeys -> Users \cup {None}] /\ had' \in SUBSET Users
    BY <1>13, <2>1, SaveCopyType DEF LoginTokens
  <2>3. sessions' \in SUBSET Session
    BY <1>13, <2>1, <1>0 DEF LoginTokens, Session
  <2> QED
    BY <1>13, <1>0, <1>c, <2>2, <2>3 DEF LoginTokens, TypeOK
<1>14. ASSUME NEW s \in sessions, NEW i \in Identities, Link(c, s, i) PROVE TypeOK'
  <2>1. LinkMethod(i) \in MethodKeys /\ s.row \in Users
    BY <1>0, MethodValues DEF Session
  <2>2. [NewCall EXCEPT !.pc = "link", !.user = s.row, !.method = LinkMethod(i)] \in Call
    BY <2>1 DEF NewCall, Call
  <2> QED
    BY <1>14, <1>0, <1>c, <2>2 DEF Link, TypeOK
<1>15. ASSUME LinkInsert(c) PROVE TypeOK'
  <2>1. call.user \in Users /\ call.method \in MethodKeys
    BY <1>15, <1>1 DEF LinkInsert, At, CallSettled, CallsComplete
  <2> QED
    BY <1>15, <1>0, <1>c, <2>1 DEF LinkInsert, Insert, TypeOK
<1>16. ASSUME NEW s \in sessions, NEW m \in MethodKeys, Unlink(c, s, m) PROVE TypeOK'
  <2>1. s.row \in Users
    BY <1>0 DEF Session
  <2>2. [NewCall EXCEPT !.pc = "remove", !.user = s.row, !.method = m] \in Call
    BY <2>1 DEF NewCall, Call
  <2> QED
    BY <1>16, <1>0, <1>c, <2>2 DEF Unlink, TypeOK
<1>17. ASSUME UnlinkCommit(c) PROVE TypeOK'
  <2>1. call.method \in MethodKeys
    BY <1>17 DEF UnlinkCommit, At, CallsComplete
  <2> QED
    BY <1>17, <1>0, <1>c, <2>1 DEF UnlinkCommit, Removed, TypeOK
<1>18. ASSUME CallFails(c) PROVE TypeOK'
  BY <1>18, <1>0, <1>c DEF CallFails, TypeOK
<1> QED
  BY <1>2, <1>3, <1>4, <1>5, <1>6, <1>7, <1>8, <1>9, <1>10, <1>11, <1>12, <1>13,
     <1>14, <1>15, <1>16, <1>17, <1>18 DEF IdentityStep, LoginStep, MethodStep
-----------------------------------------------------------------------------
(* Rows *)

LEMMA SettledKept ==
    ASSUME Advance
    PROVE  /\ \A u \in Users : Settled(u) => Settled(u)'
           /\ \A u, v \in Users : rows[u] = Real(v) => rows'[u] = Real(v)
<1>1. ASSUME NEW u \in Users, Settled(u) PROVE Settled(u)'
  BY <1>1, KeyValues DEF Advance, Settled
<1>2. ASSUME NEW u \in Users, NEW v \in Users, rows[u] = Real(v) PROVE rows'[u] = Real(v)
  BY <1>2, KeyValues DEF Advance, Settled
<1> QED
  BY <1>1, <1>2

LEMMA RowsUnchanged ==
    ASSUME TypeOK, RowsOwned, KeysUnique, UNCHANGED rows
    PROVE  Advance /\ RowsOwned' /\ KeysUnique'
<1>1. Advance
  BY DEF Advance
<1>2. RowsOwned'
  BY DEF RowsOwned, Settled, Phantom
<1>3. KeysUnique'
  BY DEF KeysUnique
<1> QED
  BY <1>1, <1>2, <1>3

(* A row takes a key of its own *)
LEMMA RowTakesKey ==
    ASSUME TypeOK, RowsOwned, KeysUnique,
           NEW u \in Users, NEW key \in Keys, ~HeldByOther(u, key),
           rows' = [rows EXCEPT ![u] = key]
    PROVE  KeysUnique'
  BY DEF KeysUnique, HeldByOther, TypeOK

(* What a request knows stays true while the rows advance *)
LEMMA CallKept ==
    ASSUME TypeOK, Advance, KeysUnique', NEW call \in Call, CallSettled(call),
           call.pc = "rename" => rows'[call.user] = rows[call.user]
    PROVE  CallSettled(call)'
<1>0. /\ \A u \in Users : Settled(u) => Settled(u)'
      /\ \A u, v \in Users : rows[u] = Real(v) => rows'[u] = Real(v)
  BY SettledKept
<1>1. CASE call.pc = "rename"
  BY <1>1 DEF CallSettled, LoginPcs
<1>2. CASE call.pc \in {"touch", "method", "link", "remove", "create"}
  BY <1>2, <1>0 DEF CallSettled, LoginPcs
<1>3. CASE call.pc \in {"authMethod", "anyMethod", "safety", "lastUsed", "placeholder"}
  BY <1>3, <1>0 DEF CallSettled, LoginPcs
<1>4. CASE call.pc = "insert"
  <2>1. call.sub \in Users /\ Settled(call.sub) /\ rows[call.sub] # Pending(call.sub)
    BY <1>4 DEF CallSettled, LoginPcs
  <2>2. rows'[call.sub] # Pending(call.sub)
    BY <2>1, KeyValues DEF Advance
  <2> QED
    BY <1>4, <1>0, <2>1, <2>2 DEF CallSettled, LoginPcs
<1>5. CASE call.pc = "resolve"
  <2>1. /\ call.sub \in Users /\ call.user \in Users /\ Settled(call.sub)
        /\ \/ /\ call.user = call.sub /\ call.key = Real(call.sub)
              /\ rows[call.sub] \in {Pending(call.sub), Real(call.sub)}
           \/ /\ call.user # call.sub /\ rows[call.user] = Pending(call.sub)
              /\ rows[call.sub] = Real(call.sub)
    BY <1>5 DEF CallSettled, LoginPcs
  <2>2. CASE call.user = call.sub
    <3>1. rows'[call.sub] \in {Pending(call.sub), Real(call.sub)}
      BY <2>1, <2>2, KeyValues DEF Advance
    <3> QED
      BY <1>5, <1>0, <2>1, <2>2, <3>1 DEF CallSettled, LoginPcs
  <2>3. CASE call.user # call.sub
    <3>1. rows'[call.sub] = Real(call.sub)
      BY <1>0, <2>1, <2>3
    <3>2. Settled(call.user)
      BY <2>1, <2>3, KeyValues DEF Settled
    <3>3. rows'[call.user] = Pending(call.sub) \/ rows'[call.user] = Real(call.sub)
      BY <2>1, <2>3, <3>2, KeyValues DEF Advance
    <3>4. rows'[call.user] = Pending(call.sub)
      BY <2>1, <2>3, <3>1, <3>3, KeyValues DEF KeysUnique
    <3> QED
      BY <1>5, <1>0, <2>1, <2>3, <3>1, <3>4 DEF CallSettled, LoginPcs
  <2> QED
    BY <2>2, <2>3
<1> QED
  BY <1>1, <1>2, <1>3, <1>4, <1>5 DEF Call

(* What request c leaves behind: rows that advanced, and its own next step *)
(* prepared                                                                *)
Stepped(c) ==
    /\ Advance /\ RowsOwned' /\ KeysUnique'
    /\ \A d \in Calls \ {c} :
          /\ calls'[d] = calls[d]
          /\ At(d, "rename") => rows'[calls[d].user] = rows[calls[d].user]
          /\ \A pc \in {"rename", "remove"} :
                At(d, pc) /\ At(c, pc)' => calls'[c].user # calls[d].user
    /\ (calls[c] # None => CallSettled(calls[c]))'
    /\ (calls[c] # None =>
          /\ calls[c].pc \in {"touch", "create", "rename", "method"}
                => /\ calls[c].ident \in Identities
                   /\ calls[c].method = LoginMethod(calls[c].ident)
          /\ calls[c].pc \in LoginPcs => calls[c].ident \in Identities
          /\ calls[c].pc \in {"touch", "lastUsed", "link", "remove"}
                => calls[c].method \in MethodKeys)'

LEMMA SteppedKeeps ==
    ASSUME NEW c \in Calls, RowsInv, TypeOK', Stepped(c)
    PROVE  CallsSettled' /\ CallsComplete' /\ CallsApart'
<1> USE DEF RowsInv, Stepped
<1>1. ASSUME NEW d \in Calls, calls'[d] # None PROVE CallSettled(calls[d])'
  <2>1. CASE d = c
    BY <1>1, <2>1
  <2>2. CASE d # c
    <3>1. PICK x \in Call : x = calls[d] /\ x = calls'[d]
      BY <1>1, <2>2 DEF TypeOK
    <3>2. CallSettled(x)
      BY <1>1, <3>1, NoneAssumption DEF CallsSettled
    <3>3. x.pc = "rename" => rows'[x.user] = rows[x.user]
      BY <2>2, <3>1, NoneAssumption DEF At
    <3>4. CallSettled(x)'
      BY <3>2, <3>3, CallKept
    <3> QED
      BY <3>1, <3>4 DEF CallSettled, Settled
  <2> QED
    BY <2>1, <2>2
<1>2. CallsSettled'
  BY <1>1 DEF CallsSettled
<1>3. CallsComplete'
  BY DEF CallsComplete
<1>4. CallsApart'
  BY DEF CallsApart, At
<1> QED
  BY <1>2, <1>3, <1>4

(* A request that ends, or goes on without touching the rows *)
LEMMA EndSteps ==
    ASSUME NEW c \in Calls, RowsInv, UNCHANGED rows, End(c)
    PROVE  Stepped(c)
<1>1. Advance /\ RowsOwned' /\ KeysUnique'
  BY RowsUnchanged DEF RowsInv
<1>2. calls'[c] = None /\ \A d \in Calls \ {c} : calls'[d] = calls[d]
  BY DEF End, RowsInv, TypeOK
<1> QED
  BY <1>1, <1>2 DEF Stepped, At

(* A step to an access that neither renames nor removes *)
LEMMA GoesOn ==
    ASSUME NEW c \in Calls, RowsInv, NEW x \in Call, Continue(c, x),
           x.pc \notin {"rename", "remove"},
           Advance, RowsOwned', KeysUnique',
           \A d \in Calls \ {c} : At(d, "rename") => rows'[calls[d].user] = rows[calls[d].user],
           CallSettled(x)',
           x.pc \in {"touch", "create", "method"} \cup LoginPcs => x.ident \in Identities,
           x.pc \in {"touch", "create", "method"} => x.method = LoginMethod(x.ident),
           x.pc \in {"touch", "lastUsed", "link"} => x.method \in MethodKeys
    PROVE  Stepped(c)
<1>1. calls'[c] = x /\ \A d \in Calls \ {c} : calls'[d] = calls[d]
  BY DEF Continue, RowsInv, TypeOK
<1>2. CallSettled(calls[c])'
  BY <1>1 DEF CallSettled, Settled
<1> QED
  BY <1>1, <1>2 DEF Stepped, At

LEMMA IdentityStepped ==
    ASSUME NEW c \in Calls, RowsInv, IdentityStep(c)
    PROVE  Stepped(c)
<1> DEFINE call == calls[c]
<1> USE DEF RowsInv
<1>1. /\ rows \in [Users -> Keys \cup {None}] /\ methods \in [MethodKeys -> Users \cup {None}]
      /\ calls \in [Calls -> Call \cup {None}]
  BY DEF TypeOK
<1>2. calls[c] # None => call \in Call /\ CallSettled(call)
  BY <1>1 DEF CallsSettled
<1>3. ASSUME NEW i \in Identities, Identify(c, i) PROVE Stepped(c)
  <2> DEFINE m == LoginMethod(i)
             new == [NewCall EXCEPT !.ident = i, !.method = m]
  <2>1. m \in MethodKeys /\ new \in Call /\ UNCHANGED rows
    BY <1>3, MethodValues, NewCalls DEF Identify
  <2>2. Advance /\ RowsOwned' /\ KeysUnique'
    BY <2>1, RowsUnchanged
  <2>3. CASE methods[m] # None
    <3>0. PICK u \in Users : u = methods[m]
      BY <2>1, <2>3, <1>1
    <3> DEFINE x == [new EXCEPT !.pc = "touch", !.user = u]
    <3>1. x \in Call /\ x.pc = "touch" /\ x.user = u /\ x.ident = i /\ x.method = m
      BY <2>1, CallFields DEF NewCall
    <3>2. Settled(u)'
      BY <2>1, <2>3, <3>0 DEF ClientsSettled, Settled
    <3>3. Continue(c, x)
      BY <1>3, <2>3, <3>0 DEF Identify
    <3> HIDE DEF x
    <3>4. CallSettled(x)'
      BY <3>1, <3>2 DEF CallSettled, LoginPcs
    <3>5. /\ x.pc = "touch" /\ x.ident \in Identities /\ x.method = LoginMethod(x.ident)
          /\ x.method \in MethodKeys
      BY <2>1, <3>1
    <3>6. \A d \in Calls \ {c} : rows'[calls[d].user] = rows[calls[d].user]
      BY <2>1
    <3> QED
      BY <2>2, <3>1, <3>3, <3>4, <3>5, <3>6, GoesOn
  <2>4. CASE methods[m] = None
    <3> DEFINE x == [new EXCEPT !.pc = "create"]
    <3>1. x \in Call /\ x.pc = "create" /\ x.ident = i /\ x.method = m
      BY <2>1, CallFields DEF NewCall
    <3>3. Continue(c, x)
      BY <1>3, <2>4 DEF Identify
    <3> HIDE DEF x, m
    <3>4. CallSettled(x)'
      BY <3>1 DEF CallSettled, LoginPcs
    <3> QED
      BY <2>1, <2>2, <3>1, <3>3, <3>4, GoesOn DEF m, LoginPcs
  <2> QED
    BY <2>3, <2>4
<1>4. ASSUME Touch(c) \/ CreateMethod(c) PROVE Stepped(c)
  BY <1>4, EndSteps DEF Touch, CreateMethod
<1>5. ASSUME NEW u \in Users, CreateUser(c, u) PROVE Stepped(c)
  <2> DEFINE x == [call EXCEPT !.pc = "rename", !.user = u]
  <2>1. call # None /\ call.pc = "create" /\ rows[u] = None
        /\ rows' = [rows EXCEPT ![u] = Temp(u)] /\ Continue(c, x)
    BY <1>5 DEF CreateUser, At
  <2>2. /\ x.pc = "rename" /\ x.user = u /\ x.ident = call.ident /\ x.method = call.method
        /\ call.ident \in Identities /\ call.method = LoginMethod(call.ident)
    BY <2>1, <1>2 DEF Call, CallsComplete
  <2>3. calls'[c] = x /\ \A d \in Calls \ {c} : calls'[d] = calls[d]
    BY <2>1, <1>1 DEF Continue
  <2> HIDE DEF x
  <2>4. rows'[u] = Temp(u) /\ \A v \in Users \ {u} : rows'[v] = rows[v]
    BY <2>1, <1>1
  <2>5. Advance
    BY <2>1, <2>4 DEF Advance, Settled
  <2>6. ~HeldByOther(u, Temp(u))
    BY <1>1, KeyValues DEF HeldByOther, RowsOwned
  <2>7. KeysUnique'
    BY <2>1, <2>6, RowTakesKey, KeyValues
  <2>8. RowsOwned'
    <3>1. \A v, w \in Users : rows'[v] = Temp(w) => v = w
      BY <2>4, KeyValues DEF RowsOwned
    <3>2. \A v, w \in Users : rows'[v] = Pending(w) /\ v # w => rows'[w] = Real(w)
      BY <2>1, <2>4, KeyValues DEF RowsOwned
    <3>3. \A v, w \in Users : rows'[v] = Real(w) /\ v # w => (Settled(w) /\ Phantom(w))'
      BY <2>1, <2>4, KeyValues DEF RowsOwned, Settled, Phantom
    <3> QED
      BY <3>1, <3>2, <3>3 DEF RowsOwned
  <2>9. \A d \in Calls \ {c} : At(d, "rename") =>
             calls[d].user \in Users \ {u} /\ rows'[calls[d].user] = rows[calls[d].user]
    BY <2>1, <2>4, KeyValues DEF At, CallsSettled, CallSettled
  <2>10. CallSettled(calls[c])'
    BY <2>2, <2>3, <2>4 DEF CallSettled, LoginPcs
  <2> QED
    BY <2>2, <2>3, <2>5, <2>7, <2>8, <2>9, <2>10 DEF Stepped, At, LoginPcs
<1>6. ASSUME RenamePlaceholder(c) PROVE Stepped(c)
  <2> DEFINE x == [call EXCEPT !.pc = "method"]
             u == call.user
  <2>1. call # None /\ call.pc = "rename" /\ ~HeldByOther(u, Pending(u))
        /\ rows' = [rows EXCEPT ![u] = Pending(u)] /\ Continue(c, x)
    BY <1>6 DEF RenamePlaceholder, At
  <2>2. u \in Users /\ rows[u] = Temp(u)
    BY <2>1, <1>2 DEF CallSettled
  <2>a. call.ident \in Identities /\ call.method = LoginMethod(call.ident)
    BY <2>1 DEF CallsComplete
  <2>b. x \in Call
    BY <2>1, <1>2, CallFields
  <2>3. /\ x \in Call /\ x.pc = "method" /\ x.user = u /\ x.ident = call.ident
        /\ x.method = call.method
        /\ call.ident \in Identities /\ call.method = LoginMethod(call.ident)
    BY <2>1, <1>2, <2>a, <2>b DEF Call
  <2> HIDE DEF x
  <2>4. rows'[u] = Pending(u) /\ \A v \in Users \ {u} : rows'[v] = rows[v]
    BY <2>1, <2>2, <1>1
  <2>5. Advance
    BY <2>2, <2>4, KeyValues DEF Advance, Settled
  <2>6. KeysUnique'
    BY <2>1, <2>2, RowTakesKey, KeyValues
  <2>7. RowsOwned'
    <3>1. \A v, w \in Users : rows'[v] = Temp(w) => v = w
      BY <2>2, <2>4, KeyValues DEF RowsOwned
    <3>2. \A v, w \in Users : rows'[v] = Pending(w) /\ v # w => rows'[w] = Real(w)
      BY <2>2, <2>4, KeyValues DEF RowsOwned
    <3>3. \A v, w \in Users : rows'[v] = Real(w) /\ v # w => (Settled(w) /\ Phantom(w))'
      BY <2>2, <2>4, KeyValues DEF RowsOwned, Settled, Phantom
    <3> QED
      BY <3>1, <3>2, <3>3 DEF RowsOwned
  <2>8. \A d \in Calls \ {c} : At(d, "rename") => rows'[calls[d].user] = rows[calls[d].user]
    <3> SUFFICES ASSUME NEW d \in Calls \ {c}, At(d, "rename")
                 PROVE  rows'[calls[d].user] = rows[calls[d].user]
      OBVIOUS
    <3>1. calls[d].user # u
      BY <2>1 DEF CallsApart, At
    <3>2. calls[d].user \in Users
      BY DEF CallsSettled, CallSettled, At
    <3> QED
      BY <2>4, <3>1, <3>2
  <2>c. PICK w \in Users, y \in Call : w = u /\ y = x
    BY <2>2, <2>3
  <2>9. CallSettled(y)'
    <3>1. Settled(w)'
      BY <2>4, <2>c, KeyValues DEF Settled
    <3>2. y.pc = "method" /\ y.user = w
      BY <2>3, <2>c
    <3> QED
      BY <3>1, <3>2 DEF CallSettled, LoginPcs
  <2>10. /\ y.pc = "method" /\ y.ident \in Identities /\ y.method = LoginMethod(y.ident)
         /\ Continue(c, y)
    BY <2>1, <2>3, <2>c
  <2> QED
    BY <2>5, <2>6, <2>7, <2>8, <2>9, <2>10, GoesOn
<1> QED
  BY <1>3, <1>4, <1>5, <1>6, <1>1 DEF IdentityStep

LEMMA LoginStepped ==
    ASSUME NEW c \in Calls, RowsInv, LoginStep(c)
    PROVE  Stepped(c)
<1> USE DEF RowsInv
<1>1. /\ rows \in [Users -> Keys \cup {None}] /\ methods \in [MethodKeys -> Users \cup {None}]
      /\ calls \in [Calls -> Call \cup {None}] /\ jwts \in SUBSET Jwt
  BY DEF TypeOK
(* A login that goes on without touching the rows *)
<1>2. ASSUME UNCHANGED rows, NEW y \in Call, Continue(c, y), y.pc \in LoginPcs,
             y.ident \in Identities, y.pc = "lastUsed" => y.method \in MethodKeys,
             CallSettled(y)
      PROVE  Stepped(c)
  <2>1. Advance /\ RowsOwned' /\ KeysUnique'
    BY <1>2, RowsUnchanged
  <2>2. CallSettled(y)'
    BY <1>2 DEF CallSettled, Settled
  <2>3. \A d \in Calls \ {c} : rows'[calls[d].user] = rows[calls[d].user]
    BY <1>2
  <2>4. y.pc \notin {"rename", "remove", "touch", "create", "method", "link"}
    BY <1>2 DEF LoginPcs
  <2> QED
    BY <1>2, <2>1, <2>2, <2>3, <2>4, GoesOn
<1>3. ASSUME NEW j \in jwts, NEW key \in Keys, LoginFind(c, j, key) PROVE Stepped(c)
  <2> DEFINE new == [NewCall EXCEPT !.ident = j.ident, !.sub = j.sub, !.key = key]
  <2>1. /\ j.sub \in Users /\ j.ident \in Identities /\ Settled(j.sub) /\ UNCHANGED rows
        /\ new \in Call
    BY <1>1, <1>3, NewCalls DEF Jwt, ClientsSettled, LoginFind
  <2>2. key = Real(j.sub) \/ (key = Pending(j.sub) /\ rows[j.sub] = Real(j.sub))
    BY <1>3 DEF LoginFind, KeysSent, ClientsSettled
  <2>3. ASSUME NEW u \in Users, rows[u] = key,
               Continue(c, [new EXCEPT !.pc = "authMethod", !.user = u])
        PROVE  Stepped(c)
    <3>1. PICK y \in Call : y = [new EXCEPT !.pc = "authMethod", !.user = u]
      BY <2>1, CallFields
    <3>2. /\ y.pc = "authMethod" /\ y.user = u /\ y.sub = j.sub /\ y.key = key
          /\ y.ident = j.ident
      BY <2>1, <3>1 DEF NewCall
    <3>3. Settled(u)
      BY <2>1, <2>2, <2>3, KeyValues DEF Settled
    <3>4. CallSettled(y)
      BY <2>1, <2>2, <2>3, <3>2, <3>3 DEF CallSettled, LoginPcs
    <3> QED
      BY <2>1, <2>3, <3>1, <3>2, <3>4, <1>2 DEF LoginPcs
  <2>4. ASSUME Continue(c, [new EXCEPT !.pc = "placeholder"]) PROVE Stepped(c)
    <3>1. PICK y \in Call : y = [new EXCEPT !.pc = "placeholder"]
      BY <2>1, CallFields
    <3>2. /\ y.pc = "placeholder" /\ y.sub = j.sub /\ y.key = key /\ y.ident = j.ident
      BY <2>1, <3>1 DEF NewCall
    <3>3. CallSettled(y)
      BY <2>1, <2>2, <3>2 DEF CallSettled, LoginPcs
    <3> QED
      BY <2>1, <2>4, <3>1, <3>2, <3>3, <1>2 DEF LoginPcs
  <2> QED
    BY <1>3, <2>3, <2>4 DEF LoginFind
(* What an ongoing login knows *)
<1>4. ASSUME calls[c] # None, calls[c].pc \in LoginPcs
      PROVE  \E x \in Call : /\ x = calls[c] /\ CallSettled(x) /\ x.ident \in Identities
                             /\ x.sub \in Users /\ Settled(x.sub) /\ x.key \in Keys
                             /\ \/ x.key = Real(x.sub)
                                \/ x.key = Pending(x.sub) /\ rows[x.sub] = Real(x.sub)
  <2>1. PICK x \in Call : x = calls[c]
    BY <1>1, <1>4
  <2>2. CallSettled(x) /\ x.ident \in Identities
    BY <1>4, <2>1 DEF CallsSettled, CallsComplete
  <2>3. /\ x.sub \in Users /\ Settled(x.sub)
        /\ \/ x.key = Real(x.sub)
           \/ x.key = Pending(x.sub) /\ rows[x.sub] = Real(x.sub)
    BY <1>4, <2>1, <2>2 DEF CallSettled
  <2> QED
    BY <2>1, <2>2, <2>3, KeyValues
<1>5. ASSUME LoginPlaceholder(c) PROVE Stepped(c)
  <2>0. calls[c] # None /\ calls[c].pc = "placeholder" /\ UNCHANGED rows
    BY <1>5 DEF LoginPlaceholder, At
  <2>1. PICK x \in Call : /\ x = calls[c] /\ CallSettled(x) /\ x.ident \in Identities
                          /\ x.sub \in Users /\ Settled(x.sub) /\ x.key \in Keys
                          /\ \/ x.key = Real(x.sub)
                             \/ x.key = Pending(x.sub) /\ rows[x.sub] = Real(x.sub)
    BY <2>0, <1>4 DEF LoginPcs
  <2>2. ASSUME NEW u \in Users, rows[u] = Pending(x.sub),
               Continue(c, [x EXCEPT !.pc = "resolve", !.user = u])
        PROVE  Stepped(c)
    <3>1. PICK y \in Call : y = [x EXCEPT !.pc = "resolve", !.user = u]
      BY CallFields
    <3>2. /\ y.pc = "resolve" /\ y.user = u /\ y.sub = x.sub /\ y.key = x.key
          /\ y.ident = x.ident
      BY <3>1 DEF Call
    <3>3. u # x.sub => rows[x.sub] = Real(x.sub)
      BY <2>1, <2>2 DEF RowsOwned
    <3>4. u = x.sub => x.key = Real(x.sub)
      BY <2>1, <2>2, KeyValues
    <3>5. CallSettled(y)
      BY <2>1, <2>2, <3>2, <3>3, <3>4 DEF CallSettled, LoginPcs
    <3> QED
      BY <2>0, <2>1, <2>2, <3>1, <3>2, <3>5, <1>2 DEF LoginPcs
  <2>3. ASSUME Placeholders(x.sub) = {}, Continue(c, [x EXCEPT !.pc = "insert"])
        PROVE  Stepped(c)
    <3>1. PICK y \in Call : y = [x EXCEPT !.pc = "insert"]
      BY CallFields
    <3>2. y.pc = "insert" /\ y.sub = x.sub /\ y.key = x.key /\ y.ident = x.ident
      BY <3>1 DEF Call
    <3>3. rows[x.sub] # Pending(x.sub)
      BY <2>1, <2>3 DEF Placeholders
    <3>4. CallSettled(y)
      BY <2>1, <3>2, <3>3 DEF CallSettled, LoginPcs
    <3> QED
      BY <2>0, <2>1, <2>3, <3>1, <3>2, <3>4, <1>2 DEF LoginPcs
  <2> QED
    BY <1>5, <2>1, <2>2, <2>3 DEF LoginPlaceholder, Placeholders
<1>6. ASSUME LoginAuthMethod(c) \/ LoginAnyMethod(c) PROVE Stepped(c)
  <2>0. calls[c] # None /\ calls[c].pc \in {"authMethod", "anyMethod"} /\ UNCHANGED rows
    BY <1>6 DEF LoginAuthMethod, LoginAnyMethod, At
  <2>1. PICK x \in Call : /\ x = calls[c] /\ CallSettled(x) /\ x.ident \in Identities
                          /\ x.sub \in Users /\ Settled(x.sub) /\ x.key \in Keys
                          /\ \/ x.key = Real(x.sub)
                             \/ x.key = Pending(x.sub) /\ rows[x.sub] = Real(x.sub)
    BY <2>0, <1>4 DEF LoginPcs
  <2>2. ASSUME NEW pc \in {"anyMethod", "safety"}, Continue(c, [x EXCEPT !.pc = pc])
        PROVE  Stepped(c)
    <3>1. PICK y \in Call : y = [x EXCEPT !.pc = pc]
      BY CallFields
    <3>2. /\ y.pc = pc /\ y.user = x.user /\ y.sub = x.sub /\ y.key = x.key
          /\ y.ident = x.ident
      BY <3>1 DEF Call
    <3>3. CallSettled(y)
      BY <2>0, <2>1, <3>2 DEF CallSettled, LoginPcs
    <3> QED
      BY <2>0, <2>1, <2>2, <3>1, <3>2, <3>3, <1>2 DEF LoginPcs
  <2>3. ASSUME NEW m \in MethodKeys, Continue(c, [x EXCEPT !.pc = "lastUsed", !.method = m])
        PROVE  Stepped(c)
    <3>1. PICK y \in Call : y = [x EXCEPT !.pc = "lastUsed", !.method = m]
      BY CallFields
    <3>2. /\ y.pc = "lastUsed" /\ y.user = x.user /\ y.sub = x.sub /\ y.key = x.key
          /\ y.ident = x.ident /\ y.method = m
      BY <3>1 DEF Call
    <3>3. CallSettled(y)
      BY <2>0, <2>1, <3>2 DEF CallSettled, LoginPcs
    <3> QED
      BY <2>0, <2>1, <2>3, <3>1, <3>2, <3>3, <1>2 DEF LoginPcs
  <2> QED
    BY <1>6, <2>1, <2>2, <2>3 DEF LoginAuthMethod, LoginAnyMethod, MethodsOf
<1>7. ASSUME LoginSafetyNet(c) PROVE Stepped(c)
  <2>0. calls[c] # None /\ calls[c].pc = "safety" /\ UNCHANGED rows
    BY <1>7 DEF LoginSafetyNet, At
  <2>1. PICK x \in Call : /\ x = calls[c] /\ CallSettled(x) /\ x.ident \in Identities
                          /\ x.sub \in Users /\ Settled(x.sub) /\ x.key \in Keys
                          /\ \/ x.key = Real(x.sub)
                             \/ x.key = Pending(x.sub) /\ rows[x.sub] = Real(x.sub)
    BY <2>0, <1>4 DEF LoginPcs
  <2>2. PICK m \in MethodKeys : m = Method(InferredType, Identifier(x.sub, x.ident))
    BY <2>1, SafetyMethodValue
  <2>3. PICK y \in Call : y = [x EXCEPT !.pc = "lastUsed", !.method = m]
    BY CallFields
  <2>4. /\ y.pc = "lastUsed" /\ y.user = x.user /\ y.sub = x.sub /\ y.key = x.key
        /\ y.ident = x.ident /\ y.method = m
    BY <2>3 DEF Call
  <2>5. CallSettled(y)
    BY <2>0, <2>1, <2>4 DEF CallSettled, LoginPcs
  <2>6. Continue(c, y)
    BY <1>7, <2>1, <2>2, <2>3 DEF LoginSafetyNet
  <2> QED
    BY <2>0, <2>1, <2>4, <2>5, <2>6, <1>2 DEF LoginPcs
<1>8. ASSUME LoginTokens(c) PROVE Stepped(c)
  BY <1>8, EndSteps DEF LoginTokens
(* Requests that rename have rows under temporary keys *)
<1>9. ASSUME NEW d \in Calls, At(d, "rename")
      PROVE  calls[d].user \in Users /\ rows[calls[d].user] = Temp(calls[d].user)
  BY <1>9 DEF At, CallsSettled, CallSettled
<1>10. ASSUME LoginResolve(c) PROVE Stepped(c)
  <2>0. calls[c] # None /\ calls[c].pc = "resolve"
    BY <1>10 DEF LoginResolve, At
  <2>1. PICK x \in Call : /\ x = calls[c] /\ CallSettled(x) /\ x.ident \in Identities
                          /\ x.sub \in Users /\ Settled(x.sub) /\ x.key \in Keys
                          /\ \/ x.key = Real(x.sub)
                             \/ x.key = Pending(x.sub) /\ rows[x.sub] = Real(x.sub)
    BY <2>0, <1>4 DEF LoginPcs
  <2>2. /\ ~HeldByOther(x.user, x.key)
        /\ rows' = [rows EXCEPT ![x.user] = x.key]
        /\ Continue(c, [x EXCEPT !.pc = "authMethod"])
    BY <1>10, <2>1 DEF LoginResolve
  <2>3. /\ x.user \in Users
        /\ \/ /\ x.user = x.sub /\ x.key = Real(x.sub)
              /\ rows[x.sub] \in {Pending(x.sub), Real(x.sub)}
           \/ /\ x.user # x.sub /\ rows[x.user] = Pending(x.sub)
              /\ rows[x.sub] = Real(x.sub)
    BY <2>0, <2>1 DEF CallSettled
  <2>4. PICK y \in Call : y = [x EXCEPT !.pc = "authMethod"]
    BY CallFields
  <2>5. /\ y.pc = "authMethod" /\ y.user = x.user /\ y.sub = x.sub /\ y.key = x.key
        /\ y.ident = x.ident
    BY <2>4 DEF Call
  <2>6. rows'[x.user] = x.key /\ \A v \in Users \ {x.user} : rows'[v] = rows[v]
    BY <1>1, <2>2, <2>3
  <2>7. Settled(x.user) /\ Settled(x.user)' /\ Settled(x.sub)'
    BY <2>1, <2>3, <2>6, KeyValues DEF Settled
  <2>8. \A d \in Calls \ {c} : At(d, "rename") => rows'[calls[d].user] = rows[calls[d].user]
    <3> SUFFICES ASSUME NEW d \in Calls \ {c}, At(d, "rename")
                 PROVE  rows'[calls[d].user] = rows[calls[d].user]
      OBVIOUS
    <3>1. PICK w \in Users : w = calls[d].user /\ rows[w] = Temp(w)
      BY <1>9
    <3>2. w # x.user
      BY <2>1, <2>3, <3>1, KeyValues
    <3> QED
      BY <2>6, <3>1, <3>2
  <2>9. Advance /\ RowsOwned' /\ KeysUnique'
    <3>1. CASE x.user = x.sub
      <4>0. x.key = Real(x.sub) /\ rows[x.sub] \in {Pending(x.sub), Real(x.sub)}
        BY <2>3, <3>1
      <4>1. Advance
        BY <2>1, <2>6, <3>1, <4>0 DEF Advance
      <4>2. KeysUnique'
        BY <2>1, <2>2, <2>3, RowTakesKey
      <4>3. \A v, w \in Users : rows'[v] = Temp(w) => v = w
        BY <2>1, <2>6, <3>1, <4>0, KeyValues DEF RowsOwned
      <4>4. \A v, w \in Users : rows'[v] = Pending(w) /\ v # w => rows'[w] = Real(w)
        BY <2>1, <2>6, <3>1, <4>0, KeyValues DEF RowsOwned
      <4>5. ASSUME NEW v \in Users, NEW w \in Users, rows'[v] = Real(w), v # w
            PROVE  (Settled(w) /\ Phantom(w))'
        <5>1. v # x.sub
          BY <2>1, <2>6, <3>1, <4>0, <4>5, KeyValues
        <5>2. Settled(w) /\ Phantom(w)
          BY <2>6, <3>1, <4>5, <5>1 DEF RowsOwned
        <5>3. w # x.sub
          BY <4>0, <5>2, KeyValues DEF Phantom
        <5> QED
          BY <2>6, <3>1, <5>2, <5>3 DEF Settled, Phantom
      <4> QED
        BY <4>1, <4>2, <4>3, <4>4, <4>5 DEF RowsOwned
    <3>2. CASE x.user # x.sub
      <4>1. x.key = Pending(x.sub)
        BY <2>1, <2>2, <2>3, <3>2 DEF HeldByOther
      <4>2. UNCHANGED rows
        BY <1>1, <2>2, <2>3, <3>2, <4>1
      <4> QED
        BY <4>2, RowsUnchanged
    <3> QED
      BY <3>1, <3>2
  <2>10. x.key = Pending(x.sub) => rows'[x.sub] = Real(x.sub)
    BY <2>1, <2>3, <2>9, SettledKept, KeyValues
  <2>11. CallSettled(y)'
    BY <2>1, <2>3, <2>5, <2>6, <2>7, <2>10 DEF CallSettled, LoginPcs
  <2> QED
    BY <2>1, <2>2, <2>4, <2>5, <2>8, <2>9, <2>11, GoesOn DEF LoginPcs
<1>11. ASSUME NEW u \in Users, LoginInsert(c, u) PROVE Stepped(c)
  <2>0. calls[c] # None /\ calls[c].pc = "insert"
    BY <1>11 DEF LoginInsert, At
  <2>1. PICK x \in Call : /\ x = calls[c] /\ CallSettled(x) /\ x.ident \in Identities
                          /\ x.sub \in Users /\ Settled(x.sub) /\ x.key \in Keys
                          /\ \/ x.key = Real(x.sub)
                             \/ x.key = Pending(x.sub) /\ rows[x.sub] = Real(x.sub)
    BY <2>0, <1>4 DEF LoginPcs
  <2>2. /\ rows[u] = None /\ ~HeldByOther(u, x.key)
        /\ rows' = [rows EXCEPT ![u] = x.key]
        /\ Continue(c, [x EXCEPT !.pc = "authMethod", !.user = u])
    BY <1>11, <2>1 DEF LoginInsert
  <2>3. PICK y \in Call : y = [x EXCEPT !.pc = "authMethod", !.user = u]
    BY CallFields
  <2>4. /\ y.pc = "authMethod" /\ y.user = u /\ y.sub = x.sub /\ y.key = x.key
        /\ y.ident = x.ident
    BY <2>3 DEF Call
  <2>5. rows'[u] = x.key /\ \A v \in Users \ {u} : rows'[v] = rows[v]
    BY <1>1, <2>2
  <2>6. u # x.sub /\ rows'[x.sub] = rows[x.sub] /\ Settled(x.sub)' /\ Settled(u)'
    BY <2>1, <2>2, <2>5, KeyValues DEF Settled
  <2>7. x.key = Real(x.sub) => Phantom(x.sub)
    <3> SUFFICES ASSUME x.key = Real(x.sub) PROVE Phantom(x.sub)
      OBVIOUS
    <3>1. rows[x.sub] # Pending(x.sub)
      BY <2>0, <2>1 DEF CallSettled
    <3>2. rows[x.sub] # Real(x.sub)
      BY <2>1, <2>2, <2>6 DEF HeldByOther
    <3>3. rows[x.sub] \in Keys /\ rows[x.sub] # Temp(x.sub)
      BY <1>1, <2>1, KeyValues DEF Settled
    <3>4. PICK w \in Users : rows[x.sub] \in {Temp(w), Pending(w), Real(w)}
      BY <3>3, KeyValues
    <3>5. w # x.sub /\ rows[x.sub].of = w
      BY <3>1, <3>2, <3>3, <3>4, KeyValues
    <3> QED
      BY <2>1, <3>5 DEF Phantom, Settled
  <2>8. \A d \in Calls \ {c} : At(d, "rename") => rows'[calls[d].user] = rows[calls[d].user]
    BY <1>9, <2>2, <2>5, KeyValues
  <2>9. Advance
    BY <2>2, <2>5 DEF Advance, Settled
  <2>10. KeysUnique'
    BY <2>1, <2>2, RowTakesKey
  <2>11. RowsOwned'
    <3>1. \A v, w \in Users : rows'[v] = Temp(w) => v = w
      BY <2>1, <2>5, KeyValues DEF RowsOwned
    <3>2. ASSUME NEW v \in Users, NEW w \in Users, rows'[v] = Pending(w), v # w
          PROVE  rows'[w] = Real(w)
      <4>1. CASE v = u
        BY <2>1, <2>5, <2>6, <3>2, <4>1, KeyValues
      <4>2. CASE v # u
        BY <2>2, <2>5, <3>2, <4>2, KeyValues DEF RowsOwned
      <4> QED
        BY <4>1, <4>2
    <3>3. ASSUME NEW v \in Users, NEW w \in Users, rows'[v] = Real(w), v # w
          PROVE  (Settled(w) /\ Phantom(w))'
      <4>1. CASE v = u
        BY <2>1, <2>5, <2>6, <2>7, <3>3, <4>1, KeyValues DEF Phantom
      <4>2. CASE v # u
        BY <2>2, <2>5, <3>3, <4>2, KeyValues DEF RowsOwned, Phantom, Settled
      <4> QED
        BY <4>1, <4>2
    <3> QED
      BY <3>1, <3>2, <3>3 DEF RowsOwned
  <2>12. CallSettled(y)'
    BY <2>1, <2>4, <2>5, <2>6 DEF CallSettled, LoginPcs
  <2> QED
    BY <2>1, <2>2, <2>3, <2>4, <2>8, <2>9, <2>10, <2>11, <2>12, GoesOn DEF LoginPcs
<1> QED
  BY <1>3, <1>5, <1>6, <1>7, <1>8, <1>10, <1>11 DEF LoginStep

LEMMA MethodStepped ==
    ASSUME NEW c \in Calls, RowsInv, MethodStep(c)
    PROVE  Stepped(c)
<1> USE DEF RowsInv
<1>1. /\ sessions \in SUBSET Session /\ calls \in [Calls -> Call \cup {None}]
  BY DEF TypeOK
<1>2. ASSUME NEW s \in sessions, NEW i \in Identities, Link(c, s, i) PROVE Stepped(c)
  <2>1. PICK u \in Users, m \in MethodKeys : u = s.row /\ m = LinkMethod(i)
    BY <1>1, MethodValues DEF Session
  <2>2. PICK y \in Call : y = [NewCall EXCEPT !.pc = "link", !.user = u, !.method = m]
    BY DEF NewCall, Call
  <2>3. y.pc = "link" /\ y.user = u /\ y.method = m
    BY <2>2 DEF NewCall
  <2>4. Continue(c, y) /\ UNCHANGED rows
    BY <1>2, <2>1, <2>2 DEF Link
  <2>5. Settled(u)'
    BY <2>1, <2>4 DEF ClientsSettled, Settled
  <2>6. CallSettled(y)'
    BY <2>3, <2>5 DEF CallSettled, LoginPcs
  <2>7. Advance /\ RowsOwned' /\ KeysUnique'
    BY <2>4, RowsUnchanged
  <2>8. \A d \in Calls \ {c} : rows'[calls[d].user] = rows[calls[d].user]
    BY <2>4
  <2> QED
    BY <2>3, <2>4, <2>6, <2>7, <2>8, GoesOn DEF LoginPcs
<1>3. ASSUME LinkInsert(c) \/ UnlinkCommit(c) PROVE Stepped(c)
  BY <1>3, EndSteps DEF LinkInsert, UnlinkCommit
<1>4. ASSUME NEW s \in sessions, NEW m \in MethodKeys, Unlink(c, s, m) PROVE Stepped(c)
  <2>1. PICK u \in Users : u = s.row
    BY <1>1 DEF Session
  <2>2. PICK y \in Call : y = [NewCall EXCEPT !.pc = "remove", !.user = u, !.method = m]
    BY DEF NewCall, Call
  <2>3. y.pc = "remove" /\ y.user = u /\ y.method = m
    BY <2>2 DEF NewCall
  <2>4. Continue(c, y) /\ UNCHANGED rows /\ Unlocked(u)
    BY <1>4, <2>1, <2>2 DEF Unlink
  <2>5. Settled(u)'
    BY <2>1, <2>4 DEF ClientsSettled, Settled
  <2>6. CallSettled(y)'
    BY <2>3, <2>5 DEF CallSettled, LoginPcs
  <2>7. Advance /\ RowsOwned' /\ KeysUnique'
    BY <2>4, RowsUnchanged
  <2>8. calls'[c] = y /\ \A d \in Calls \ {c} : calls'[d] = calls[d]
    BY <1>1, <2>4 DEF Continue
  <2>9. CallSettled(calls[c])'
    BY <2>6, <2>8 DEF CallSettled, Settled
  <2>10. \A d \in Calls \ {c} : At(d, "remove") => calls[d].user # u
    BY <2>4 DEF Unlocked, At
  <2> QED
    BY <2>3, <2>4, <2>7, <2>8, <2>9, <2>10 DEF Stepped, At, LoginPcs
<1> QED
  BY <1>2, <1>3, <1>4 DEF MethodStep

(* What clients hold stays settled *)
LEMMA ClientsKept ==
    ASSUME NEW c \in Calls, RowsInv, Advance,
           IdentityStep(c) \/ LoginStep(c) \/ MethodStep(c) \/ CallFails(c)
    PROVE  ClientsSettled'
<1> USE DEF RowsInv
<1>1. /\ rows \in [Users -> Keys \cup {None}] /\ methods \in [MethodKeys -> Users \cup {None}]
      /\ calls \in [Calls -> Call \cup {None}] /\ jwts \in SUBSET Jwt
      /\ mfa \in SUBSET Users /\ sessions \in SUBSET Session
  BY DEF TypeOK
<1>2. /\ \A u \in Users : Settled(u) => Settled(u)'
      /\ \A u, v \in Users : rows[u] = Real(v) => rows'[u] = Real(v)
  BY SettledKept
(* the three growing parts, for what was there and what is added *)
<1>3. ASSUME jwts' \subseteq jwts \/ \E u \in Users : /\ Settled(u)
                                     /\ \A j \in jwts' \ jwts : j.sub = u
      PROVE  \A j \in jwts' : Settled(j.sub)'
  <2> SUFFICES ASSUME NEW j \in jwts' PROVE Settled(j.sub)'
    OBVIOUS
  <2>1. CASE j \in jwts
    <3>1. PICK u \in Users : u = j.sub
      BY <2>1, <1>1 DEF Jwt
    <3>2. Settled(u)'
      BY <2>1, <3>1, <1>2 DEF ClientsSettled
    <3> QED
      BY <3>1, <3>2 DEF Settled
  <2>2. CASE j \notin jwts
    BY <1>2, <1>3, <2>2 DEF Settled
  <2> QED
    BY <2>1, <2>2
<1>4. ASSUME \A m \in MethodKeys : \/ methods'[m] \in {methods[m], None}
                                   \/ methods'[m] \in Users /\ Settled(methods'[m])
      PROVE  \A m \in MethodKeys : methods'[m] # None => Settled(methods[m])'
  <2> SUFFICES ASSUME NEW m \in MethodKeys, methods'[m] # None PROVE Settled(methods[m])'
    OBVIOUS
  <2>1. PICK u \in Users : u = methods'[m] /\ Settled(u)
    BY <1>1, <1>4 DEF ClientsSettled, Settled
  <2> QED
    BY <2>1, <1>2 DEF Settled
<1>5. ASSUME \A s \in sessions' \ sessions :
               /\ s \in Session /\ Settled(s.row) /\ s.key \in {Real(s.sub), Pending(s.sub)}
               /\ s.key = Real(s.sub) => rows[s.row] = s.key
      PROVE  \A s \in sessions' : /\ Settled(s.row)'
                                  /\ s.key = Real(s.sub) => rows'[s.row] = s.key
                                  /\ s.key \in {Real(s.sub), Pending(s.sub)}
  <2> SUFFICES ASSUME NEW s \in sessions'
               PROVE  /\ Settled(s.row)'
                      /\ s.key = Real(s.sub) => rows'[s.row] = s.key
                      /\ s.key \in {Real(s.sub), Pending(s.sub)}
    OBVIOUS
  <2>1. /\ s \in Session /\ Settled(s.row) /\ s.key \in {Real(s.sub), Pending(s.sub)}
        /\ s.key = Real(s.sub) => rows[s.row] = s.key
    BY <1>1, <1>5 DEF ClientsSettled
  <2>2. s.row \in Users /\ s.sub \in Users
    BY <2>1 DEF Session
  <2> QED
    BY <1>2, <2>1, <2>2 DEF Settled
<1>6. ASSUME mfa' = mfa PROVE \A u \in mfa' : rows'[u] = Real(u)
  BY <1>1, <1>2, <1>6 DEF ClientsSettled, Settled
<1> DEFINE call == calls[c]
<1>7. ASSUME UNCHANGED <<methods, jwts, mfa, sessions>> PROVE ClientsSettled'
  <2>1. \A j \in jwts' : Settled(j.sub)'
    BY <1>3, <1>7
  <2>2. \A m \in MethodKeys : methods'[m] # None => Settled(methods[m])'
    BY <1>4, <1>7
  <2>3. \A s \in sessions' : /\ Settled(s.row)'
                             /\ s.key = Real(s.sub) => rows'[s.row] = s.key
                             /\ s.key \in {Real(s.sub), Pending(s.sub)}
    BY <1>5, <1>7
  <2> QED
    BY <2>1, <2>2, <2>3, <1>6, <1>7 DEF ClientsSettled, Settled
<1>8. ASSUME NEW m \in MethodKeys, NEW u \in Users, Settled(u),
             SaveCopy(m, u) \/ Insert(m, u)
      PROVE  \A n \in MethodKeys : methods'[n] # None => Settled(methods[n])'
  BY <1>1, <1>4, <1>8 DEF SaveCopy, Insert
<1>9. ASSUME Touch(c) \/ CreateMethod(c) PROVE ClientsSettled'
  <2>1. /\ call.user \in Users /\ Settled(call.user) /\ call.method \in MethodKeys
        /\ UNCHANGED <<mfa, sessions>>
        /\ SaveCopy(call.method, call.user) \/ Insert(call.method, call.user)
        /\ jwts' = jwts \cup {[sub |-> call.user, ident |-> call.ident]}
    BY <1>9, MethodValues DEF Touch, CreateMethod, At, CallsSettled, CallSettled, CallsComplete
  <2>2. \A j \in jwts' : Settled(j.sub)'
    BY <1>3, <2>1
  <2>3. \A m \in MethodKeys : methods'[m] # None => Settled(methods[m])'
    BY <1>8, <2>1
  <2>4. \A s \in sessions' : /\ Settled(s.row)'
                             /\ s.key = Real(s.sub) => rows'[s.row] = s.key
                             /\ s.key \in {Real(s.sub), Pending(s.sub)}
    BY <1>5, <2>1
  <2> QED
    BY <2>1, <2>2, <2>3, <2>4, <1>6 DEF ClientsSettled, Settled
<1>10. ASSUME LoginSafetyNet(c) \/ LinkInsert(c) \/ UnlinkCommit(c) PROVE ClientsSettled'
  <2>1. UNCHANGED <<jwts, mfa, sessions>>
    BY <1>10 DEF LoginSafetyNet, LinkInsert, UnlinkCommit
  <2>2. \A m \in MethodKeys : methods'[m] # None => Settled(methods[m])'
    <3>1. CASE LoginSafetyNet(c)
      <4>1. /\ call.user \in Users /\ Settled(call.user) /\ call.sub \in Users
            /\ call.ident \in Identities
        BY <3>1 DEF LoginSafetyNet, At, CallsSettled, CallSettled, CallsComplete, LoginPcs
      <4>2. PICK m \in MethodKeys : m = Method(InferredType, Identifier(call.sub, call.ident))
        BY <4>1, SafetyMethodValue
      <4>3. Insert(m, call.user)
        BY <3>1, <4>2 DEF LoginSafetyNet
      <4> QED
        BY <4>1, <4>3, <1>8
    <3>2. CASE LinkInsert(c)
      <4>1. /\ call.user \in Users /\ Settled(call.user) /\ call.method \in MethodKeys
            /\ Insert(call.method, call.user)
        BY <3>2 DEF LinkInsert, At, CallsSettled, CallSettled, CallsComplete
      <4> QED
        BY <4>1, <1>8
    <3>3. CASE UnlinkCommit(c)
      BY <3>3, <1>1, <1>4 DEF UnlinkCommit, Removed
    <3> QED
      BY <1>10, <3>1, <3>2, <3>3
  <2>3. \A j \in jwts' : Settled(j.sub)'
    BY <1>3, <2>1
  <2>4. \A s \in sessions' : /\ Settled(s.row)'
                             /\ s.key = Real(s.sub) => rows'[s.row] = s.key
                             /\ s.key \in {Real(s.sub), Pending(s.sub)}
    BY <1>5, <2>1
  <2> QED
    BY <2>1, <2>2, <2>3, <2>4, <1>6 DEF ClientsSettled, Settled
<1>11. ASSUME LoginTokens(c) PROVE ClientsSettled'
  <2>1. /\ call.user \in Users /\ Settled(call.user) /\ call.method \in MethodKeys
        /\ call.sub \in Users /\ call.key \in {Real(call.sub), Pending(call.sub)}
        /\ call.key = Real(call.sub) => rows[call.user] = call.key
    BY <1>11 DEF LoginTokens, At, CallsSettled, CallSettled, CallsComplete, LoginPcs
  <2>2. /\ SaveCopy(call.method, call.user) /\ UNCHANGED <<jwts, mfa>>
        /\ sessions' = sessions \cup {[row |-> call.user, sub |-> call.sub, key |-> call.key]}
    BY <1>11 DEF LoginTokens
  <2>3. \A j \in jwts' : Settled(j.sub)'
    BY <1>3, <2>2
  <2>4. \A m \in MethodKeys : methods'[m] # None => Settled(methods[m])'
    BY <1>8, <2>1, <2>2
  <2>5. \A s \in sessions' : /\ Settled(s.row)'
                             /\ s.key = Real(s.sub) => rows'[s.row] = s.key
                             /\ s.key \in {Real(s.sub), Pending(s.sub)}
    <3>1. call.key \in Keys
      BY <2>1, KeyValues
    <3> QED
      BY <1>5, <2>1, <2>2, <3>1 DEF Session
  <2> QED
    BY <2>2, <2>3, <2>4, <2>5, <1>6 DEF ClientsSettled, Settled
<1> QED
  BY <1>7, <1>9, <1>10, <1>11 DEF IdentityStep, LoginStep, MethodStep, CallFails, Identify,
     CreateUser, RenamePlaceholder, LoginFind, LoginPlaceholder, LoginResolve, LoginInsert,
     LoginAuthMethod, LoginAnyMethod, Link, Unlink

(* Every step keeps what is known of rows, clients and requests, and only  *)
(* advances the rows                                                       *)
LEMMA RowsInvKept ==
    ASSUME RowsInv, [Next]_vars
    PROVE  RowsInv' /\ Advance
<1>1. ASSUME NEW c \in Calls,
             IdentityStep(c) \/ LoginStep(c) \/ MethodStep(c) \/ CallFails(c)
      PROVE  RowsInv' /\ Advance
  <2>1. TypeOK'
    BY <1>1, ActionType DEF RowsInv
  <2>2. Stepped(c)
    <3>1. CASE CallFails(c)
      BY <3>1, EndSteps DEF CallFails
    <3> QED
      BY <1>1, <3>1, IdentityStepped, LoginStepped, MethodStepped
  <2>3. Advance /\ RowsOwned' /\ KeysUnique'
    BY <2>2 DEF Stepped
  <2>4. CallsSettled' /\ CallsComplete' /\ CallsApart'
    BY <2>1, <2>2, SteppedKeeps
  <2>5. ClientsSettled'
    BY <1>1, <2>3, ClientsKept
  <2> QED
    BY <2>1, <2>3, <2>4, <2>5 DEF RowsInv
<1>2. ASSUME UNCHANGED <<rows, methods, calls, jwts, sessions, had, unlinked>>,
             mfa' \subseteq Users, \A u \in mfa' : rows[u] = Real(u)
      PROVE  RowsInv' /\ Advance
  <2>1. TypeOK'
    BY <1>2 DEF RowsInv, TypeOK
  <2>2. Advance /\ RowsOwned' /\ KeysUnique'
    BY <1>2, RowsUnchanged DEF RowsInv
  <2>3. ClientsSettled'
    BY <1>2 DEF RowsInv, ClientsSettled, Settled
  <2>4. CallsSettled'
    BY <1>2 DEF RowsInv, CallsSettled, CallSettled, Settled
  <2>5. CallsComplete' /\ CallsApart'
    BY <1>2 DEF RowsInv, CallsComplete, CallsApart, At
  <2> QED
    BY <2>1, <2>2, <2>3, <2>4, <2>5 DEF RowsInv
<1>3. ASSUME NEW u \in Users, EnableMfa(u) PROVE RowsInv' /\ Advance
  <2>1. PICK s \in sessions : s.row = u /\ s.key = Real(u)
    BY <1>3 DEF EnableMfa
  <2>2. s.sub \in Users /\ s.key \in {Real(s.sub), Pending(s.sub)}
    BY DEF RowsInv, TypeOK, ClientsSettled, Session
  <2>3. s.sub = u
    BY <2>1, <2>2, KeyValues
  <2>4. rows[u] = Real(u)
    BY <2>1, <2>3 DEF RowsInv, ClientsSettled
  <2>5. \A v \in mfa' : rows[v] = Real(v)
    BY <1>3, <2>4 DEF EnableMfa, RowsInv, ClientsSettled
  <2>6. mfa' \subseteq Users
    BY <1>3 DEF EnableMfa, RowsInv, TypeOK
  <2> QED
    BY <1>2, <1>3, <2>5, <2>6 DEF EnableMfa
<1>4. CASE UNCHANGED vars
  BY <1>2, <1>4 DEF vars, RowsInv, TypeOK, ClientsSettled
<1> QED
  BY <1>1, <1>3, <1>4 DEF Next
-----------------------------------------------------------------------------
(* Sign-in methods *)

MethodsInv == UnlinksLeaveOne /\ JwtsNameOwner /\ LastMethodKept

(* Methods are added, never taken away: what was known of them stays true, *)
(* and request c knows what its own next step needs                        *)
LEMMA MethodsGrow ==
    ASSUME NEW c \in Calls, TypeOK, MethodsInv,
           \A n \in MethodKeys : methods[n] # None => methods'[n] = methods[n],
           \A u \in had' \ had : \E n \in MethodKeys : methods'[n] = u,
           unlinked' = unlinked,
           \A j \in jwts' \ jwts : \/ LoginMethod(j.ident) \in unlinked
                                  \/ methods'[LoginMethod(j.ident)] = j.sub,
           \A d \in Calls \ {c} : calls'[d] = calls[d],
           \A d \in Calls : At(d, "remove") => calls[d].method \in MethodKeys /\ calls[d].user \in Users,
           \A d \in Calls : At(d, "touch") => calls[d].method \in MethodKeys /\ calls[d].user \in Users,
           At(c, "remove")' =>
               /\ methods'[calls'[c].method] = calls'[c].user
               /\ \E other \in MethodKeys \ {calls'[c].method} : methods'[other] = calls'[c].user,
           At(c, "touch")' => \/ calls'[c].method \in unlinked
                              \/ methods'[calls'[c].method] = calls'[c].user
    PROVE  MethodsInv'
<1>0. None \notin Users
  BY AccountsAssumption
<1>1. UnlinksLeaveOne'
  <2> SUFFICES ASSUME NEW d \in Calls, At(d, "remove")'
               PROVE  /\ methods'[calls'[d].method] = calls'[d].user
                      /\ \E other \in MethodKeys \ {calls'[d].method} : methods'[other] = calls'[d].user
    BY DEF UnlinksLeaveOne
  <2>1. CASE d = c
    BY <2>1
  <2>2. CASE d # c
    <3>1. At(d, "remove") /\ calls'[d] = calls[d]
      BY <2>2 DEF At
    <3>2. methods[calls[d].method] = calls[d].user
      BY <3>1 DEF MethodsInv, UnlinksLeaveOne
    <3>3. PICK other \in MethodKeys \ {calls[d].method} : methods[other] = calls[d].user
      BY <3>1 DEF MethodsInv, UnlinksLeaveOne
    <3> QED
      BY <1>0, <3>1, <3>2, <3>3
  <2> QED
    BY <2>1, <2>2
<1>2. JwtsNameOwner'
  <2>1. ASSUME NEW j \in jwts'
        PROVE  \/ LoginMethod(j.ident) \in unlinked
               \/ methods'[LoginMethod(j.ident)] = j.sub
    <3>1. CASE j \in jwts
      <4>1. j.sub # None /\ LoginMethod(j.ident) \in MethodKeys
        BY <3>1, <1>0, MethodValues DEF TypeOK, Jwt
      <4> QED
        BY <3>1, <4>1 DEF MethodsInv, JwtsNameOwner
    <3> QED
      BY <3>1
  <2>2. ASSUME NEW d \in Calls, At(d, "touch")'
        PROVE  \/ calls'[d].method \in unlinked
               \/ methods'[calls'[d].method] = calls'[d].user
    <3>1. CASE d # c
      <4>1. At(d, "touch") /\ calls'[d] = calls[d]
        BY <2>2, <3>1 DEF At
      <4> QED
        BY <1>0, <4>1 DEF MethodsInv, JwtsNameOwner
    <3> QED
      BY <2>2, <3>1
  <2> QED
    BY <2>1, <2>2 DEF JwtsNameOwner, LoginMethod, Method
<1>3. LastMethodKept'
  <2> SUFFICES ASSUME NEW u \in had' PROVE \E n \in MethodKeys : methods'[n] = u
    BY DEF LastMethodKept
  <2>1. CASE u \in had
    <3>1. PICK n \in MethodKeys : methods[n] = u
      BY <2>1 DEF MethodsInv, LastMethodKept
    <3> QED
      BY <2>1, <3>1, <1>0 DEF TypeOK
  <2> QED
    BY <2>1
<1> QED
  BY <1>1, <1>2, <1>3 DEF MethodsInv

LEMMA MethodsInvKept ==
    ASSUME RowsInv, MethodsInv, [Next]_vars
    PROVE  MethodsInv'
<1>0. /\ calls \in [Calls -> Call \cup {None}] /\ None \notin Users
      /\ methods \in [MethodKeys -> Users \cup {None}] /\ sessions \subseteq Session
  BY AccountsAssumption DEF RowsInv, TypeOK
<1>1. \A d \in Calls : \A pc \in {"remove", "touch", "link", "lastUsed"} :
         At(d, pc) => calls[d].method \in MethodKeys /\ calls[d].user \in Users
  BY DEF At, RowsInv, CallsSettled, CallSettled, CallsComplete
<1>c. ASSUME NEW c \in Calls
      PROVE  /\ End(c) => /\ calls'[c] = None
                          /\ \A d \in Calls \ {c} : calls'[d] = calls[d]
             /\ \A x \in Call : Continue(c, x) => /\ calls'[c] = x
                                                 /\ \A d \in Calls \ {c} : calls'[d] = calls[d]
  BY <1>0 DEF End, Continue
(* request c goes on without touching methods *)
<1>2. ASSUME NEW c \in Calls, UNCHANGED <<methods, jwts, had, unlinked>>,
             \A d \in Calls \ {c} : calls'[d] = calls[d],
             calls'[c] # None => calls'[c].pc \notin {"remove", "touch"}
      PROVE  MethodsInv'
  BY <1>1, <1>2, MethodsGrow DEF At, RowsInv
(* request c inserts method m for user u *)
<1>3. ASSUME NEW c \in Calls, NEW m \in MethodKeys, NEW u \in Users,
             methods[m] = None, Insert(m, u), unlinked' = unlinked,
             \A j \in jwts' \ jwts : LoginMethod(j.ident) = m /\ j.sub = u,
             \A d \in Calls \ {c} : calls'[d] = calls[d],
             calls'[c] # None => calls'[c].pc \notin {"remove", "touch"}
      PROVE  MethodsInv'
  <2>1. methods'[m] = u /\ \A n \in MethodKeys \ {m} : methods'[n] = methods[n]
    BY <1>0, <1>3 DEF Insert
  <2>2. had' = had \cup {u}
    BY <1>3 DEF Insert
  <2> QED
    BY <1>1, <1>3, <2>1, <2>2, MethodsGrow DEF At, RowsInv
<1>4. ASSUME NEW c \in Calls, NEW i \in Identities, Identify(c, i) PROVE MethodsInv'
  <2> DEFINE m == LoginMethod(i)
             new == [NewCall EXCEPT !.ident = i, !.method = m]
  <2>1. m \in MethodKeys /\ new \in Call
    BY MethodValues, NewCalls
  <2>2. CASE methods[m] # None
    <3>1. PICK x \in Call : x = [new EXCEPT !.pc = "touch", !.user = methods[m]]
      BY <1>0, <2>1, <2>2, CallFields
    <3>2. Continue(c, x) /\ UNCHANGED <<methods, jwts, had, unlinked>>
      BY <1>4, <2>2, <3>1 DEF Identify
    <3>3. x.pc = "touch" /\ x.method = m /\ x.user = methods[m]
      BY <3>1 DEF NewCall
    <3> QED
      BY <1>1, <1>c, <3>2, <3>3, MethodsGrow DEF At, RowsInv
  <2>3. CASE methods[m] = None
    <3>1. PICK x \in Call : x = [new EXCEPT !.pc = "create"]
      BY <2>1, CallFields
    <3>2. Continue(c, x) /\ UNCHANGED <<methods, jwts, had, unlinked>>
      BY <1>4, <2>3, <3>1 DEF Identify
    <3>3. x.pc = "create"
      BY <3>1 DEF NewCall
    <3> QED
      BY <1>2, <1>c, <3>2, <3>3
  <2> QED
    BY <2>2, <2>3
<1>5. ASSUME NEW c \in Calls, Touch(c) PROVE MethodsInv'
  <2>1. PICK m \in MethodKeys : m = calls[c].method
    BY <1>1, <1>5 DEF Touch
  <2>2. PICK u \in Users : u = calls[c].user
    BY <1>1, <1>5 DEF Touch
  <2>3. LoginMethod(calls[c].ident) = m
    BY <1>5, <2>1 DEF Touch, At, RowsInv, CallsComplete
  <2>4. m \in unlinked \/ methods[m] = u
    BY <1>5, <2>1, <2>2 DEF Touch, MethodsInv, JwtsNameOwner
  <2>5. /\ jwts' = jwts \cup {[sub |-> u, ident |-> calls[c].ident]}
        /\ SaveCopy(m, u) /\ End(c) /\ unlinked' = unlinked
    BY <1>5, <2>1, <2>2 DEF Touch
  <2>6. \A j \in jwts' \ jwts : LoginMethod(j.ident) = m /\ j.sub = u
    BY <2>3, <2>5
  <2>7. CASE UNCHANGED <<methods, had>>
    BY <1>1, <1>c, <2>4, <2>5, <2>6, <2>7, MethodsGrow DEF At, RowsInv
  <2>8. CASE methods[m] = None /\ Insert(m, u)
    BY <1>3, <1>c, <2>5, <2>6, <2>8
  <2> QED
    BY <2>5, <2>7, <2>8 DEF SaveCopy
<1>6. ASSUME NEW c \in Calls, CreateMethod(c) PROVE MethodsInv'
  <2>1. PICK m \in MethodKeys : m = calls[c].method
    BY <1>6, MethodValues DEF CreateMethod, At, RowsInv, CallsComplete
  <2>2. PICK u \in Users : u = calls[c].user
    BY <1>6 DEF CreateMethod, At, RowsInv, CallsSettled, CallSettled
  <2>3. LoginMethod(calls[c].ident) = m
    BY <1>6, <2>1 DEF CreateMethod, At, RowsInv, CallsComplete
  <2>4. /\ jwts' = jwts \cup {[sub |-> u, ident |-> calls[c].ident]}
        /\ methods[m] = None /\ Insert(m, u) /\ End(c) /\ unlinked' = unlinked
    BY <1>6, <2>1, <2>2 DEF CreateMethod, MethodTaken
  <2>5. \A j \in jwts' \ jwts : LoginMethod(j.ident) = m /\ j.sub = u
    BY <2>3, <2>4
  <2> QED
    BY <1>3, <1>c, <2>4, <2>5
<1>7. ASSUME NEW c \in Calls, LoginSafetyNet(c) PROVE MethodsInv'
  <2> DEFINE call == calls[c]
  <2>1. /\ call \in Call /\ call.user \in Users /\ call.sub \in Users
        /\ call.ident \in Identities
    BY <1>7, <1>0 DEF LoginSafetyNet, At, RowsInv, CallsSettled, CallSettled, CallsComplete, LoginPcs
  <2>2. PICK m \in MethodKeys : m = Method(InferredType, Identifier(call.sub, call.ident))
    BY <2>1, SafetyMethodValue
  <2>3. PICK x \in Call : x = [call EXCEPT !.pc = "lastUsed", !.method = m]
    BY <2>1, CallFields
  <2>4. /\ methods[m] = None /\ Insert(m, call.user) /\ Continue(c, x)
        /\ jwts' = jwts /\ unlinked' = unlinked
    BY <1>7, <2>2, <2>3 DEF LoginSafetyNet, MethodTaken
  <2>5. x.pc = "lastUsed"
    BY <2>1, <2>3 DEF Call
  <2> QED
    BY <1>3, <1>c, <2>1, <2>4, <2>5
<1>8. ASSUME NEW c \in Calls, LoginTokens(c) PROVE MethodsInv'
  <2>1. PICK m \in MethodKeys : m = calls[c].method
    BY <1>1, <1>8 DEF LoginTokens
  <2>2. PICK u \in Users : u = calls[c].user
    BY <1>1, <1>8 DEF LoginTokens
  <2>3. SaveCopy(m, u) /\ End(c) /\ jwts' = jwts /\ unlinked' = unlinked
    BY <1>8, <2>1, <2>2 DEF LoginTokens
  <2> QED
    BY <1>2, <1>3, <1>c, <2>3 DEF SaveCopy
<1>9. ASSUME NEW c \in Calls, LinkInsert(c) PROVE MethodsInv'
  <2>1. /\ calls[c].method \in MethodKeys /\ calls[c].user \in Users
        /\ methods[calls[c].method] = None /\ Insert(calls[c].method, calls[c].user)
        /\ End(c) /\ jwts' = jwts /\ unlinked' = unlinked
    BY <1>1, <1>9 DEF LinkInsert, MethodTaken
  <2> QED
    BY <1>3, <1>c, <2>1
<1>10. ASSUME NEW c \in Calls, NEW s \in sessions, NEW m \in MethodKeys, Unlink(c, s, m)
       PROVE  MethodsInv'
  <2>1. PICK x \in Call : x = [NewCall EXCEPT !.pc = "remove", !.user = s.row, !.method = m]
    BY <1>0 DEF NewCall, Call, Session
  <2>2. x.pc = "remove" /\ x.user = s.row /\ x.method = m
    BY <2>1 DEF NewCall
  <2>3. /\ Continue(c, x) /\ methods[m] = s.row /\ UNCHANGED <<methods, jwts, had, unlinked>>
        /\ \E other \in MethodKeys \ {m} : methods[other] = s.row
    BY <1>10, <2>1 DEF Unlink
  <2> QED
    BY <1>1, <1>c, <2>2, <2>3, MethodsGrow DEF At, RowsInv
<1>11. ASSUME NEW c \in Calls, UnlinkCommit(c) PROVE MethodsInv'
  <2>1. PICK m \in MethodKeys : m = calls[c].method
    BY <1>1, <1>11 DEF UnlinkCommit
  <2>2. PICK u \in Users : u = calls[c].user
    BY <1>1, <1>11 DEF UnlinkCommit
  <2>3. methods[m] = u /\ \E other \in MethodKeys \ {m} : methods[other] = u
    BY <1>11, <2>1, <2>2 DEF UnlinkCommit, MethodsInv, UnlinksLeaveOne
  <2>4. /\ methods'[m] = None /\ \A n \in MethodKeys \ {m} : methods'[n] = methods[n]
        /\ had' = had /\ jwts' = jwts /\ unlinked' = unlinked \cup {m}
        /\ calls'[c] = None /\ \A d \in Calls \ {c} : calls'[d] = calls[d]
    BY <1>0, <1>11, <1>c, <2>1 DEF UnlinkCommit, Removed
  <2>5. UnlinksLeaveOne'
    <3> SUFFICES ASSUME NEW d \in Calls, At(d, "remove")'
                 PROVE  /\ methods'[calls'[d].method] = calls'[d].user
                        /\ \E other \in MethodKeys \ {calls'[d].method} :
                               methods'[other] = calls'[d].user
      BY DEF UnlinksLeaveOne
    <3>1. d # c /\ calls'[d] = calls[d] /\ At(d, "remove")
      BY <2>4 DEF At
    <3>2. calls[d].user # u
      BY <1>11, <2>2, <3>1 DEF UnlinkCommit, RowsInv, CallsApart
    <3>3. calls[d].method \in MethodKeys /\ methods[calls[d].method] = calls[d].user
      BY <1>1, <3>1 DEF MethodsInv, UnlinksLeaveOne
    <3>4. PICK other \in MethodKeys \ {calls[d].method} : methods[other] = calls[d].user
      BY <3>1 DEF MethodsInv, UnlinksLeaveOne
    <3> QED
      BY <2>3, <2>4, <3>1, <3>2, <3>3, <3>4
  <2>6. JwtsNameOwner'
    <3>1. ASSUME NEW j \in jwts
          PROVE  \/ LoginMethod(j.ident) \in unlinked'
                 \/ methods'[LoginMethod(j.ident)] = j.sub
      <4>1. LoginMethod(j.ident) \in MethodKeys
        BY MethodValues DEF RowsInv, TypeOK, Jwt
      <4> QED
        BY <2>4, <4>1 DEF MethodsInv, JwtsNameOwner
    <3>2. ASSUME NEW d \in Calls, At(d, "touch")'
          PROVE  \/ calls'[d].method \in unlinked'
                 \/ methods'[calls'[d].method] = calls'[d].user
      <4>1. d # c /\ calls'[d] = calls[d] /\ At(d, "touch")
        BY <2>4, <3>2 DEF At
      <4> QED
        BY <1>1, <2>4, <4>1 DEF MethodsInv, JwtsNameOwner
    <3> QED
      BY <2>4, <3>1, <3>2 DEF JwtsNameOwner, LoginMethod, Method
  <2>7. LastMethodKept'
    <3> SUFFICES ASSUME NEW v \in had PROVE \E n \in MethodKeys : methods'[n] = v
      BY <2>4 DEF LastMethodKept
    <3>1. PICK n \in MethodKeys : methods[n] = v
      BY DEF MethodsInv, LastMethodKept
    <3> QED
      BY <2>3, <2>4, <3>1
  <2> QED
    BY <2>5, <2>6, <2>7 DEF MethodsInv
(* the steps that leave the methods alone *)
<1>12. ASSUME NEW c \in Calls, CallFails(c) PROVE MethodsInv'
  BY <1>2, <1>12, <1>c DEF CallFails
<1>13. ASSUME NEW c \in Calls,
              \/ \E u \in Users : CreateUser(c, u) \/ LoginInsert(c, u)
              \/ RenamePlaceholder(c) \/ LoginPlaceholder(c) \/ LoginResolve(c)
              \/ LoginAuthMethod(c) \/ LoginAnyMethod(c)
       PROVE  MethodsInv'
  <2> DEFINE call == calls[c]
  <2>1. call \in Call /\ UNCHANGED <<methods, jwts, had, unlinked>>
    BY <1>0, <1>13 DEF CreateUser, LoginInsert, RenamePlaceholder, LoginPlaceholder,
       LoginResolve, LoginAuthMethod, LoginAnyMethod, At
  <2>2. \E x : /\ Continue(c, x)
               /\ \/ \E pc \in {"method", "insert", "authMethod", "anyMethod", "safety"} :
                         x = [call EXCEPT !.pc = pc]
                  \/ \E pc \in {"rename", "authMethod", "resolve"}, u \in Users :
                         x = [call EXCEPT !.pc = pc, !.user = u]
                  \/ \E m \in MethodKeys : x = [call EXCEPT !.pc = "lastUsed", !.method = m]
    BY <1>13 DEF CreateUser, LoginInsert, RenamePlaceholder, LoginPlaceholder,
       LoginResolve, LoginAuthMethod, LoginAnyMethod, Placeholders, MethodsOf
  <2>3. PICK x : /\ Continue(c, x)
                 /\ \/ \E pc \in {"method", "insert", "authMethod", "anyMethod", "safety"} :
                           x = [call EXCEPT !.pc = pc]
                    \/ \E pc \in {"rename", "authMethod", "resolve"}, u \in Users :
                           x = [call EXCEPT !.pc = pc, !.user = u]
                    \/ \E m \in MethodKeys : x = [call EXCEPT !.pc = "lastUsed", !.method = m]
    BY <2>2
  <2>4. x \in Call /\ x.pc \notin {"remove", "touch"}
    BY <2>1, <2>3 DEF Call
  <2> QED
    BY <1>2, <1>c, <2>1, <2>3, <2>4
<1>14. ASSUME NEW c \in Calls, NEW j \in jwts, NEW key \in Keys, LoginFind(c, j, key)
       PROVE  MethodsInv'
  <2> DEFINE new == [NewCall EXCEPT !.ident = j.ident, !.sub = j.sub, !.key = key]
  <2>1. new \in Call
    BY NewCalls DEF RowsInv, TypeOK, Jwt
  <2>2. PICK x \in Call : Continue(c, x) /\ x.pc \in {"authMethod", "placeholder"}
    <3>1. CASE \E u \in Users : Continue(c, [new EXCEPT !.pc = "authMethod", !.user = u])
      <4>1. PICK u \in Users : Continue(c, [new EXCEPT !.pc = "authMethod", !.user = u])
        BY <3>1
      <4>2. PICK x \in Call : x = [new EXCEPT !.pc = "authMethod", !.user = u]
        BY <2>1, CallFields
      <4>3. x.pc = "authMethod"
        BY <2>1, <4>2 DEF Call
      <4> QED
        BY <4>1, <4>2, <4>3
    <3>2. CASE Continue(c, [new EXCEPT !.pc = "placeholder"])
      <4>2. PICK x \in Call : x = [new EXCEPT !.pc = "placeholder"]
        BY <2>1, CallFields
      <4>3. x.pc = "placeholder"
        BY <2>1, <4>2 DEF Call
      <4> QED
        BY <3>2, <4>2, <4>3
    <3> QED
      BY <1>14, <3>1, <3>2 DEF LoginFind
  <2> QED
    BY <1>2, <1>14, <1>c, <2>2 DEF LoginFind
<1>15. ASSUME NEW c \in Calls, NEW s \in sessions, NEW i \in Identities, Link(c, s, i)
       PROVE  MethodsInv'
  <2>1. PICK x \in Call : x = [NewCall EXCEPT !.pc = "link", !.user = s.row, !.method = LinkMethod(i)]
    BY <1>0, MethodValues DEF NewCall, Call, Session
  <2>2. x.pc = "link"
    BY <2>1 DEF NewCall
  <2> QED
    BY <1>2, <1>15, <1>c, <2>1, <2>2 DEF Link
<1>16. ASSUME UNCHANGED <<methods, calls, jwts, had, unlinked>> PROVE MethodsInv'
  BY <1>16 DEF MethodsInv, UnlinksLeaveOne, JwtsNameOwner, LastMethodKept, At, LoginMethod, Method
<1>17. ASSUME NEW c \in Calls, IdentityStep(c) \/ LoginStep(c) \/ MethodStep(c) \/ CallFails(c)
       PROVE  MethodsInv'
  BY <1>4, <1>5, <1>6, <1>7, <1>8, <1>9, <1>10, <1>11, <1>12, <1>13, <1>14, <1>15, <1>17
     DEF IdentityStep, LoginStep, MethodStep
<1> QED
  BY <1>16, <1>17 DEF Next, vars, EnableMfa
-----------------------------------------------------------------------------
(* Theorems *)

LEMMA InitAccounts == Init => AccountsInv
<1> SUFFICES ASSUME Init PROVE AccountsInv
  OBVIOUS
<1> USE DEF Init
<1>1. TypeOK
  BY DEF TypeOK
<1>2. RowsOwned /\ KeysUnique
  BY KeyValues DEF RowsOwned, KeysUnique
<1>3. ClientsSettled
  BY DEF ClientsSettled
<1>4. CallsSettled /\ CallsComplete /\ CallsApart
  BY DEF CallsSettled, CallsComplete, CallsApart, At
<1>5. UnlinksLeaveOne /\ JwtsNameOwner /\ LastMethodKept
  BY DEF UnlinksLeaveOne, JwtsNameOwner, LastMethodKept, At
<1> QED
  BY <1>1, <1>2, <1>3, <1>4, <1>5 DEF AccountsInv, RowsInv

LEMMA AccountsInductive == Spec => []AccountsInv
<1>1. AccountsInv /\ [Next]_vars => AccountsInv'
  BY RowsInvKept, MethodsInvKept DEF AccountsInv, MethodsInv
<1> QED
  BY <1>1, InitAccounts, PTL DEF Spec

(* Users, methods and requests in flight hold what their tables and        *)
(* handlers can hold.                                                      *)
THEOREM AccountsTypeCorrect == Spec => []TypeOK
<1>1. AccountsInv => TypeOK
  BY DEF AccountsInv, RowsInv
<1> QED
  BY <1>1, AccountsInductive, PTL

(* A login with the key Core Kit derived for an account is answered with   *)
(* tokens for that account, however many first logins, placeholder         *)
(* resolutions and MFA logins race.                                        *)
THEOREM AccountKeyed == Spec => []KeyedSessionIsAccount
<1>1. AccountsInv => KeyedSessionIsAccount
  <2> SUFFICES ASSUME AccountsInv, NEW s \in sessions,
                      s.key = Real(s.sub), ~Phantom(s.sub)
               PROVE  s.row = s.sub
    BY DEF KeyedSessionIsAccount
  <2>1. s.row \in Users /\ s.sub \in Users
    BY DEF AccountsInv, RowsInv, TypeOK, Session
  <2>2. rows[s.row] = Real(s.sub)
    BY DEF AccountsInv, RowsInv, ClientsSettled
  <2> QED
    BY <2>1, <2>2 DEF AccountsInv, RowsInv, RowsOwned
<1> QED
  BY <1>1, AccountsInductive, PTL

(* No request takes away or changes the real key of a users row.           *)
THEOREM KeysKept == Spec => KeyNeverLost
<1>1. AccountsInv /\ [Next]_vars
         => [\A u \in Users :
               rows[u] # None /\ rows[u].kind = "real" => rows'[u] = rows[u]]_vars
  <2> SUFFICES ASSUME AccountsInv, [Next]_vars, NEW u \in Users,
                      rows[u] # None, rows[u].kind = "real"
               PROVE  rows'[u] = rows[u]
    OBVIOUS
  <2>1. Advance
    BY RowsInvKept DEF AccountsInv
  <2> QED
    BY <2>1, KeyValues DEF Advance, Settled
<1> QED
  BY <1>1, AccountsInductive, PTL DEF Spec, KeyNeverLost

(* A user who ever had a sign-in method has one, also when all of them are *)
(* unlinked at once.                                                       *)
THEOREM WaysToSignIn == Spec => []LastMethodKept
<1>1. AccountsInv => LastMethodKept
  BY DEF AccountsInv
<1> QED
  BY <1>1, AccountsInductive, PTL

(* Two JWTs for one identity name one account unless its method was        *)
(* unlinked in between, also when its first logins race.                   *)
THEOREM IdentitiesKept == Spec => []OneAccountPerIdentity
<1>1. AccountsInv => OneAccountPerIdentity
  BY DEF AccountsInv, JwtsNameOwner, OneAccountPerIdentity, LoginMethod
<1> QED
  BY <1>1, AccountsInductive, PTL
=============================================================================
