---------------------------- MODULE Clients_proofs ----------------------------
(* Theorems about the clients of the system: sessions of the web            *)
(* application, sessions of the desktop application, the device registry    *)
(* and uploads.  The four share no state; each has an invariant of its own, *)
(* in that order.                                                           *)
EXTENDS Sessions, DesktopSession, Devices, Uploads, SequenceTheorems, FiniteSetTheorems, TLAPS

Row == [parent : 0..MaxTokens, live : BOOLEAN]
Calling == [at : {"idle", "sent", "found", "answered"}, tok : 0..MaxTokens,
            new : 0..MaxTokens, seen : 0..MaxTokens]
Flowing == [at : {"idle", "login", "restore", "export", "vault", "init", "made"},
            from : {"login", "restore"}, tok : 0..MaxTokens, zeroed : BOOLEAN]
Stores == [token : BOOLEAN, keys : {0} \cup Hooks, kit : BOOLEAN,
           pair : {0} \cup Hooks, app : BOOLEAN, out : BOOLEAN]

(* Whoever made the vault is told so before anybody else holds its key      *)
MadeIsVault == \A h \in Hooks : flow[h].at = "made" => vaultKey = h

(* A logout leaves no live row, and a refresh replaces its row by one       *)
(* successor; what lies between a refresh's look-up and its rotation is in  *)
(* its call                                                                 *)
Lineage ==
    /\ ended <= Len(tokens)
    /\ \A i \in 1..Len(tokens) : tokens[i].live => i > ended
    /\ \A i \in 1..Len(tokens) : tokens[i].parent < i
    /\ \A i \in 1..Len(tokens) : tokens[i].parent # 0 => ~tokens[tokens[i].parent].live
FoundIsTold ==
    /\ \A c \in Callers : call[c].at = "found" =>
          /\ call[c].tok \in 1..Len(tokens) /\ call[c].seen < call[c].tok
          /\ \A j \in 1..Len(tokens) : tokens[j].parent = call[c].tok => call[c].tok \in twins
    /\ \A c, d \in Callers : call[c].at = "found" /\ call[d].at = "found" /\ c # d
                             /\ call[c].tok = call[d].tok => call[c].tok \in twins

TokensInv == Lineage /\ FoundIsTold /\ LogoutEndsSessions /\ OneSuccessor
KeysInv == MadeIsVault /\ KeysAreTheVaults

-----------------------------------------------------------------------------
(* The rows *)

LEMMA IssuedIs ==
    ASSUME NEW rs \in Seq(Row), NEW p \in 0..MaxTokens
    PROVE  /\ Issued(rs, p) \in Seq(Row) /\ Len(Issued(rs, p)) = Len(rs) + 1
           /\ \A i \in 1..Len(rs) : Issued(rs, p)[i] = rs[i]
           /\ Issued(rs, p)[Len(rs) + 1] = [parent |-> p, live |-> TRUE]
<1>1. [parent |-> p, live |-> TRUE] \in Row
  BY DEF Row
<1> QED
  BY <1>1 DEF Issued

LEMMA RevokedIs ==
    ASSUME NEW rs \in Seq(Row), NEW i \in 1..Len(rs)
    PROVE  /\ Revoked(rs, i) \in Seq(Row) /\ Len(Revoked(rs, i)) = Len(rs)
           /\ \A j \in 1..Len(rs) : Revoked(rs, i)[j].parent = rs[j].parent
                                    /\ Revoked(rs, i)[j].live = (rs[j].live /\ j # i)
<1> DEFINE e == [rs[i] EXCEPT !.live = FALSE]
<1>1. \A j \in 1..Len(rs) : rs[j] \in Row
  BY ElementOfSeq
<1>2. e \in Row /\ e.parent = rs[i].parent /\ e.live = FALSE
  BY <1>1 DEF Row
<1>3. Revoked(rs, i) = [rs EXCEPT ![i] = e]
  BY DEF Revoked
<1> HIDE DEF e
<1>4. /\ Revoked(rs, i) \in Seq(Row) /\ Len(Revoked(rs, i)) = Len(rs)
      /\ \A j \in 1..Len(rs) : Revoked(rs, i)[j] = IF j = i THEN e ELSE rs[j]
  BY <1>2, <1>3, ExceptSeq
<1>5. \A j \in 1..Len(rs) : rs[j].live \in BOOLEAN
  BY <1>1 DEF Row
<1> QED
  BY <1>2, <1>4, <1>5

LEMMA AllRevokedIs ==
    ASSUME NEW rs \in Seq(Row)
    PROVE  /\ AllRevoked(rs) \in Seq(Row) /\ Len(AllRevoked(rs)) = Len(rs)
           /\ \A j \in 1..Len(rs) : AllRevoked(rs)[j].parent = rs[j].parent
                                    /\ AllRevoked(rs)[j].live = FALSE
<1> DEFINE all == AllRevoked(rs)
<1>1. DOMAIN rs = 1..Len(rs) /\ Len(rs) \in Nat
  BY LenProperties
<1>2. \A j \in 1..Len(rs) : rs[j] \in Row
  BY ElementOfSeq
<1>3. \A j \in 1..Len(rs) : [rs[j] EXCEPT !.live = FALSE] \in Row
                            /\ [rs[j] EXCEPT !.live = FALSE].parent = rs[j].parent
                            /\ [rs[j] EXCEPT !.live = FALSE].live = FALSE
  BY <1>2 DEF Row
<1>4. all = [j \in 1..Len(rs) |-> [rs[j] EXCEPT !.live = FALSE]]
  BY <1>1 DEF AllRevoked
<1>5. all \in [1..Len(rs) -> Row]
  BY <1>3, <1>4
<1>6. all \in Seq(Row) /\ Len(all) = Len(rs)
  BY <1>1, <1>5
<1>7. \A j \in 1..Len(rs) : all[j] = [rs[j] EXCEPT !.live = FALSE]
  BY <1>4
<1> QED
  BY <1>3, <1>6, <1>7

LEMMA RotatedIs ==
    ASSUME NEW rs \in Seq(Row), NEW tok \in 0..MaxTokens
    PROVE  /\ Rotated(rs, tok) \in Seq(Row) /\ Len(Rotated(rs, tok)) = Len(rs) + 1
           /\ \A j \in 1..Len(rs) : Rotated(rs, tok)[j].parent = rs[j].parent
                                    /\ Rotated(rs, tok)[j].live = (rs[j].live /\ j # tok)
           /\ Rotated(rs, tok)[Len(rs) + 1] = [parent |-> tok, live |-> TRUE]
<1>1. CASE tok \in 1..Len(rs)
  <2> DEFINE r == Revoked(rs, tok)
  <2>1. /\ r \in Seq(Row) /\ Len(r) = Len(rs)
        /\ \A j \in 1..Len(rs) : r[j].parent = rs[j].parent
                                 /\ r[j].live = (rs[j].live /\ j # tok)
    BY <1>1, RevokedIs
  <2>2. Rotated(rs, tok) = Issued(r, tok)
    BY DEF Rotated
  <2> HIDE DEF r
  <2>3. /\ Issued(r, tok) \in Seq(Row) /\ Len(Issued(r, tok)) = Len(r) + 1
        /\ \A j \in 1..Len(r) : Issued(r, tok)[j] = r[j]
        /\ Issued(r, tok)[Len(r) + 1] = [parent |-> tok, live |-> TRUE]
    BY <2>1, IssuedIs
  <2> QED
    BY <2>1, <2>2, <2>3
<1>2. CASE tok \notin 1..Len(rs)
  <2>1. DOMAIN rs = 1..Len(rs) /\ \A j \in 1..Len(rs) : rs[j] \in Row
    BY ElementOfSeq, LenProperties
  <2>2. Revoked(rs, tok) = rs
    BY <1>2, <2>1, LenProperties DEF Revoked
  <2>3. \A j \in 1..Len(rs) : rs[j].live \in BOOLEAN
    BY <2>1 DEF Row
  <2> QED
    BY <1>2, <2>2, <2>3, IssuedIs DEF Rotated
<1> QED
  BY <1>1, <1>2

-----------------------------------------------------------------------------
(* Type correctness *)

LEMMA PartsOK ==
    /\ Idle \in Flowing /\ NoCall \in Calling /\ Empty \in Stores
    /\ \A w \in Stores : Signed(w) \in Stores /\ StoresCleared(w) \in Stores
    /\ \A n \in 0..MaxTokens : Sent(n) \in Calling
<1>1. Idle \in Flowing /\ NoCall \in Calling /\ Empty \in Stores
  BY SessionAssumption DEF Idle, NoCall, Empty, Flowing, Calling, Stores
<1>2. ASSUME NEW w \in Stores PROVE Signed(w) \in Stores
  BY DEF Signed, Stores
<1>3. ASSUME NEW w \in Stores PROVE StoresCleared(w) \in Stores
  BY DEF StoresCleared, Stores
<1>4. ASSUME NEW n \in 0..MaxTokens PROVE Sent(n) \in Calling
  BY SessionAssumption DEF Sent, Calling
<1> QED
  BY <1>1, <1>2, <1>3, <1>4

Shape ==
    /\ tokens \in Seq(Row) /\ Len(tokens) <= MaxTokens
    /\ vaultKey \in {0} \cup Hooks /\ cookie \in 0..MaxTokens /\ stored \in BOOLEAN
    /\ call \in [Callers -> Calling] /\ flow \in [Hooks -> Flowing] /\ tab \in [Tabs -> Stores]
    /\ signingOut \in [Tabs -> BOOLEAN] /\ mishaps \in 0..MaxMishaps
    /\ ended \in 0..MaxTokens /\ rode \subseteq 1..MaxTokens /\ twins \subseteq 1..MaxTokens

LEMMA Rows ==
    Shape => /\ Len(tokens) \in Nat /\ DOMAIN tokens = 1..Len(tokens)
             /\ \A i \in 1..Len(tokens) : tokens[i].parent \in 0..MaxTokens
                                        /\ tokens[i].live \in BOOLEAN
<1>1. ASSUME Shape PROVE \A i \in 1..Len(tokens) : tokens[i] \in Row
  BY <1>1, ElementOfSeq DEF Shape
<1> QED
  BY <1>1, LenProperties DEF Shape, Row

LEMMA ShapeIs == Shape <=> SessionsTypeOK
BY DEF Shape, SessionsTypeOK, Row, Calling, Flowing, Stores

LEMMA Pages ==
    /\ \A h \in Hooks : TabOf[h] \in Tabs
    /\ Hooks \subseteq Callers /\ Tabs \subseteq Callers
    /\ \A t \in Tabs : Main[t] \in Hooks /\ HooksOf(t) \subseteq Hooks
    /\ MaxTokens \in Nat /\ MaxMishaps \in Nat
BY SessionAssumption DEF Callers, HooksOf

LEMMA FlowsOK ==
    ASSUME Shape
    PROVE  /\ \A t \in Tabs : Zeroed(t) \in [Hooks -> Flowing]
           /\ Mishap => mishaps' \in 0..MaxMishaps
           /\ \A h \in Hooks : Throws(h) =>
                 flow' \in [Hooks -> Flowing] /\ tab' \in [Tabs -> Stores] /\ stored' \in BOOLEAN
<1>1. ASSUME NEW t \in Tabs PROVE Zeroed(t) \in [Hooks -> Flowing]
  <2>1. \A h \in Hooks : flow[h] \in Flowing
    BY DEF Shape
  <2>2. \A w \in Flowing : [w EXCEPT !.zeroed = TRUE] \in Flowing
    BY DEF Flowing
  <2> QED
    BY <2>1, <2>2 DEF Zeroed
<1>2. Mishap => mishaps' \in 0..MaxMishaps
  BY Pages DEF Mishap, Shape
<1>3. ASSUME NEW h \in Hooks, Throws(h)
      PROVE  flow' \in [Hooks -> Flowing] /\ tab' \in [Tabs -> Stores] /\ stored' \in BOOLEAN
  <2> DEFINE t == TabOf[h]
             e == [tab[t] EXCEPT !.kit = FALSE]
  <2>1. t \in Tabs /\ tab[t] \in Stores
    BY Pages DEF Shape
  <2>2. e \in Stores
    BY <2>1 DEF Stores
  <2>3. flow' \in [Hooks -> Flowing]
    BY <1>3, PartsOK DEF Throws, Shape
  <2>4. CASE flow[h].from = "restore"
    <3>1. tab' = [tab EXCEPT ![t] = e] /\ stored' = FALSE
      BY <1>3, <2>4 DEF Throws
    <3> HIDE DEF e, t
    <3> QED
      BY <2>1, <2>2, <2>3, <3>1 DEF Shape
  <2>5. CASE flow[h].from # "restore"
    BY <1>3, <2>3, <2>5 DEF Throws, Shape
  <2> QED
    BY <2>4, <2>5
<1> QED
  BY <1>1, <1>2, <1>3

(* What the calls, flows and stores become                                  *)
LEMMA SetsOK ==
    /\ \A q \in Calling : \A n \in 0..MaxTokens :
          /\ [q EXCEPT !.at = "found", !.seen = n] \in Calling
          /\ [q EXCEPT !.at = "answered", !.new = n, !.seen = 0] \in Calling
          /\ [q EXCEPT !.at = "answered"] \in Calling
    /\ \A w \in Flowing : \A s \in {"export", "vault", "init", "made"} :
          [w EXCEPT !.at = s] \in Flowing
    /\ \A n \in 0..MaxTokens : [Idle EXCEPT !.at = "login", !.tok = n] \in Flowing
    /\ [Idle EXCEPT !.at = "restore", !.from = "restore"] \in Flowing
    /\ \A w \in Stores : \A h \in {0} \cup Hooks : \A b \in BOOLEAN :
          /\ [w EXCEPT !.pair = h] \in Stores /\ [w EXCEPT !.keys = h] \in Stores
          /\ [w EXCEPT !.kit = TRUE, !.out = FALSE] \in Stores
          /\ [w EXCEPT !.out = FALSE] \in Stores
          /\ [w EXCEPT !.app = FALSE, !.out = FALSE] \in Stores
          /\ [Empty EXCEPT !.kit = b, !.app = b] \in Stores
<1>1. ASSUME NEW q \in Calling, NEW n \in 0..MaxTokens
      PROVE  /\ [q EXCEPT !.at = "found", !.seen = n] \in Calling
             /\ [q EXCEPT !.at = "answered", !.new = n, !.seen = 0] \in Calling
             /\ [q EXCEPT !.at = "answered"] \in Calling
  <2> DEFINE a == [q EXCEPT !.at = "found"]
             b == [q EXCEPT !.at = "answered"]
             d == [b EXCEPT !.new = n]
  <2>1. a \in Calling /\ b \in Calling
    BY DEF Calling
  <2>2. [q EXCEPT !.at = "found", !.seen = n] = [a EXCEPT !.seen = n]
    OBVIOUS
  <2>3. [q EXCEPT !.at = "answered", !.new = n, !.seen = 0] = [d EXCEPT !.seen = 0]
    OBVIOUS
  <2>4. 0 \in 0..MaxTokens
    BY Pages
  <2> HIDE DEF a, b
  <2>5. [a EXCEPT !.seen = n] \in Calling /\ d \in Calling
    BY <2>1 DEF Calling
  <2> HIDE DEF d
  <2>6. [d EXCEPT !.seen = 0] \in Calling
    BY <2>4, <2>5 DEF Calling
  <2> QED
    BY <2>1, <2>2, <2>3, <2>5, <2>6 DEF b
<1>2. ASSUME NEW w \in Flowing, NEW s \in {"export", "vault", "init", "made"}
      PROVE  [w EXCEPT !.at = s] \in Flowing
  BY DEF Flowing
<1>3. ASSUME NEW n \in 0..MaxTokens PROVE [Idle EXCEPT !.at = "login", !.tok = n] \in Flowing
  BY DEF Idle, Flowing
<1>4. [Idle EXCEPT !.at = "restore", !.from = "restore"] \in Flowing
  <2> DEFINE a == [Idle EXCEPT !.at = "restore"]
  <2>1. a \in Flowing
    BY PartsOK DEF Flowing
  <2>2. [Idle EXCEPT !.at = "restore", !.from = "restore"] = [a EXCEPT !.from = "restore"]
    OBVIOUS
  <2> HIDE DEF a
  <2> QED
    BY <2>1, <2>2 DEF Flowing
<1>5. ASSUME NEW w \in Stores, NEW h \in {0} \cup Hooks, NEW b \in BOOLEAN
      PROVE  /\ [w EXCEPT !.pair = h] \in Stores /\ [w EXCEPT !.keys = h] \in Stores
             /\ [w EXCEPT !.kit = TRUE, !.out = FALSE] \in Stores
             /\ [w EXCEPT !.out = FALSE] \in Stores
             /\ [w EXCEPT !.app = FALSE, !.out = FALSE] \in Stores
             /\ [Empty EXCEPT !.kit = b, !.app = b] \in Stores
  BY DEF Stores, Empty
<1> QED
  BY <1>1, <1>2, <1>3, <1>4, <1>5

LEMMA Members ==
    ASSUME Shape
    PROVE  /\ \A c \in Callers : call[c] \in Calling /\ call[c].tok \in 0..MaxTokens
                                /\ call[c].new \in 0..MaxTokens /\ call[c].seen \in Nat
           /\ \A h \in Hooks : flow[h] \in Flowing /\ flow[h].tok \in 0..MaxTokens
           /\ \A t \in Tabs : tab[t] \in Stores /\ tab[t].kit \in BOOLEAN
<1>1. \A c \in Callers : call[c] \in Calling
  BY DEF Shape
<1>2. \A h \in Hooks : flow[h] \in Flowing
  BY DEF Shape
<1>3. \A t \in Tabs : tab[t] \in Stores
  BY DEF Shape
<1> QED
  BY <1>1, <1>2, <1>3, Pages DEF Calling, Flowing, Stores

(* What a refresh is sent with                                              *)
LEMMA AskedOK ==
    ASSUME Shape
    PROVE  (IF cookie = 0 THEN [Sent(0) EXCEPT !.at = "answered"] ELSE Sent(cookie)) \in Calling
<1>1. 0 \in 0..MaxTokens
  BY Pages
<1>2. Sent(0) \in Calling /\ Sent(cookie) \in Calling
  BY <1>1, PartsOK DEF Shape
<1>3. [Sent(0) EXCEPT !.at = "answered"] \in Calling
  BY <1>1, <1>2, SetsOK
<1> QED
  BY <1>2, <1>3

(* The requests of the API and of the interceptor                           *)
LEMMA CallsShape ==
    ASSUME Shape, NEW c \in Callers,
           RefreshFinds(c) \/ RefreshRotates(c) \/ AnswerDropped(c)
           \/ (c \in Tabs /\ (Renew(c) \/ RenewHeard(c)))
    PROVE  Shape'
<1> USE Pages, Members, PartsOK
<1>1. CASE RefreshFinds(c)
  <2> DEFINE q == call[c]
             found == [q EXCEPT !.at = "found", !.seen = ended]
             none == [q EXCEPT !.at = "answered"]
  <2>1. found \in Calling /\ none \in Calling
    BY SetsOK DEF Shape
  <2>2. \/ call' = [call EXCEPT ![c] = found]
        \/ call' = [call EXCEPT ![c] = none]
    BY <1>1 DEF RefreshFinds
  <2>3. Find(call[c].tok) => call[c].tok \in 1..MaxTokens
    BY DEF Find, Live, Tokens
  <2>4. twins' \subseteq 1..MaxTokens
    BY <1>1, <2>3 DEF RefreshFinds, Shape
  <2> HIDE DEF found, none
  <2>5. call' \in [Callers -> Calling]
    BY <2>1, <2>2 DEF Shape
  <2> QED
    BY <1>1, <2>4, <2>5 DEF RefreshFinds, Shape
<1>2. CASE RefreshRotates(c)
  <2> DEFINE tok == call[c].tok
             new == Len(tokens) + 1
             q == [call[c] EXCEPT !.at = "answered", !.new = new, !.seen = 0]
  <2>1. new \in 1..MaxTokens /\ Len(tokens) \in Nat
    BY <1>2, Rows DEF RefreshRotates, CanIssue
  <2>2. q \in Calling
    <3>1. new \in 0..MaxTokens
      BY <2>1
    <3> HIDE DEF new
    <3> QED
      BY <3>1, SetsOK
  <2>3. call' = [call EXCEPT ![c] = q]
    BY <1>2 DEF RefreshRotates
  <2>4. call' \in [Callers -> Calling]
    BY <2>2, <2>3 DEF Shape
  <2>5. tokens' \in Seq(Row) /\ Len(tokens') = new
    BY <1>2, RotatedIs DEF RefreshRotates, Shape
  <2>6. rode' \subseteq 1..MaxTokens
    BY <1>2, <2>1 DEF RefreshRotates, Shape
  <2> HIDE DEF q
  <2> QED
    BY <1>2, <2>1, <2>4, <2>5, <2>6 DEF RefreshRotates, Shape
<1>3. CASE AnswerDropped(c)
  <2>1. flow' \in [Hooks -> Flowing] /\ tab' \in [Tabs -> Stores] /\ stored' \in BOOLEAN
    <3>1. CASE c \in Tabs
      BY <1>3, <3>1, FlowsOK DEF AnswerDropped, Shape
    <3>2. CASE c \notin Tabs
      BY <1>3, <3>2, FlowsOK DEF AnswerDropped, Callers
    <3> QED
      BY <3>1, <3>2
  <2>2. call' \in [Callers -> Calling] /\ mishaps' \in 0..MaxMishaps
    BY <1>3, FlowsOK DEF AnswerDropped, Shape
  <2> QED
    BY <1>3, <2>1, <2>2 DEF AnswerDropped, Shape
<1>4. CASE c \in Tabs /\ Renew(c)
  BY <1>4, AskedOK DEF Renew, excuses, Shape
<1>5. CASE c \in Tabs /\ RenewHeard(c)
  BY <1>5, FlowsOK DEF RenewHeard, TakesCookie, excuses, Shape
<1> QED
  BY <1>1, <1>2, <1>3, <1>4, <1>5

(* Signing in and restoring a session                                       *)
LEMMA SignsShape ==
    ASSUME Shape, NEW h \in Hooks,
           SignIn(h) \/ SignInHeard(h) \/ SignInLost(h) \/ SignInShare(h) \/ RestoreHeard(h)
    PROVE  Shape'
<1> DEFINE t == TabOf[h]
<1> USE Pages, Members, PartsOK, IssuedIs
<1>1. CASE SignIn(h)
  <2> DEFINE w == [tab[t] EXCEPT !.kit = TRUE, !.out = FALSE]
             f == [Idle EXCEPT !.at = "login", !.tok = Len(tokens) + 1]
  <2>1. Len(tokens) + 1 \in 0..MaxTokens /\ 0 \in 0..MaxTokens
    BY <1>1, Rows DEF SignIn, CanIssue
  <2>2. f \in Flowing
    BY <2>1, SetsOK
  <2>3. w \in Stores /\ t \in Tabs
    BY SetsOK
  <2>4. tab' = [tab EXCEPT ![t] = w] /\ flow' = [flow EXCEPT ![h] = f]
    BY <1>1 DEF SignIn
  <2>5. tokens' \in Seq(Row) /\ Len(tokens') = Len(tokens) + 1
    BY <1>1, <2>1 DEF SignIn, Shape
  <2> HIDE DEF w, f
  <2>6. tab' \in [Tabs -> Stores] /\ flow' \in [Hooks -> Flowing]
    BY <2>2, <2>3, <2>4 DEF Shape
  <2> QED
    BY <1>1, <2>1, <2>5, <2>6 DEF SignIn, excuses, Shape
<1>2. CASE SignInHeard(h)
  <2> DEFINE f == [flow[h] EXCEPT !.at = "export"]
  <2>1. f \in Flowing /\ flow' = [flow EXCEPT ![h] = f]
    BY <1>2, SetsOK DEF SignInHeard
  <2> HIDE DEF f
  <2>2. tab' \in [Tabs -> Stores] /\ flow' \in [Hooks -> Flowing]
    BY <1>2, <2>1 DEF SignInHeard, Shape
  <2> QED
    BY <1>2, <2>2 DEF SignInHeard, excuses, Shape
<1>3. CASE SignInLost(h)
  BY <1>3, FlowsOK DEF SignInLost, excuses, Shape
<1>4. CASE SignInShare(h)
  <2> DEFINE w == [Signed(tab[t]) EXCEPT !.out = FALSE]
  <2>1. Len(tokens) + 1 \in 0..MaxTokens /\ 0 \in 0..MaxTokens
    BY <1>4, Rows DEF SignInShare, CanIssue
  <2>2. w \in Stores /\ t \in Tabs
    BY SetsOK
  <2>3. tab' = [tab EXCEPT ![t] = w]
    BY <1>4 DEF SignInShare
  <2>4. tokens' \in Seq(Row) /\ Len(tokens') = Len(tokens) + 1
    BY <1>4, <2>1 DEF SignInShare, Shape
  <2> HIDE DEF w
  <2>5. tab' \in [Tabs -> Stores]
    BY <2>2, <2>3 DEF Shape
  <2> QED
    BY <1>4, <2>1, <2>4, <2>5 DEF SignInShare, excuses, Shape
<1>5. CASE RestoreHeard(h)
  <2>1. flow' \in [Hooks -> Flowing] /\ tab' \in [Tabs -> Stores] /\ stored' \in BOOLEAN
    <3>1. CASE call[h].new # 0
      <4> DEFINE f == [flow[h] EXCEPT !.at = "export"]
      <4>1. f \in Flowing /\ flow' = [flow EXCEPT ![h] = f]
        BY <1>5, <3>1, SetsOK DEF RestoreHeard
      <4>2. Signed(tab[t]) \in Stores /\ tab' = [tab EXCEPT ![t] = Signed(tab[t])]
            /\ stored' = stored
        BY <1>5, <3>1 DEF RestoreHeard
      <4> HIDE DEF f
      <4> QED
        BY <4>1, <4>2 DEF Shape
    <3>2. CASE call[h].new = 0
      BY <1>5, <3>2, FlowsOK DEF RestoreHeard
    <3> QED
      BY <3>1, <3>2
  <2>2. call' \in [Callers -> Calling] /\ cookie' \in 0..MaxTokens
    BY <1>5 DEF RestoreHeard, TakesCookie, Shape
  <2> QED
    BY <1>5, <2>1, <2>2 DEF RestoreHeard, excuses, Shape
<1> QED
  BY <1>1, <1>2, <1>3, <1>4, <1>5

(* The vault                                                                *)
LEMMA VaultShape ==
    ASSUME Shape, NEW h \in Hooks,
           Export(h) \/ VaultAnswered(h) \/ VaultMissing(h) \/ VaultGone(h)
           \/ InitBrowserVault(h) \/ InitHeard(h) \/ InitFails(h)
    PROVE  Shape'
<1> DEFINE t == TabOf[h]
<1>1. t \in Tabs /\ tab[t] \in Stores /\ flow[h] \in Flowing /\ vaultKey \in {0} \cup Hooks
  BY Pages, Members DEF Shape
<1>2. /\ vaultKey' \in {0} \cup Hooks /\ flow' \in [Hooks -> Flowing]
      /\ tab' \in [Tabs -> Stores] /\ stored' \in BOOLEAN
  <2>1. CASE Throws(h)
    BY <2>1, FlowsOK DEF Export, VaultAnswered, VaultMissing, VaultGone, InitBrowserVault,
                         InitHeard, InitFails, Shape
  <2>2. ASSUME NEW s \in {"vault", "init", "made"}, flow' = [flow EXCEPT ![h].at = s]
        PROVE  flow' \in [Hooks -> Flowing]
    <3> DEFINE f == [flow[h] EXCEPT !.at = s]
    <3>1. f \in Flowing /\ flow' = [flow EXCEPT ![h] = f]
      BY <1>1, <2>2, SetsOK
    <3> HIDE DEF f
    <3> QED
      BY <3>1 DEF Shape
  <2>3. ASSUME NEW k \in {0} \cup Hooks, tab' = Holds(t, k) \/ tab' = [tab EXCEPT ![t].pair = k]
        PROVE  tab' \in [Tabs -> Stores]
    <3> DEFINE w == [tab[t] EXCEPT !.keys = k]
               v == [tab[t] EXCEPT !.pair = k]
    <3>1. w \in Stores /\ v \in Stores
      BY <1>1, SetsOK
    <3>2. tab' = [tab EXCEPT ![t] = w] \/ tab' = [tab EXCEPT ![t] = v]
      BY <2>3 DEF Holds
    <3> HIDE DEF w, v, t
    <3> QED
      BY <3>1, <3>2 DEF Shape
  <2>4. CASE Export(h) /\ ~Throws(h)
    BY <2>2, <2>3, <2>4 DEF Export, Shape
  <2>5. CASE VaultAnswered(h) /\ ~Throws(h)
    <3>1. tab' = Holds(t, vaultKey) /\ flow' = [flow EXCEPT ![h] = Idle]
          /\ UNCHANGED <<stored, vaultKey>>
      BY <2>5 DEF VaultAnswered
    <3> QED
      BY <1>1, <2>3, <3>1, PartsOK DEF Shape
  <2>6. CASE VaultMissing(h) /\ ~Throws(h)
    BY <2>2, <2>6 DEF VaultMissing, Shape
  <2>7. CASE InitBrowserVault(h) /\ ~Throws(h)
    BY <2>2, <2>7 DEF InitBrowserVault, Shape
  <2>8. CASE InitHeard(h)
    <3>1. tab' = Holds(t, h) /\ flow' = [flow EXCEPT ![h] = Idle] /\ UNCHANGED <<stored, vaultKey>>
      BY <2>8 DEF InitHeard
    <3> QED
      BY <1>1, <2>3, <3>1, PartsOK DEF Shape
  <2> QED
    BY <2>1, <2>4, <2>5, <2>6, <2>7, <2>8 DEF VaultGone, InitFails
<1>3. /\ mishaps' \in 0..MaxMishaps
      /\ UNCHANGED <<tokens, cookie, call, signingOut, ended, rode, twins>>
  BY FlowsOK DEF Export, VaultAnswered, VaultMissing, VaultGone, InitBrowserVault, InitHeard,
                 InitFails, excuses, Shape
<1> QED
  BY <1>2, <1>3 DEF Shape

(* Signing out, and what concerns a whole page                              *)
LEMMA PagesShape ==
    ASSUME Shape, NEW t \in Tabs,
           RestoreSession(t) \/ Load(t) \/ Logout(t) \/ LogoutHeard(t) \/ LogoutFails(t)
    PROVE  Shape'
<1> USE Pages, Members, PartsOK
<1>1. CASE RestoreSession(t)
  <2> DEFINE w == [tab[t] EXCEPT !.app = FALSE, !.out = FALSE]
             f == [Idle EXCEPT !.at = "restore", !.from = "restore"]
             q == IF cookie = 0 THEN [Sent(0) EXCEPT !.at = "answered"] ELSE Sent(cookie)
  <2>1. w \in Stores /\ f \in Flowing /\ q \in Calling
    BY SetsOK, AskedOK
  <2>2. /\ tab' = [tab EXCEPT ![t] = w]
        /\ flow' = [h \in Hooks |-> IF h \in Asks(t) THEN f ELSE flow[h]]
        /\ call' = [c \in Callers |-> IF c \notin Asks(t) THEN call[c] ELSE q]
    BY <1>1 DEF RestoreSession
  <2> HIDE DEF w, f, q
  <2>3. tab' \in [Tabs -> Stores] /\ flow' \in [Hooks -> Flowing] /\ call' \in [Callers -> Calling]
    BY <2>1, <2>2 DEF Shape
  <2> QED
    BY <1>1, <2>3 DEF RestoreSession, excuses, Shape
<1>2. CASE Load(t)
  <2> DEFINE w == [Empty EXCEPT !.kit = stored, !.app = stored]
  <2>1. w \in Stores /\ tab' = [tab EXCEPT ![t] = w]
    BY <1>2, SetsOK DEF Load, Shape
  <2> HIDE DEF w
  <2>2. tab' \in [Tabs -> Stores] /\ flow' \in [Hooks -> Flowing] /\ call' \in [Callers -> Calling]
    BY <1>2, <2>1 DEF Load, Shape
  <2> QED
    BY <1>2, <2>2, FlowsOK DEF Load, Shape
<1>3. CASE Logout(t)
  <2>1. Len(tokens) \in 0..MaxTokens
    BY Rows DEF Shape
  <2>2. tokens' \in Seq(Row) /\ Len(tokens') = Len(tokens)
    BY <1>3, AllRevokedIs DEF Logout, Shape
  <2> QED
    BY <1>3, <2>1, <2>2 DEF Logout, Shape
<1>4. ASSUME NEW kept \in BOOLEAN, Leave(t, kept), cookie' \in {0, cookie},
             mishaps' \in 0..MaxMishaps
      PROVE  Shape'
  <2> DEFINE left == ~PageBusy(t) /\ ~kept
             w == [StoresCleared(tab[t]) EXCEPT !.kit = kept, !.app = FALSE, !.out = left]
  <2>1. w \in Stores
    <3> HIDE DEF left
    <3>1. left \in BOOLEAN
      BY DEF left
    <3> QED
      BY <3>1 DEF Stores
  <2>2. tab' = [tab EXCEPT ![t] = w]
    BY <1>4 DEF Leave, LeavesKit
  <2> HIDE DEF w
  <2>3. tab' \in [Tabs -> Stores] /\ flow' \in [Hooks -> Flowing]
    BY <1>4, <2>1, <2>2, FlowsOK DEF Leave, Shape
  <2> QED
    BY <1>4, <2>3 DEF Leave, LeavesKit, excuses, Shape
<1>5. CASE LogoutHeard(t)
  <2>1. mishaps' \in 0..MaxMishaps
    BY <1>5, FlowsOK DEF LogoutHeard, Shape
  <2> QED
    BY <1>4, <1>5, <2>1 DEF LogoutHeard
<1>6. CASE LogoutFails(t)
  BY <1>4, <1>6, FlowsOK DEF LogoutFails, Shape
<1> QED
  BY <1>1, <1>2, <1>3, <1>5, <1>6

(* Every variable keeps its shape                                           *)
THEOREM SessionsTypeCorrect == SessionsSpec => []SessionsTypeOK
<1>1. SessionsInit => Shape
  <2>1. <<>> \in Seq(Row) /\ Len(<<>>) = 0
    BY EmptySeq
  <2>2. 0 \in 0..MaxTokens /\ 0 \in 0..MaxMishaps
    BY Pages
  <2> SUFFICES ASSUME SessionsInit PROVE Shape
    OBVIOUS
  <2>3. tokens \in Seq(Row) /\ Len(tokens) <= MaxTokens
    BY <2>1, Pages DEF SessionsInit
  <2>4. call \in [Callers -> Calling] /\ flow \in [Hooks -> Flowing] /\ tab \in [Tabs -> Stores]
        /\ signingOut \in [Tabs -> BOOLEAN]
    BY PartsOK DEF SessionsInit
  <2> QED
    BY <2>2, <2>3, <2>4 DEF SessionsInit, Shape
<1>2. Shape /\ [SessionsNext]_sessionsVars => Shape'
  <2> SUFFICES ASSUME Shape, [SessionsNext]_sessionsVars
               PROVE  Shape'
    OBVIOUS
  <2>1. CASE UNCHANGED sessionsVars
    BY <2>1 DEF sessionsVars, Shape
  <2>2. CASE SessionsNext
    BY <2>2, Pages, CallsShape, SignsShape, VaultShape, PagesShape DEF SessionsNext
  <2> QED
    BY <2>1, <2>2
<1> QED
  BY <1>1, <1>2, ShapeIs, PTL DEF SessionsSpec

-----------------------------------------------------------------------------
(* The refresh tokens *)

TokensQuiet ==
    /\ UNCHANGED <<tokens, ended, rode, twins>>
    /\ \A c \in Callers : call'[c].at = "found" => call'[c] = call[c]

LEMMA QuietKeepsTokens ==
    ASSUME TokensInv, TokensQuiet
    PROVE  TokensInv'
BY DEF TokensInv, TokensQuiet, Lineage, FoundIsTold, LogoutEndsSessions, OneSuccessor, Tokens

(* Only five actions touch the rows or end a look-up                        *)
LEMMA MostAreQuiet ==
    ASSUME Shape, SessionsNext
    PROVE  \/ TokensQuiet
           \/ \E c \in Callers : RefreshFinds(c) \/ RefreshRotates(c)
           \/ \E h \in Hooks : SignIn(h) \/ SignInShare(h)
           \/ \E t \in Tabs : Logout(t)
<1> DEFINE asked == IF cookie = 0 THEN [Sent(0) EXCEPT !.at = "answered"] ELSE Sent(cookie)
<1>1. NoCall.at # "found" /\ asked.at # "found"
  BY DEF NoCall, Sent
<1>2. call \in [Callers -> Calling]
  BY DEF Shape
<1> HIDE DEF asked
<1>3. ASSUME NEW d \in Callers, call' = [call EXCEPT ![d] = NoCall] \/ call' = [call EXCEPT ![d] = asked]
      PROVE  \A c \in Callers : call'[c].at = "found" => call'[c] = call[c]
  BY <1>1, <1>2, <1>3
<1>4. ASSUME NEW c \in Callers, AnswerDropped(c) PROVE TokensQuiet
  BY <1>3, <1>4 DEF AnswerDropped, TokensQuiet
<1>5. ASSUME NEW h \in Hooks,
             \/ SignInHeard(h) \/ SignInLost(h) \/ Export(h) \/ VaultAnswered(h)
             \/ VaultMissing(h) \/ VaultGone(h) \/ InitBrowserVault(h)
             \/ InitHeard(h) \/ InitFails(h)
      PROVE  TokensQuiet
  BY <1>5 DEF SignInHeard, SignInLost, Export, VaultAnswered, VaultMissing, VaultGone,
              InitBrowserVault, InitHeard, InitFails, excuses, TokensQuiet
<1>6. ASSUME NEW h \in Hooks, RestoreHeard(h) PROVE TokensQuiet
  BY <1>3, <1>6, Pages DEF RestoreHeard, excuses, TokensQuiet
<1>7. ASSUME NEW t \in Tabs, Renew(t) \/ RenewHeard(t) PROVE TokensQuiet
  BY <1>3, <1>7, Pages DEF Renew, RenewHeard, excuses, TokensQuiet, asked
<1>8. ASSUME NEW t \in Tabs, RestoreSession(t) PROVE TokensQuiet
  <2>1. call' = [c \in Callers |-> IF c \notin Asks(t) THEN call[c] ELSE asked]
        /\ UNCHANGED <<tokens, ended, rode, twins>>
    BY <1>8 DEF RestoreSession, excuses, asked
  <2> QED
    BY <1>1, <2>1 DEF TokensQuiet
<1>9. ASSUME NEW t \in Tabs, Load(t) PROVE TokensQuiet
  BY <1>1, <1>9 DEF Load, TokensQuiet
<1>10. ASSUME NEW t \in Tabs, LogoutHeard(t) \/ LogoutFails(t) PROVE TokensQuiet
  BY <1>10 DEF LogoutHeard, LogoutFails, Leave, excuses, TokensQuiet
<1> QED
  BY <1>4, <1>5, <1>6, <1>7, <1>8, <1>9, <1>10 DEF SessionsNext

LEMMA IssueTokens ==
    ASSUME Shape, TokensInv, CanIssue, tokens' = Issued(tokens, 0),
           UNCHANGED <<call, ended, rode, twins>>
    PROVE  TokensInv'
<1> DEFINE n == Len(tokens)
<1>1. n \in Nat /\ ended \in Nat /\ \A i \in 1..n : tokens[i].parent \in Nat
  BY Rows, Pages DEF Shape
<1>2. /\ Len(tokens') = n + 1 /\ \A i \in 1..n : tokens'[i] = tokens[i]
      /\ tokens'[n + 1] = [parent |-> 0, live |-> TRUE]
  <2>1. 0 \in 0..MaxTokens /\ tokens \in Seq(Row)
    BY Pages DEF Shape
  <2> QED
    BY <2>1, IssuedIs
<1>3. tokens'[n + 1].parent = 0 /\ tokens'[n + 1].live
  BY <1>2
<1>4. \A i \in 1..Len(tokens') : i = n + 1 \/ i \in 1..n
  BY <1>1, <1>2
<1>5. Lineage'
  BY <1>1, <1>2, <1>3, <1>4 DEF TokensInv, Lineage
<1>6. FoundIsTold'
  BY <1>1, <1>2, <1>3, <1>4 DEF TokensInv, FoundIsTold
<1>7. LogoutEndsSessions'
  BY <1>1, <1>2, <1>3, <1>4 DEF TokensInv, LogoutEndsSessions, Tokens
<1>8. OneSuccessor'
  BY <1>1, <1>2, <1>3, <1>4 DEF TokensInv, OneSuccessor, Tokens
<1> QED
  BY <1>5, <1>6, <1>7, <1>8 DEF TokensInv

LEMMA FindTokens ==
    ASSUME Shape, TokensInv, NEW c \in Callers, RefreshFinds(c)
    PROVE  TokensInv'
<1> DEFINE tok == call[c].tok
<1>1. UNCHANGED <<tokens, ended, rode>> /\ twins \subseteq twins'
  BY DEF RefreshFinds
<1>2. call[c] \in Calling /\ call[c].at = "sent"
  BY Members DEF RefreshFinds
<1>3. \A d \in Callers \ {c} : call'[d] = call[d]
  BY DEF RefreshFinds, Shape
<1>4. ended \in Nat /\ Len(tokens) \in Nat
  BY Rows DEF Shape
<1>5. call'[c].at = "found" =>
         /\ call'[c].tok = tok /\ call'[c].seen = ended /\ Live(tok)
         /\ (\E d \in Callers : call[d].at = "found" /\ call[d].tok = tok) => tok \in twins'
  <2> DEFINE found == [call[c] EXCEPT !.at = "found", !.seen = ended]
             none == [call[c] EXCEPT !.at = "answered"]
  <2>1. found.tok = tok /\ found.seen = ended /\ none.at = "answered"
    BY <1>2 DEF Calling
  <2>2. CASE Find(tok)
    BY <2>1, <2>2 DEF RefreshFinds, Shape, Find
  <2>3. CASE ~Find(tok)
    <3>1. call'[c] = none
      BY <2>3 DEF RefreshFinds, Shape
    <3> QED
      BY <2>1, <3>1
  <2> QED
    BY <2>2, <2>3
<1>6. FoundIsTold'
  <2>1. ASSUME NEW d \in Callers, call'[d].at = "found"
        PROVE  /\ call'[d].tok \in 1..Len(tokens) /\ call'[d].seen < call'[d].tok
               /\ \A j \in 1..Len(tokens) : tokens[j].parent = call'[d].tok => call'[d].tok \in twins'
    <3>1. CASE d = c
      BY <1>4, <1>5, <2>1, <3>1 DEF TokensInv, Lineage, Live, Tokens
    <3>2. CASE d # c
      BY <1>1, <1>3, <2>1, <3>2 DEF TokensInv, FoundIsTold
    <3> QED
      BY <3>1, <3>2
  <2>2. ASSUME NEW d \in Callers, NEW e \in Callers, d # e,
               call'[d].at = "found", call'[e].at = "found", call'[d].tok = call'[e].tok
        PROVE  call'[d].tok \in twins'
    BY <1>1, <1>3, <1>5, <2>2 DEF TokensInv, FoundIsTold
  <2> QED
    BY <1>1, <2>1, <2>2 DEF FoundIsTold
<1> QED
  BY <1>1, <1>6 DEF TokensInv, Lineage, LogoutEndsSessions, OneSuccessor, Tokens

LEMMA RotateTokens ==
    ASSUME Shape, TokensInv, NEW c \in Callers, RefreshRotates(c)
    PROVE  TokensInv'
<1> DEFINE n == Len(tokens)
           tok == call[c].tok
           seen == call[c].seen
<1>1. /\ n \in Nat /\ Len(tokens') = n + 1
      /\ \A i \in 1..n : /\ tokens'[i].parent = tokens[i].parent
                         /\ tokens[i].parent \in Nat
                         /\ tokens'[i].live = (tokens[i].live /\ i # tok)
      /\ tokens'[n + 1].parent = tok /\ tokens'[n + 1].live
  <2>1. tokens' = Rotated(tokens, tok) /\ tokens \in Seq(Row) /\ tok \in 0..MaxTokens
    BY Members DEF RefreshRotates, Shape
  <2>2. /\ Len(tokens') = n + 1
        /\ \A i \in 1..n : /\ tokens'[i].parent = tokens[i].parent
                           /\ tokens'[i].live = (tokens[i].live /\ i # tok)
        /\ tokens'[n + 1] = [parent |-> tok, live |-> TRUE]
    BY <2>1, RotatedIs
  <2>3. n \in Nat /\ \A i \in 1..n : tokens[i].parent \in Nat
    BY Rows, Pages
  <2> QED
    BY <2>2, <2>3
<1>2. /\ tok \in 1..n /\ seen < tok /\ seen \in Nat /\ ended \in Nat
      /\ \A j \in 1..n : tokens[j].parent = tok => tok \in twins
  BY Members DEF RefreshRotates, TokensInv, FoundIsTold, Shape
<1>3. /\ UNCHANGED <<ended, twins>> /\ rode \subseteq rode'
      /\ (seen < tok /\ tok <= ended) => n + 1 \in rode'
  BY DEF RefreshRotates
<1>4. /\ \A d \in Callers \ {c} : call'[d] = call[d]
      /\ call'[c].at # "found" /\ call[c].at = "found"
  <2>1. [call[c] EXCEPT !.at = "answered", !.new = n + 1, !.seen = 0].at = "answered"
    BY Members DEF Calling
  <2> QED
    BY <2>1 DEF RefreshRotates, Shape
<1>5. \A i \in 1..Len(tokens') : i = n + 1 \/ i \in 1..n
  BY <1>1
<1>6. Lineage'
  <2> HIDE DEF tok, seen
  <2> USE <1>1, <1>2, <1>3, <1>5 DEF TokensInv, Lineage
  <2>1. ended' <= Len(tokens')
    OBVIOUS
  <2>2. ASSUME NEW i \in 1..Len(tokens'), tokens'[i].live
        PROVE  i > ended'
    <3>1. CASE i = n + 1
      BY <3>1
    <3>2. CASE i \in 1..n
      <4>1. tokens[i].live
        BY <2>2, <3>2
      <4> QED
        BY <3>2, <4>1
    <3> QED
      BY <3>1, <3>2
  <2>3. \A i \in 1..Len(tokens') : tokens'[i].parent < i
    OBVIOUS
  <2>4. ASSUME NEW i \in 1..Len(tokens'), tokens'[i].parent # 0
        PROVE  ~tokens'[tokens'[i].parent].live
    <3>1. CASE i = n + 1
      <4>1. tokens'[i].parent = tok /\ tokens'[tok].live = FALSE
        BY <3>1
      <4> QED
        BY <4>1
    <3>2. CASE i \in 1..n
      <4> DEFINE p == tokens[i].parent
      <4>1. tokens'[i].parent = p /\ p \in 1..n /\ ~tokens[p].live
        BY <2>4, <3>2
      <4>2. tokens'[p].live = FALSE
        BY <4>1
      <4> QED
        BY <4>1, <4>2
    <3> QED
      BY <3>1, <3>2
  <2> QED
    BY <2>1, <2>2, <2>3, <2>4
<1>7. FoundIsTold'
  <2>1. ASSUME NEW d \in Callers, call'[d].at = "found"
        PROVE  /\ call'[d].tok \in 1..Len(tokens') /\ call'[d].seen < call'[d].tok
               /\ \A j \in 1..Len(tokens') :
                     tokens'[j].parent = call'[d].tok => call'[d].tok \in twins'
    <3>1. d # c /\ call'[d] = call[d] /\ call[d].tok \in 1..n
      BY <1>4, <2>1 DEF TokensInv, FoundIsTold
    <3>2. call[d].tok = tok => tok \in twins
      BY <1>4, <2>1, <3>1 DEF TokensInv, FoundIsTold
    <3> HIDE DEF tok
    <3> QED
      BY <1>1, <1>3, <1>5, <2>1, <3>1, <3>2 DEF TokensInv, FoundIsTold
  <2> QED
    BY <1>3, <1>4, <2>1 DEF TokensInv, FoundIsTold
<1>8. LogoutEndsSessions'
  <2> HIDE DEF tok, seen
  <2> SUFFICES ASSUME NEW i \in 1..Len(tokens'), tokens'[i].live,
                      tokens'[i].parent \in 1..ended'
               PROVE  i \in rode'
    BY DEF LogoutEndsSessions, Tokens
  <2>1. CASE i = n + 1
    BY <1>1, <1>2, <1>3, <2>1
  <2>2. CASE i \in 1..n
    <3>1. tokens[i].live /\ tokens[i].parent \in 1..ended
      BY <1>1, <1>3, <2>2
    <3> QED
      BY <1>3, <2>2, <3>1 DEF TokensInv, LogoutEndsSessions, Tokens
  <2> QED
    BY <1>5, <2>1, <2>2
<1>9. OneSuccessor'
  <2> HIDE DEF tok, seen
  <2> QED
    BY <1>1, <1>2, <1>3, <1>5 DEF TokensInv, OneSuccessor, Tokens
<1> QED
  BY <1>6, <1>7, <1>8, <1>9 DEF TokensInv

LEMMA LogoutTokens ==
    ASSUME Shape, TokensInv, NEW t \in Tabs, Logout(t)
    PROVE  TokensInv'
<1>1. /\ Len(tokens) \in Nat /\ Len(tokens') = Len(tokens)
      /\ \A i \in 1..Len(tokens) : tokens'[i].parent = tokens[i].parent /\ tokens'[i].live = FALSE
      /\ \A i \in 1..Len(tokens) : tokens[i].parent \in 0..MaxTokens
  BY AllRevokedIs, Rows DEF Logout, Shape
<1>2. ended' = Len(tokens) /\ UNCHANGED <<call, rode, twins>>
  BY DEF Logout
<1> USE <1>1, <1>2 DEF TokensInv
<1>3. Lineage'
  BY DEF Lineage
<1>4. FoundIsTold' /\ LogoutEndsSessions' /\ OneSuccessor'
  BY DEF FoundIsTold, LogoutEndsSessions, OneSuccessor, Tokens
<1> QED
  BY <1>3, <1>4

LEMMA TokensStep ==
    ASSUME Shape, TokensInv, [SessionsNext]_sessionsVars
    PROVE  TokensInv'
<1>1. CASE UNCHANGED sessionsVars
  BY <1>1, QuietKeepsTokens DEF sessionsVars, TokensQuiet
<1>2. CASE SessionsNext
  <2>1. ASSUME NEW h \in Hooks, SignIn(h) \/ SignInShare(h) PROVE TokensInv'
    BY <2>1, IssueTokens DEF SignIn, SignInShare, excuses
  <2> QED
    BY <1>2, <2>1, MostAreQuiet, QuietKeepsTokens, FindTokens, RotateTokens, LogoutTokens
<1> QED
  BY <1>1, <1>2

LEMMA TokensAlways == SessionsSpec => [](Shape /\ TokensInv)
<1>1. SessionsInit => TokensInv
  <2> SUFFICES ASSUME SessionsInit PROVE TokensInv
    OBVIOUS
  <2>1. tokens = <<>> /\ Len(tokens) = 0 /\ ended = 0 /\ \A c \in Callers : call[c].at = "idle"
    BY EmptySeq DEF SessionsInit, NoCall
  <2> QED
    BY <2>1 DEF TokensInv, Lineage, FoundIsTold, LogoutEndsSessions, OneSuccessor, Tokens
<1>2. Shape /\ TokensInv /\ [SessionsNext]_sessionsVars => TokensInv'
  BY TokensStep
<1> QED
  BY <1>1, <1>2, SessionsTypeCorrect, ShapeIs, PTL DEF SessionsSpec

(* A logout ends every session of the user: no token issued from one that   *)
(* was there is unrevoked later, whichever refreshes were under way, but    *)
(* those the logout overtook                                                *)
THEOREM LogoutEnds == SessionsSpec => []LogoutEndsSessions
BY TokensAlways, PTL DEF TokensInv

(* No refresh token has two successors, but one presented twice at once     *)
THEOREM TokenHasOneSuccessor == SessionsSpec => []OneSuccessor
BY TokensAlways, PTL DEF TokensInv

-----------------------------------------------------------------------------
(* The root folder key                                                      *)

KeysQuiet ==
    /\ UNCHANGED vaultKey
    /\ \A h \in Hooks : flow'[h].at = "made" => flow[h].at = "made"
    /\ \A t \in Tabs : tab'[t].keys \in {0, tab[t].keys}

LEMMA QuietKeepsKeys ==
    ASSUME KeysInv, KeysQuiet
    PROVE  KeysInv'
BY DEF KeysInv, KeysQuiet, MadeIsVault, KeysAreTheVaults

(* A flow or a tab that is changed in one place                             *)
LEMMA Changes ==
    ASSUME Shape
    PROVE  /\ \A h \in Hooks : \A f : flow' = [flow EXCEPT ![h] = f] /\ f.at # "made" =>
                 \A g \in Hooks : flow'[g].at = "made" => flow[g].at = "made"
           /\ \A t \in Tabs : \A w : tab' = [tab EXCEPT ![t] = w] /\ w.keys \in {0, tab[t].keys} =>
                 \A u \in Tabs : tab'[u].keys \in {0, tab[u].keys}
           /\ \A t \in Tabs : flow' = Zeroed(t) =>
                 \A g \in Hooks : flow'[g].at = "made" => flow[g].at = "made"
<1>1. \A w \in Flowing : [w EXCEPT !.zeroed = TRUE].at = w.at
  BY DEF Flowing
<1>2. \A h \in Hooks : flow[h] \in Flowing
  BY Members
<1>3. ASSUME NEW t \in Tabs, flow' = Zeroed(t), NEW g \in Hooks
      PROVE  flow'[g].at = flow[g].at
  BY <1>1, <1>2, <1>3 DEF Zeroed
<1>4. flow \in [Hooks -> Flowing] /\ tab \in [Tabs -> Stores]
  BY DEF Shape
<1> QED
  BY <1>3, <1>4

LEMMA KeepKeys ==
    \A w \in Stores : \A b, o \in BOOLEAN : \A k \in {0} \cup Hooks :
        /\ Signed(w).keys = w.keys /\ StoresCleared(w).keys = 0
        /\ [w EXCEPT !.kit = FALSE].keys = w.keys
        /\ [w EXCEPT !.kit = TRUE, !.out = FALSE].keys = w.keys
        /\ [w EXCEPT !.app = FALSE, !.out = FALSE].keys = w.keys
        /\ [w EXCEPT !.pair = k].keys = w.keys
        /\ [w EXCEPT !.out = FALSE].keys = w.keys
        /\ [w EXCEPT !.kit = b, !.app = FALSE, !.out = o].keys = w.keys
        /\ [Empty EXCEPT !.kit = b, !.app = b].keys = 0
BY DEF Signed, StoresCleared, Empty, Stores

LEMMA ThrowsQuiet ==
    ASSUME Shape, NEW h \in Hooks, Throws(h), UNCHANGED vaultKey
    PROVE  KeysQuiet
<1> DEFINE t == TabOf[h]
           w == [tab[t] EXCEPT !.kit = FALSE]
<1>1. t \in Tabs /\ w.keys = tab[t].keys
  BY Pages, Members, KeepKeys
<1>2. tab' = tab \/ tab' = [tab EXCEPT ![t] = w]
  BY DEF Throws
<1>3. flow' = [flow EXCEPT ![h] = Idle] /\ Idle.at # "made"
  BY DEF Throws, Idle
<1> HIDE DEF w, t
<1> QED
  BY <1>1, <1>2, <1>3, Changes DEF KeysQuiet

LEMMA MostKeepKeys ==
    ASSUME Shape, SessionsNext
    PROVE  \/ KeysQuiet
           \/ \E h \in Hooks : VaultAnswered(h) \/ InitBrowserVault(h) \/ InitHeard(h)
<1> USE Pages, Members, KeepKeys, Changes
<1>1. ASSUME NEW c \in Callers, RefreshFinds(c) \/ RefreshRotates(c) PROVE KeysQuiet
  BY <1>1 DEF RefreshFinds, RefreshRotates, KeysQuiet
<1>2. ASSUME NEW c \in Callers, AnswerDropped(c) PROVE KeysQuiet
  <2>1. CASE c \in Tabs
    <3> DEFINE w == StoresCleared(tab[c])
    <3>1. w.keys = 0 /\ tab' = [tab EXCEPT ![c] = w] /\ flow' = Zeroed(c) /\ UNCHANGED vaultKey
      BY <1>2, <2>1 DEF AnswerDropped
    <3> HIDE DEF w
    <3> QED
      BY <2>1, <3>1 DEF KeysQuiet
  <2>2. CASE c \notin Tabs
    BY <1>2, <2>2, ThrowsQuiet DEF AnswerDropped, Callers
  <2> QED
    BY <2>1, <2>2
<1>3. ASSUME NEW h \in Hooks, SignIn(h) PROVE KeysQuiet
  <2> DEFINE t == TabOf[h]
             w == [tab[t] EXCEPT !.kit = TRUE, !.out = FALSE]
             f == [Idle EXCEPT !.at = "login", !.tok = Len(tokens) + 1]
  <2>1. w.keys = tab[t].keys /\ f.at # "made" /\ UNCHANGED vaultKey
        /\ tab' = [tab EXCEPT ![t] = w] /\ flow' = [flow EXCEPT ![h] = f]
    BY <1>3 DEF SignIn, Idle
  <2> HIDE DEF w, f
  <2> QED
    BY <2>1 DEF KeysQuiet
<1>4. ASSUME NEW h \in Hooks, SignInHeard(h) \/ SignInShare(h) PROVE KeysQuiet
  <2> DEFINE t == TabOf[h]
             w == Signed(tab[t])
             v == [w EXCEPT !.out = FALSE]
             f == [flow[h] EXCEPT !.at = "export"]
  <2>1. w \in Stores /\ w.keys = tab[t].keys /\ f.at # "made"
    BY PartsOK DEF Flowing
  <2>2. v.keys = tab[t].keys
    BY <2>1
  <2>3. tab' = [tab EXCEPT ![t] = w] \/ tab' = [tab EXCEPT ![t] = v]
    BY <1>4 DEF SignInHeard, SignInShare
  <2>4. flow' = flow \/ flow' = [flow EXCEPT ![h] = f]
    BY <1>4 DEF SignInHeard, SignInShare
  <2>5. UNCHANGED vaultKey
    BY <1>4 DEF SignInHeard, SignInShare
  <2> HIDE DEF w, v, f
  <2> QED
    BY <2>1, <2>2, <2>3, <2>4, <2>5 DEF KeysQuiet
<1>5. ASSUME NEW h \in Hooks, SignInLost(h) \/ VaultGone(h) \/ InitFails(h) PROVE KeysQuiet
  BY <1>5, ThrowsQuiet DEF SignInLost, VaultGone, InitFails
<1>6. ASSUME NEW h \in Hooks, RestoreHeard(h) PROVE KeysQuiet
  <2> DEFINE t == TabOf[h]
             w == Signed(tab[t])
             f == [flow[h] EXCEPT !.at = "export"]
  <2>1. CASE call[h].new # 0
    <3>1. w.keys = tab[t].keys /\ f.at # "made" /\ UNCHANGED vaultKey
          /\ tab' = [tab EXCEPT ![t] = w] /\ flow' = [flow EXCEPT ![h] = f]
      BY <1>6, <2>1 DEF RestoreHeard, Flowing
    <3> HIDE DEF w, f
    <3> QED
      BY <3>1 DEF KeysQuiet
  <2>2. CASE call[h].new = 0
    BY <1>6, <2>2, ThrowsQuiet DEF RestoreHeard
  <2> QED
    BY <2>1, <2>2
<1>7. ASSUME NEW h \in Hooks, Export(h) \/ VaultMissing(h) PROVE KeysQuiet
  <2> DEFINE t == TabOf[h]
             w == [tab[t] EXCEPT !.pair = h]
             f == [flow[h] EXCEPT !.at = "vault"]
             g == [flow[h] EXCEPT !.at = "init"]
  <2>1. w.keys = tab[t].keys
    OBVIOUS
  <2>2. f.at # "made" /\ g.at # "made"
    BY DEF Flowing
  <2>3. UNCHANGED vaultKey
    BY <1>7 DEF Export, VaultMissing
  <2>4. \/ Throws(h)
        \/ flow' = [flow EXCEPT ![h] = f] /\ tab' = [tab EXCEPT ![t] = w]
        \/ flow' = [flow EXCEPT ![h] = g] /\ tab' = tab
    BY <1>7 DEF Export, VaultMissing
  <2> HIDE DEF w, f, g
  <2> QED
    BY <2>1, <2>2, <2>3, <2>4, ThrowsQuiet DEF KeysQuiet
<1>8. ASSUME NEW t \in Tabs, Renew(t) \/ Logout(t) PROVE KeysQuiet
  BY <1>8 DEF Renew, Logout, KeysQuiet
<1>9. ASSUME NEW t \in Tabs, RenewHeard(t) PROVE KeysQuiet
  <2> DEFINE w == Signed(tab[t])
             v == StoresCleared(tab[t])
  <2>1. w.keys = tab[t].keys /\ v.keys = 0
    OBVIOUS
  <2>2. \/ tab' = [tab EXCEPT ![t] = w] /\ flow' = flow
        \/ tab' = [tab EXCEPT ![t] = v] /\ flow' = Zeroed(t)
    BY <1>9 DEF RenewHeard
  <2>3. UNCHANGED vaultKey
    BY <1>9 DEF RenewHeard
  <2> HIDE DEF w, v
  <2> QED
    BY <2>1, <2>2, <2>3 DEF KeysQuiet
<1>10. ASSUME NEW t \in Tabs, RestoreSession(t) PROVE KeysQuiet
  <2> DEFINE w == [tab[t] EXCEPT !.app = FALSE, !.out = FALSE]
             f == [Idle EXCEPT !.at = "restore", !.from = "restore"]
  <2>1. w.keys = tab[t].keys /\ f.at # "made" /\ tab' = [tab EXCEPT ![t] = w]
        /\ flow' = [h \in Hooks |-> IF h \in Asks(t) THEN f ELSE flow[h]] /\ UNCHANGED vaultKey
    BY <1>10 DEF RestoreSession, Idle
  <2> HIDE DEF w, f
  <2> QED
    BY <2>1 DEF KeysQuiet
<1>11. ASSUME NEW t \in Tabs, Load(t) PROVE KeysQuiet
  <2> DEFINE w == [Empty EXCEPT !.kit = stored, !.app = stored]
  <2>1. w.keys = 0 /\ tab' = [tab EXCEPT ![t] = w] /\ Idle.at # "made" /\ UNCHANGED vaultKey
        /\ flow' = [h \in Hooks |-> IF TabOf[h] = t THEN Idle ELSE flow[h]]
    BY <1>11 DEF Load, Idle, Empty
  <2> HIDE DEF w
  <2> QED
    BY <2>1 DEF KeysQuiet
<1>12. ASSUME NEW t \in Tabs, NEW kept \in BOOLEAN, Leave(t, kept) PROVE KeysQuiet
  <2> DEFINE v == StoresCleared(tab[t])
             left == ~PageBusy(t) /\ ~kept
             w == [v EXCEPT !.kit = kept, !.app = FALSE, !.out = left]
  <2>1. v \in Stores /\ v.keys = 0 /\ left \in BOOLEAN
    BY PartsOK
  <2> HIDE DEF v, left
  <2>2. w.keys = 0
    BY <2>1
  <2>3. tab' = [tab EXCEPT ![t] = w] /\ flow' = Zeroed(t) /\ UNCHANGED vaultKey
    BY <1>12 DEF Leave, LeavesKit, v, left
  <2> HIDE DEF w
  <2> QED
    BY <2>2, <2>3 DEF KeysQuiet
<1>13. ASSUME NEW t \in Tabs, LogoutHeard(t) \/ LogoutFails(t) PROVE KeysQuiet
  BY <1>12, <1>13 DEF LogoutHeard, LogoutFails
<1> QED
  BY <1>1, <1>2, <1>3, <1>4, <1>5, <1>6, <1>7, <1>8, <1>9, <1>10, <1>11, <1>13
     DEF SessionsNext

LEMMA KeysStep ==
    ASSUME Shape, KeysInv, [SessionsNext]_sessionsVars
    PROVE  KeysInv'
<1> USE Pages, Members, Changes
<1>1. CASE UNCHANGED sessionsVars
  BY <1>1 DEF sessionsVars, KeysInv, MadeIsVault, KeysAreTheVaults
<1>2. ASSUME NEW h \in Hooks, NEW k \in {0} \cup Hooks, k = vaultKey,
             tab' = Holds(TabOf[h], k), flow' = [flow EXCEPT ![h] = Idle], UNCHANGED vaultKey
      PROVE  KeysInv'
  <2> DEFINE t == TabOf[h]
             w == [tab[t] EXCEPT !.keys = k]
  <2>1. w.keys = k
    BY DEF Stores
  <2>2. tab' = [tab EXCEPT ![t] = w]
    BY <1>2 DEF Holds
  <2> HIDE DEF w
  <2>3. KeysAreTheVaults'
    BY <1>2, <2>1, <2>2 DEF Shape, KeysInv, KeysAreTheVaults
  <2>4. MadeIsVault'
    BY <1>2 DEF Idle, Shape, KeysInv, MadeIsVault
  <2> QED
    BY <2>3, <2>4 DEF KeysInv
<1>3. ASSUME NEW h \in Hooks, VaultAnswered(h) PROVE KeysInv'
  <2>1. CASE Throws(h)
    BY <1>3, <2>1, ThrowsQuiet, QuietKeepsKeys DEF VaultAnswered
  <2>2. CASE ~Throws(h)
    BY <1>2, <1>3, <2>2 DEF VaultAnswered, Shape
  <2> QED
    BY <2>1, <2>2
<1>4. ASSUME NEW h \in Hooks, InitBrowserVault(h) PROVE KeysInv'
  <2>1. CASE ~AcceptsVault
    BY <1>4, <2>1, ThrowsQuiet, QuietKeepsKeys DEF InitBrowserVault
  <2>2. CASE AcceptsVault
    <3>1. vaultKey = 0 /\ vaultKey' = h /\ tab' = tab /\ flow' = [flow EXCEPT ![h].at = "made"]
      BY <1>4, <2>2 DEF InitBrowserVault, AcceptsVault
    <3>2. \A t \in Tabs : tab[t].keys = 0
      BY <3>1 DEF KeysInv, KeysAreTheVaults
    <3>3. \A g \in Hooks : flow[g].at # "made"
      BY <3>1, SessionAssumption DEF KeysInv, MadeIsVault
    <3> QED
      BY <3>1, <3>2, <3>3 DEF KeysInv, KeysAreTheVaults, MadeIsVault, Shape
  <2> QED
    BY <2>1, <2>2
<1>5. ASSUME NEW h \in Hooks, InitHeard(h) PROVE KeysInv'
  BY <1>2, <1>5 DEF InitHeard, KeysInv, MadeIsVault
<1> QED
  BY <1>1, <1>3, <1>4, <1>5, MostKeepKeys, QuietKeepsKeys

(* Whichever tab found no vault first, all tabs work with the one root      *)
(* folder key the vault row holds                                           *)
THEOREM KeysAgree == SessionsSpec => []KeysAreTheVaults
<1>1. SessionsInit => KeysInv
  BY DEF SessionsInit, Idle, Empty, KeysInv, MadeIsVault, KeysAreTheVaults
<1>2. Shape /\ KeysInv /\ [SessionsNext]_sessionsVars => KeysInv'
  BY KeysStep
<1>3. KeysInv => KeysAreTheVaults
  BY DEF KeysInv
<1> QED
  BY <1>1, <1>2, <1>3, SessionsTypeCorrect, ShapeIs, PTL DEF SessionsSpec

-----------------------------------------------------------------------------
(* DesktopSession: the parts of the invariant                               *)

(* What signs a user in, once the page has handed over the key              *)
SigningIn == {"login", "vault", "init", "publish", "again", "mount", "populate"}

Crossed == "crossed" \in excuse
Stuck == "stuck" \in excuse
Severed == excuse \cap {"lost", "elsewhere", "crossed"} # {}

(* A token that is on its way to the keychain                               *)
Carries(r) == cmd[r].at \in {"refreshed", "login"} /\ cmd[r].tok # 0

(* It is nowhere else                                                       *)
TokensFit ==
    \A r \in Runs : Carries(r) =>
        keychain # cmd[r].tok /\ \A s \in Runs : s # r => cmd[s].tok # cmd[r].tok

(* A good token is somebody's                                               *)
UserFits ==
    /\ app.token = "fresh" => app.user
    /\ leaving.at # "idle" /\ leaving.good => app.user

(* Tokens on their way work, and so does the one in the keychain unless its *)
(* replacement is one of them; but for a logout that has been answered      *)
WorkFits ==
    Severed \/ (leaving.at = "clearing" /\ leaving.good) \/
        /\ \A r \in Runs : Carries(r) => cmd[r].tok \in live
        /\ keychain # 0 /\ keychain \notin live =>
            \E r \in Runs : cmd[r].at = "refreshed" /\ cmd[r].tok # 0

(* Root folder keys are the vault's                                         *)
RootFits ==
    /\ app.authed => app.pair /\ app.root = vault /\ vault # NoKey
    /\ drive \in {NoKey, vault}
    /\ \A r \in Runs : /\ cmd[r].at \in {"mount", "populate"} => cmd[r].key = vault /\ vault # NoKey
                       /\ cmd[r].at = "publish" => vault = Here

(* While no logout crosses it, a sign-in is that of the page                *)
PageFits ==
    /\ \A r \in Runs : cmd[r].at \in SigningIn =>
        r = page.run /\ page.at \in {"waiting", "recovering", "restoring"}
    /\ page.at \in {"waiting", "recovering", "restoring"} => tray = "mounting"
    /\ page.at = "refreshing" \/ (page.at = "kit" /\ page.ok) => tray = "off"
    /\ tray = "on" => page.at = "done"

(* A logout has the application to itself                                   *)
LeavingFits ==
    leaving.at # "idle" =>
        /\ ~Busy /\ IF leaving.by = "tray" THEN tray = "on" ELSE page.at = "clearing"
        /\ leaving.at = "clearing" /\ leaving.good => "lost" \in excuse \/ live = {}

ForgottenFits ==
    /\ tray = "off" => ~app.pair /\ app.root = NoKey /\ ~app.authed
    /\ drive # NoKey => Stuck \/ (tray = "on" /\ leaving.at = "idle")

OutFits ==
    /\ out # "no" => keychain = 0 /\ ~Busy /\ page.at \in {"done", "form", "closed"}
    /\ out = "fresh" => "lost" \in excuse \/ live = {}

UncrossedFits == Crossed \/ (PageFits /\ LeavingFits /\ ForgottenFits /\ OutFits)

DesktopInv == DesktopTypeOK /\ TokensFit /\ UserFits /\ WorkFits /\ RootFits /\ UncrossedFits
AppState == [token : {"none", "fresh", "old"}, user : BOOLEAN, pair : BOOLEAN,
             root : {NoKey, Here, There}, authed : BOOLEAN]
PageState == [at : {"closed", "refreshing", "kit", "clearing", "form", "share", "waiting",
                    "recovering", "restoring", "done"},
              ok : BOOLEAN, run : Runs]
CmdState(n) == [at : {"idle", "refresh", "refreshed", "login", "vault", "init", "publish",
                      "again", "mount", "populate"},
                tok : 0..n, key : {NoKey, Here, There}, good : BOOLEAN]
LeavingState == [at : {"idle", "posting", "clearing"}, by : {"tray", "stale", "back"}, good : BOOLEAN]

LEMMA DesktopParts ==
    DesktopTypeOK <=>
        /\ issued \in 0..MaxIssued /\ live \subseteq 1..issued /\ other \in BOOLEAN
        /\ vault \in {NoKey, Here, There} /\ record \in {"none", "empty", "full"}
        /\ keychain \in 0..issued /\ kit \in BOOLEAN
        /\ app \in AppState /\ drive \in {NoKey, Here, There}
        /\ tray \in {"off", "mounting", "on", "error"} /\ page \in PageState
        /\ cmd \in [Runs -> CmdState(issued)] /\ leaving \in LeavingState
        /\ failures \in 0..MaxFailures /\ excuse \subseteq Excuses /\ out \in {"no", "old", "fresh"}
BY DEF DesktopTypeOK, AppState, PageState, CmdState, LeavingState

LEMMA DesktopTypesNext ==
    ASSUME issued' \in 0..MaxIssued, live' \subseteq 1..issued', other' \in BOOLEAN,
           vault' \in {NoKey, Here, There}, record' \in {"none", "empty", "full"},
           keychain' \in 0..issued', kit' \in BOOLEAN,
           app' \in AppState, drive' \in {NoKey, Here, There},
           tray' \in {"off", "mounting", "on", "error"}, page' \in PageState,
           cmd' \in [Runs -> CmdState(issued')], leaving' \in LeavingState,
           failures' \in 0..MaxFailures, excuse' \subseteq Excuses, out' \in {"no", "old", "fresh"}
    PROVE  DesktopTypeOK'
BY DEF DesktopTypeOK, AppState, PageState, CmdState, LeavingState

LEMMA IssuedParts ==
    ASSUME DesktopTypeOK
    PROVE  /\ MaxIssued \in Nat /\ MaxFailures \in Nat /\ issued \in Nat
           /\ issued < MaxIssued => issued + 1 \in 0..MaxIssued
           /\ \A n \in 0..issued : n \in 0..issued + 1 /\ n # issued + 1 /\ n \in Nat
           /\ 1..issued \subseteq 1..issued + 1 /\ issued + 1 \in 1..issued + 1 /\ issued + 1 # 0
BY DesktopAssumption DEF DesktopTypeOK

LEMMA FreeParts ==
    \A n \in Nat : /\ Free \in CmdState(n) /\ Free.at = "idle" /\ Free.tok = 0
BY DEF Free, CmdState

(* The command in flight gives way to another                               *)
LEMMA CmdChanges ==
    ASSUME DesktopTypeOK, NEW r \in Runs, NEW n \in Nat, issued \in 0..n, NEW c \in CmdState(n),
           cmd' = [cmd EXCEPT ![r] = c]
    PROVE  /\ cmd' \in [Runs -> CmdState(n)] /\ cmd'[r] = c
           /\ \A s \in Runs : s # r => cmd'[s] = cmd[s]
<1>1. cmd \in [Runs -> CmdState(issued)]
  BY DesktopParts
<1>2. issued \in Nat /\ \A k \in 0..issued : k \in 0..n
  BY IssuedParts
<1>3. CmdState(issued) \subseteq CmdState(n)
  BY <1>2 DEF CmdState
<1> QED
  BY <1>1, <1>3

(* Every other command stays: what holds of all of them                     *)
Only(r) == \A s \in Runs : s # r => cmd'[s] = cmd[s]

LEMMA SendsParts ==
    ASSUME DesktopTypeOK, NEW r \in Runs,
           NEW at \in {"vault", "init", "publish", "again"}, Sends(r, at)
    PROVE  /\ cmd' \in [Runs -> CmdState(issued)] /\ Only(r)
           /\ cmd'[r].at = at /\ cmd'[r].tok = 0 /\ cmd'[r].good = Authorised
<1>1. cmd[r] \in CmdState(issued) /\ issued \in Nat /\ issued \in 0..issued /\ Authorised \in BOOLEAN
  BY DesktopParts, IssuedParts DEF Authorised
<1> DEFINE c == [cmd[r] EXCEPT !.at = at]
           d == [c EXCEPT !.tok = 0]
           e == [d EXCEPT !.good = Authorised]
<1>2. c \in CmdState(issued) /\ c.at = at
  BY <1>1 DEF CmdState
<1>3. cmd' = [cmd EXCEPT ![r] = e]
  BY <1>1, DesktopParts DEF Sends, CmdState
<1> HIDE DEF c
<1>4. d \in CmdState(issued) /\ d.at = at /\ d.tok = 0
  BY <1>1, <1>2 DEF CmdState
<1> HIDE DEF d
<1>5. e \in CmdState(issued) /\ e.at = at /\ e.tok = 0 /\ e.good = Authorised
  BY <1>1, <1>4 DEF CmdState
<1> HIDE DEF e
<1> QED
  BY <1>1, <1>3, <1>5, CmdChanges DEF Only

LEMMA StepsParts ==
    ASSUME DesktopTypeOK, NEW r \in Runs, NEW at \in {"refresh", "mount", "populate"},
           cmd' = [cmd EXCEPT ![r].at = at]
    PROVE  /\ cmd' \in [Runs -> CmdState(issued)] /\ Only(r)
           /\ cmd'[r].at = at /\ cmd'[r].tok = cmd[r].tok /\ cmd'[r].key = cmd[r].key
<1>1. cmd[r] \in CmdState(issued) /\ issued \in Nat /\ issued \in 0..issued
  BY DesktopParts, IssuedParts
<1> DEFINE c == [cmd[r] EXCEPT !.at = at]
<1>2. c \in CmdState(issued) /\ c.at = at /\ c.tok = cmd[r].tok /\ c.key = cmd[r].key
  BY <1>1 DEF CmdState
<1>3. cmd' = [cmd EXCEPT ![r] = c]
  BY <1>1, DesktopParts
<1> HIDE DEF c
<1> QED
  BY <1>1, <1>2, <1>3, CmdChanges DEF Only

LEMMA EndsParts ==
    ASSUME DesktopTypeOK, NEW r \in Runs, cmd' = [cmd EXCEPT ![r] = Free]
    PROVE  cmd' \in [Runs -> CmdState(issued)] /\ Only(r) /\ cmd'[r].at = "idle" /\ cmd'[r].tok = 0
<1>1. issued \in Nat /\ issued \in 0..issued
  BY IssuedParts
<1>2. Free \in CmdState(issued) /\ Free.at = "idle" /\ Free.tok = 0
  BY <1>1, FreeParts
<1> QED
  BY <1>1, <1>2, CmdChanges DEF Only

(* The page goes on                                                         *)
LEMMA PageParts ==
    ASSUME page \in PageState
    PROVE  /\ page.run \in Runs /\ page.ok \in BOOLEAN
           /\ \A at \in {"closed", "refreshing", "kit", "clearing", "form", "share", "waiting",
                         "recovering", "restoring", "done"} :
                LET p == [page EXCEPT !.at = at] IN
                p \in PageState /\ p.at = at /\ p.run = page.run /\ p.ok = page.ok
           /\ \A ok \in BOOLEAN :
                LET p == [page EXCEPT !.ok = ok] IN
                p \in PageState /\ p.at = page.at /\ p.run = page.run /\ p.ok = ok
           /\ \A ok \in BOOLEAN :
                LET p == [page EXCEPT !.at = "kit", !.ok = ok] IN
                p \in PageState /\ p.at = "kit" /\ p.run = page.run /\ p.ok = ok
<1>1. /\ page.run \in Runs /\ page.ok \in BOOLEAN
      /\ \A at \in {"closed", "refreshing", "kit", "clearing", "form", "share", "waiting",
                         "recovering", "restoring", "done"} :
                LET p == [page EXCEPT !.at = at] IN
                p \in PageState /\ p.at = at /\ p.run = page.run /\ p.ok = page.ok
      /\ \A ok \in BOOLEAN :
                LET p == [page EXCEPT !.ok = ok] IN
                p \in PageState /\ p.at = page.at /\ p.run = page.run /\ p.ok = ok
  BY DEF PageState
<1>2. ASSUME NEW ok \in BOOLEAN
      PROVE  LET p == [page EXCEPT !.at = "kit", !.ok = ok] IN
             p \in PageState /\ p.at = "kit" /\ p.run = page.run /\ p.ok = ok
  <2> DEFINE q == [page EXCEPT !.at = "kit"]
  <2>1. q \in PageState /\ q.at = "kit" /\ q.run = page.run /\ [page EXCEPT !.at = "kit", !.ok = ok] = [q EXCEPT !.ok = ok]
    BY DEF PageState
  <2> HIDE DEF q
  <2>2. LET p == [q EXCEPT !.ok = ok] IN p \in PageState /\ p.at = "kit" /\ p.run = page.run /\ p.ok = ok
    BY <2>1 DEF PageState
  <2> QED
    BY <2>1, <2>2
<1> QED
  BY <1>1, <1>2

LEMMA DesktopStartHolds == DesktopInit => DesktopInv
<1> SUFFICES ASSUME DesktopInit PROVE DesktopInv
  OBVIOUS
<1>1. \A r \in Runs : cmd[r] = Free
  BY DEF DesktopInit
<1>2. Page("closed", FALSE) \in PageState /\ page.at = "closed"
  <2>1. (CHOOSE r \in Runs : TRUE) \in Runs
    BY DesktopAssumption
  <2> QED
    BY <2>1 DEF Page, PageState, DesktopInit
<1>3. DesktopTypeOK
  <2>1. cmd \in [Runs -> CmdState(issued)]
    BY FreeParts DEF DesktopInit
  <2>2. app \in AppState /\ leaving \in LeavingState
    BY DEF DesktopInit, SignedOut, AppState, LeavingState
  <2>3. issued \in 0..MaxIssued /\ keychain \in 0..issued /\ failures \in 0..MaxFailures
    BY DesktopAssumption DEF DesktopInit
  <2> QED
    BY <1>2, <2>1, <2>2, <2>3, DesktopParts DEF DesktopInit
<1>4. \A r \in Runs : cmd[r].at = "idle"
  BY <1>1, FreeParts
<1>5. TokensFit /\ UserFits /\ WorkFits /\ RootFits
  BY <1>4 DEF DesktopInit, TokensFit, UserFits, WorkFits, RootFits, Carries, SignedOut
<1>6. UncrossedFits
  BY <1>2, <1>4 DEF DesktopInit, UncrossedFits, PageFits, LeavingFits, ForgottenFits, OutFits, SignedOut, SigningIn
<1> QED
  BY <1>3, <1>5, <1>6 DEF DesktopInv
-----------------------------------------------------------------------------
(* DesktopSession: the page and the silent refresh                          *)

LEMMA OpenKeeps == ASSUME DesktopInv, NEW r \in Runs, Open(r) PROVE DesktopInv'
<1>0. DesktopTypeOK /\ TokensFit /\ UserFits /\ WorkFits /\ RootFits /\ UncrossedFits
  BY DEF DesktopInv
<1>1. /\ tray = "off" /\ cmd[r].at = "idle" /\ page.at # "clearing" /\ out' = "no"
      /\ page' = [at |-> IF keychain # 0 THEN "refreshing" ELSE "kit", ok |-> FALSE, run |-> r]
      /\ UNCHANGED <<issued, live, other, vault, record, keychain, kit, app, drive, tray, leaving,
                     failures, excuse>>
  BY DEF Open, server, client
<1>2. page' \in PageState /\ page'.at \in {"refreshing", "kit"} /\ ~page'.ok /\ page'.run = r
  BY <1>1 DEF PageState
<1>3. /\ cmd' \in [Runs -> CmdState(issued)] /\ Only(r) /\ cmd'[r].at \in {"idle", "refresh"}
  <2>1. CASE keychain # 0
    <3> DEFINE e == [Free EXCEPT !.at = "refresh"]
               c == [e EXCEPT !.tok = keychain]
    <3>1. e \in CmdState(issued) /\ e.at = "refresh" /\ issued \in Nat
      BY <1>0, IssuedParts, FreeParts DEF CmdState
    <3>2. cmd' = [cmd EXCEPT ![r] = c]
      BY <2>1 DEF Open, Free
    <3> HIDE DEF e
    <3>3. c \in CmdState(issued) /\ c.at = "refresh"
      BY <1>0, <3>1, DesktopParts DEF CmdState
    <3> HIDE DEF c
    <3> QED
      BY <1>0, <3>1, <3>2, <3>3, CmdChanges, issued \in 0..issued DEF Only
  <2>2. CASE keychain = 0
    BY <1>0, <1>1, <2>2, DesktopParts DEF Open, Only
  <2> QED
    BY <2>1, <2>2
<1>4. DesktopTypeOK'
  BY <1>0, <1>1, <1>2, <1>3, DesktopParts, DesktopTypesNext
<1>5. \A s \in Runs : Carries(s)' => Carries(s) /\ s # r /\ cmd'[s] = cmd[s]
  BY <1>3 DEF Carries, Only
<1>6. TokensFit'
  <2>1. cmd'[r].tok = cmd[r].tok \/ cmd'[r].tok = keychain
    <3>1. keychain # 0 => cmd' = [cmd EXCEPT ![r] = [Free EXCEPT !.at = "refresh", !.tok = keychain]]
      BY DEF Open
    <3>2. keychain = 0 => cmd' = cmd
      BY DEF Open
    <3>3. cmd \in [Runs -> CmdState(issued)] /\ [Free EXCEPT !.at = "refresh", !.tok = keychain].tok = keychain
      BY <1>0, DesktopParts DEF Free
    <3> QED
      BY <3>1, <3>2, <3>3
  <2> QED
    BY <1>0, <1>1, <1>3, <1>5, <2>1 DEF TokensFit, Only
<1>7. WorkFits'
  <2>1. \A s \in Runs : cmd[s].at = "refreshed" => cmd'[s] = cmd[s]
    BY <1>1, <1>3 DEF Only
  <2> QED
    BY <1>0, <1>1, <1>5, <2>1 DEF WorkFits, Severed, Carries
<1>8. UserFits' /\ RootFits'
  BY <1>0, <1>1, <1>3 DEF UserFits, RootFits, Only
<1>9. UncrossedFits'
  <2> SUFFICES ASSUME ~Crossed PROVE (PageFits /\ LeavingFits /\ ForgottenFits /\ OutFits)'
    BY <1>1 DEF UncrossedFits, Crossed
  <2>1. PageFits /\ LeavingFits /\ ForgottenFits
    BY <1>0 DEF UncrossedFits
  <2>2. PageFits'
    BY <1>1, <1>2, <1>3, <2>1 DEF PageFits, Only, SigningIn
  <2>3. leaving.at = "idle"
    BY <1>1, <2>1 DEF LeavingFits
  <2> QED
    BY <1>1, <2>1, <2>2, <2>3 DEF LeavingFits, ForgottenFits, OutFits, Stuck
<1> QED
  BY <1>4, <1>6, <1>7, <1>8, <1>9 DEF DesktopInv

LEMMA NoSessionKeeps == ASSUME DesktopInv, NoSession PROVE DesktopInv'
<1>0. DesktopTypeOK /\ TokensFit /\ UserFits /\ WorkFits /\ RootFits /\ UncrossedFits
  BY DEF DesktopInv
<1>1. /\ page.at = "kit" /\ page' = [page EXCEPT !.at = "form"]
      /\ UNCHANGED <<issued, live, other, vault, record, keychain, kit, app, drive, tray, cmd, leaving,
                     failures, excuse, out>>
  BY DEF NoSession, server, client, history
<1>2. page' \in PageState /\ page'.at = "form" /\ page'.run = page.run
  BY <1>0, <1>1, DesktopParts, PageParts
<1>3. DesktopTypeOK'
  BY <1>0, <1>1, <1>2, DesktopParts, DesktopTypesNext
<1>4. TokensFit' /\ UserFits' /\ WorkFits' /\ RootFits'
  BY <1>0, <1>1 DEF TokensFit, UserFits, WorkFits, RootFits, Carries, Severed
<1>5. UncrossedFits'
  BY <1>0, <1>1, <1>2 DEF UncrossedFits, PageFits, LeavingFits, ForgottenFits, OutFits, Crossed, Stuck, Busy
<1> QED
  BY <1>3, <1>4, <1>5 DEF DesktopInv

LEMMA RefreshKeeps == ASSUME DesktopInv, NEW r \in Runs, Refresh(r) PROVE DesktopInv'
<1>0. DesktopTypeOK /\ TokensFit /\ UserFits /\ WorkFits /\ RootFits /\ UncrossedFits
  BY DEF DesktopInv
<1>1. /\ cmd[r].at = "refresh"
      /\ UNCHANGED <<other, vault, record, keychain, kit, app, drive, tray, page, leaving, failures, excuse, out>>
  BY DEF Refresh, client, history
<1>2. /\ cmd[r] \in CmdState(issued) /\ cmd \in [Runs -> CmdState(issued)] /\ keychain \in 0..issued
      /\ issued \in Nat /\ \A s \in Runs : cmd[s].tok \in 0..issued
  BY <1>0, DesktopParts, IssuedParts DEF CmdState
<1>3. ASSUME Only(r), cmd'[r].at = "refreshed" PROVE UncrossedFits' /\ UserFits' /\ RootFits'
  <2>1. Busy
    BY <1>1 DEF Busy
  <2>2. Crossed \/ (PageFits /\ leaving.at = "idle" /\ ForgottenFits /\ out = "no")
    BY <1>0, <2>1 DEF UncrossedFits, LeavingFits, OutFits
  <2>3. PageFits => PageFits'
    BY <1>1, <1>3 DEF PageFits, Only, SigningIn
  <2>4. UncrossedFits'
    BY <1>1, <2>2, <2>3 DEF UncrossedFits, LeavingFits, OutFits, ForgottenFits, Crossed, Stuck
  <2> QED
    BY <1>0, <1>1, <1>3, <2>4 DEF UserFits, RootFits, Only
<1>4. CASE cmd[r].tok \in live
  <2>1. /\ issued < MaxIssued /\ issued' = issued + 1 /\ live' = (live \ {cmd[r].tok}) \cup {issued'}
        /\ cmd' = [cmd EXCEPT ![r].at = "refreshed", ![r].tok = issued']
    BY <1>4 DEF Refresh
  <2> DEFINE e == [cmd[r] EXCEPT !.at = "refreshed"]
             c == [e EXCEPT !.tok = issued']
  <2>2. e \in CmdState(issued) /\ e.at = "refreshed"
    BY <1>2 DEF CmdState
  <2>3. cmd' = [cmd EXCEPT ![r] = c]
    BY <1>2, <2>1 DEF CmdState
  <2> HIDE DEF e
  <2>4. c \in CmdState(issued') /\ c.at = "refreshed" /\ c.tok = issued'
    BY <1>0, <2>1, <2>2, IssuedParts DEF CmdState
  <2> HIDE DEF c
  <2>5. issued' \in Nat /\ issued \in 0..issued' /\ issued' # 0 /\ \A n \in 0..issued : n # issued' /\ n \in 0..issued'
    BY <1>2, <2>1
  <2>6. cmd' \in [Runs -> CmdState(issued')] /\ Only(r) /\ cmd'[r].at = "refreshed" /\ cmd'[r].tok = issued'
    BY <1>0, <2>3, <2>4, <2>5, CmdChanges DEF Only
  <2>7. DesktopTypeOK'
    <3>1. issued' \in 0..MaxIssued /\ live' \subseteq 1..issued' /\ keychain' \in 0..issued'
      BY <1>0, <1>1, <1>2, <2>1, IssuedParts, DesktopParts
    <3> QED
      BY <1>0, <1>1, <2>6, <3>1, DesktopParts, DesktopTypesNext
  <2>8. TokensFit'
    BY <1>0, <1>1, <1>2, <2>5, <2>6 DEF TokensFit, Carries, Only
  <2>9. WorkFits'
    <3> SUFFICES ASSUME ~Severed, ~(leaving.at = "clearing" /\ leaving.good)
                 PROVE  /\ \A s \in Runs : Carries(s)' => cmd'[s].tok \in live'
                        /\ \E s \in Runs : cmd'[s].at = "refreshed" /\ cmd'[s].tok # 0
      BY <1>1 DEF WorkFits, Severed
    <3>1. \A s \in Runs : s # r /\ Carries(s) => cmd[s].tok \in live /\ cmd[s].tok # cmd[r].tok
      BY <1>0 DEF WorkFits, TokensFit
    <3> QED
      BY <2>1, <2>5, <2>6, <3>1 DEF Carries, Only
  <2> QED
    BY <1>3, <2>6, <2>7, <2>8, <2>9 DEF DesktopInv
<1>5. CASE cmd[r].tok \notin live
  <2>1. cmd' = [cmd EXCEPT ![r] = [Free EXCEPT !.at = "refreshed"]] /\ UNCHANGED <<issued, live>>
    BY <1>5 DEF Refresh
  <2> DEFINE c == [Free EXCEPT !.at = "refreshed"]
  <2>2. c \in CmdState(issued) /\ c.at = "refreshed" /\ c.tok = 0 /\ issued \in 0..issued
    BY <1>2, FreeParts DEF CmdState
  <2> HIDE DEF c
  <2>3. cmd' \in [Runs -> CmdState(issued)] /\ Only(r) /\ cmd'[r].at = "refreshed" /\ cmd'[r].tok = 0
    BY <1>0, <1>2, <2>1, <2>2, CmdChanges DEF Only, c
  <2>4. DesktopTypeOK'
    BY <1>0, <1>1, <2>1, <2>3, DesktopParts, DesktopTypesNext
  <2>5. \A s \in Runs : Carries(s)' => Carries(s) /\ s # r
    BY <2>3 DEF Carries, Only
  <2>6. TokensFit'
    <3>1. ASSUME NEW s \in Runs, Carries(s)', NEW u \in Runs, u # s PROVE cmd'[u].tok # cmd'[s].tok
      BY <1>0, <2>3, <2>5, <3>1 DEF TokensFit, Only, Carries
    <3> QED
      BY <1>0, <1>1, <2>3, <2>5, <3>1 DEF TokensFit, Only
  <2>7. WorkFits'
    BY <1>0, <1>1, <2>1, <2>3, <2>5 DEF WorkFits, Only, Severed
  <2> QED
    BY <1>3, <2>3, <2>4, <2>6, <2>7 DEF DesktopInv
<1> QED
  BY <1>4, <1>5

(* A refresh ends                                                           *)
LEMMA RefreshEndsParts ==
    ASSUME DesktopInv, NEW r \in Runs, cmd[r].at \in {"refresh", "refreshed"}, NEW ok \in BOOLEAN,
           RefreshEnds(r, ok)
    PROVE  /\ cmd' \in [Runs -> CmdState(issued)] /\ Only(r) /\ cmd'[r].at = "idle" /\ cmd'[r].tok = 0
           /\ page' \in PageState /\ page'.run = page.run
           /\ \/ page' = page
              \/ page.at = "refreshing" /\ page'.at = "kit"
<1>0. DesktopTypeOK
  BY DEF DesktopInv
<1>1. page' = IF Waits(r, {"refreshing"}) THEN [page EXCEPT !.at = "kit", !.ok = ok] ELSE page
  BY DEF RefreshEnds
<1>2. page \in PageState
  BY <1>0, DesktopParts
<1>3. /\ page' \in PageState /\ page'.run = page.run
      /\ page' = page \/ (page.at = "refreshing" /\ page'.at = "kit")
  BY <1>1, <1>2, PageParts DEF Waits
<1> QED
  BY <1>0, <1>3, EndsParts DEF RefreshEnds

LEMMA RefreshEndsKeep ==
    ASSUME DesktopInv, NEW r \in Runs, cmd[r].at \in {"refresh", "refreshed"},
           Only(r), cmd'[r].at = "idle", page'.run = page.run,
           page' = page \/ (page.at = "refreshing" /\ page'.at = "kit"),
           UNCHANGED <<vault, drive, tray, leaving, out>>, excuse \subseteq excuse',
           app'.authed = app.authed, app'.pair = app.pair, app'.root = app.root
    PROVE  UncrossedFits' /\ RootFits'
<1>0. RootFits /\ UncrossedFits
  BY DEF DesktopInv
<1>1. Busy
  BY DEF Busy
<1>2. Crossed \/ (PageFits /\ leaving.at = "idle" /\ ForgottenFits /\ out = "no")
  BY <1>0, <1>1 DEF UncrossedFits, LeavingFits, OutFits
<1>3. PageFits => PageFits'
  BY DEF PageFits, Only, SigningIn
<1>4. Crossed => Crossed'
  BY DEF Crossed
<1>5. ForgottenFits => ForgottenFits'
  BY DEF ForgottenFits, Stuck
<1>6. UncrossedFits'
  BY <1>2, <1>3, <1>4, <1>5 DEF UncrossedFits, LeavingFits, OutFits
<1>7. RootFits'
  BY <1>0 DEF RootFits, Only
<1> QED
  BY <1>6, <1>7

LEMMA RefreshHeardKeeps == ASSUME DesktopInv, NEW r \in Runs, RefreshHeard(r) PROVE DesktopInv'
<1>0. DesktopTypeOK /\ TokensFit /\ UserFits /\ WorkFits /\ RootFits /\ UncrossedFits
  BY DEF DesktopInv
<1>1. /\ cmd[r].at = "refreshed" /\ keychain' = cmd[r].tok
      /\ app' = IF cmd[r].tok = 0 THEN app ELSE [app EXCEPT !.token = "fresh", !.user = TRUE]
      /\ RefreshEnds(r, cmd[r].tok # 0)
      /\ UNCHANGED <<issued, live, other, vault, record, kit, drive, tray, leaving, failures, excuse, out>>
  BY DEF RefreshHeard, server, history, Stored
<1>2. /\ cmd' \in [Runs -> CmdState(issued)] /\ Only(r) /\ cmd'[r].at = "idle" /\ cmd'[r].tok = 0
      /\ page' \in PageState /\ page'.run = page.run
      /\ page' = page \/ (page.at = "refreshing" /\ page'.at = "kit")
  BY <1>1, RefreshEndsParts
<1>3. /\ app' \in AppState /\ app'.authed = app.authed /\ app'.pair = app.pair /\ app'.root = app.root
      /\ (app'.token = "fresh" => app'.user) /\ (app.user => app'.user)
  <2>1. app \in AppState
    BY <1>0, DesktopParts
  <2> DEFINE a == [app EXCEPT !.token = "fresh"]
  <2>2. /\ a \in AppState /\ a.authed = app.authed /\ a.pair = app.pair /\ a.root = app.root
        /\ [app EXCEPT !.token = "fresh", !.user = TRUE] = [a EXCEPT !.user = TRUE]
    BY <2>1 DEF AppState
  <2> HIDE DEF a
  <2>3. LET b == [a EXCEPT !.user = TRUE] IN
        b \in AppState /\ b.authed = a.authed /\ b.pair = a.pair /\ b.root = a.root /\ b.user
    BY <2>2 DEF AppState
  <2> QED
    BY <1>0, <1>1, <2>1, <2>2, <2>3 DEF UserFits
<1>4. cmd[r].tok \in 0..issued
  BY <1>0, DesktopParts DEF CmdState
<1>5. DesktopTypeOK'
  BY <1>0, <1>1, <1>2, <1>3, <1>4, DesktopParts, DesktopTypesNext
<1>6. \A s \in Runs : Carries(s)' => Carries(s) /\ s # r /\ cmd'[s] = cmd[s]
  BY <1>2 DEF Carries, Only
<1>7. TokensFit'
  <2>1. ASSUME NEW s \in Runs, Carries(s)'
        PROVE  keychain' # cmd'[s].tok /\ \A u \in Runs : u # s => cmd'[u].tok # cmd'[s].tok
    <3>1. Carries(s) /\ s # r /\ cmd'[s] = cmd[s] /\ cmd[s].tok # 0
      BY <1>6, <2>1 DEF Carries
    <3>2. \A u \in Runs : u # s => cmd[u].tok # cmd[s].tok
      BY <1>0, <3>1 DEF TokensFit
    <3> QED
      BY <1>1, <1>2, <3>1, <3>2 DEF Only
  <2> QED
    BY <2>1 DEF TokensFit
<1>8. WorkFits'
  <2>1. cmd[r].tok = 0 \/ Carries(r)
    BY <1>1 DEF Carries
  <2> QED
    BY <1>0, <1>1, <1>6, <2>1 DEF WorkFits, Severed
<1>9. UserFits'
  BY <1>0, <1>1, <1>3 DEF UserFits
<1>10. UncrossedFits' /\ RootFits'
  BY <1>1, <1>2, <1>3, RefreshEndsKeep
<1> QED
  BY <1>5, <1>7, <1>8, <1>9, <1>10 DEF DesktopInv

LEMMA FailureParts == ASSUME DesktopTypeOK, Failure PROVE failures' \in 0..MaxFailures
BY DesktopAssumption DEF Failure, DesktopTypeOK

LEMMA RefreshLostKeeps == ASSUME DesktopInv, NEW r \in Runs, RefreshLost(r) PROVE DesktopInv'
<1>0. DesktopTypeOK /\ TokensFit /\ UserFits /\ WorkFits /\ RootFits /\ UncrossedFits
  BY DEF DesktopInv
<1>1. /\ cmd[r].at \in {"refresh", "refreshed"} /\ Failure /\ excuse' = excuse \cup {"lost"}
      /\ RefreshEnds(r, FALSE)
      /\ UNCHANGED <<issued, live, other, vault, record, keychain, app, kit, drive, tray, leaving, out>>
  BY DEF RefreshLost, server, client
<1>2. /\ cmd' \in [Runs -> CmdState(issued)] /\ Only(r) /\ cmd'[r].at = "idle" /\ cmd'[r].tok = 0
      /\ page' \in PageState /\ page'.run = page.run
      /\ page' = page \/ (page.at = "refreshing" /\ page'.at = "kit")
  BY <1>1, RefreshEndsParts
<1>3. DesktopTypeOK'
  <2>1. failures' \in 0..MaxFailures
    BY <1>0, <1>1, FailureParts
  <2>2. excuse' \subseteq Excuses
    BY <1>0, <1>1, DesktopParts DEF Excuses
  <2> QED
    BY <1>0, <1>1, <1>2, <2>1, <2>2, DesktopParts, DesktopTypesNext
<1>4. TokensFit'
  <2>1. ASSUME NEW s \in Runs, Carries(s)'
        PROVE  keychain' # cmd'[s].tok /\ \A u \in Runs : u # s => cmd'[u].tok # cmd'[s].tok
    <3>1. Carries(s) /\ s # r /\ cmd'[s] = cmd[s] /\ cmd[s].tok # 0
      BY <1>2, <2>1 DEF Carries, Only
    <3>2. keychain # cmd[s].tok /\ \A u \in Runs : u # s => cmd[u].tok # cmd[s].tok
      BY <1>0, <3>1 DEF TokensFit
    <3> QED
      BY <1>1, <1>2, <3>1, <3>2 DEF Only
  <2> QED
    BY <2>1 DEF TokensFit
<1>5. WorkFits' /\ UserFits'
  BY <1>0, <1>1 DEF WorkFits, Severed, UserFits
<1>6. UncrossedFits' /\ RootFits'
  BY <1>1, <1>2, RefreshEndsKeep
<1> QED
  BY <1>3, <1>4, <1>5, <1>6 DEF DesktopInv
-----------------------------------------------------------------------------
(* DesktopSession: signing in                                               *)

(* While a command is under way, or the page is at a form, no logout is     *)
LEMMA BusyFits ==
    ASSUME DesktopInv, Busy
    PROVE  Crossed \/ (PageFits /\ ForgottenFits /\ leaving.at = "idle" /\ out = "no")
BY DEF DesktopInv, UncrossedFits, LeavingFits, OutFits

LEMMA SignInFits ==
    ASSUME DesktopInv, NEW r \in Runs, cmd[r].at \in SigningIn
    PROVE  \/ Crossed
           \/ /\ PageFits /\ leaving.at = "idle" /\ out = "no"
              /\ r = page.run /\ page.at \in {"waiting", "recovering", "restoring"} /\ tray = "mounting"
              /\ drive # NoKey => Stuck
<1>1. Busy
  BY DEF Busy, SigningIn
<1> QED
  BY <1>1, BusyFits DEF PageFits, ForgottenFits

(* A sign-in goes on                                                        *)
LEMMA SignInKeeps ==
    ASSUME DesktopInv, NEW r \in Runs, cmd[r].at \in SigningIn, Only(r), cmd'[r].at \in SigningIn,
           UNCHANGED <<drive, tray, page, leaving, excuse, out>>
    PROVE  UncrossedFits'
<1>1. \/ Crossed
      \/ /\ PageFits /\ leaving.at = "idle" /\ out = "no"
         /\ r = page.run /\ page.at \in {"waiting", "recovering", "restoring"} /\ tray = "mounting"
         /\ drive # NoKey => Stuck
  BY SignInFits
<1>2. PageFits => PageFits'
  BY DEF PageFits, Only
<1> QED
  BY <1>1, <1>2 DEF UncrossedFits, LeavingFits, ForgottenFits, OutFits, Crossed, Stuck

(* Nothing is on its way with it any more                                   *)
LEMMA SettledTokens ==
    ASSUME DesktopInv, NEW r \in Runs, Only(r), cmd[r].at # "refreshed", cmd'[r].tok = 0, UNCHANGED <<live, keychain, leaving>>,
           excuse \subseteq excuse'
    PROVE  TokensFit' /\ WorkFits'
<1>0. TokensFit /\ WorkFits
  BY DEF DesktopInv
<1>1. \A s \in Runs : Carries(s)' => Carries(s) /\ s # r /\ cmd'[s] = cmd[s] /\ cmd[s].tok # 0
  BY DEF Carries, Only
<1>2. TokensFit'
  <2>1. ASSUME NEW s \in Runs, Carries(s)'
        PROVE  keychain' # cmd'[s].tok /\ \A u \in Runs : u # s => cmd'[u].tok # cmd'[s].tok
    <3>1. Carries(s) /\ s # r /\ cmd'[s] = cmd[s] /\ cmd[s].tok # 0
      BY <1>1, <2>1
    <3>2. keychain # cmd[s].tok /\ \A u \in Runs : u # s => cmd[u].tok # cmd[s].tok
      BY <1>0, <3>1 DEF TokensFit
    <3> QED
      BY <3>1, <3>2 DEF Only
  <2> QED
    BY <2>1 DEF TokensFit
<1>3. WorkFits'
  <2>1. Severed => Severed'
    BY DEF Severed
  <2> QED
    BY <1>0, <1>1, <2>1 DEF WorkFits, Only
<1> QED
  BY <1>2, <1>3

LEMMA HandOverKeeps ==
    ASSUME DesktopInv, NEW at \in {"waiting", "recovering"}, page.at \in {"form", "share"}, HandOver(at)
    PROVE  DesktopInv'
<1>0. DesktopTypeOK /\ TokensFit /\ UserFits /\ WorkFits /\ RootFits /\ UncrossedFits
  BY DEF DesktopInv
<1> DEFINE r == page.run
<1>1. /\ issued < MaxIssued /\ issued' = issued + 1 /\ live' = live \cup {issued'}
      /\ kit' = TRUE /\ tray' = "mounting" /\ page' = [page EXCEPT !.at = at] /\ out' = "no"
      /\ cmd[r].at = "idle"
      /\ cmd' = [cmd EXCEPT ![r] = [Free EXCEPT !.at = "login", !.tok = issued']]
      /\ UNCHANGED <<other, vault, record, keychain, app, drive, leaving, failures, excuse>>
  BY DEF HandOver
<1>2. page \in PageState /\ r \in Runs
  BY <1>0, DesktopParts, PageParts
<1>3. page' \in PageState /\ page'.at = at /\ page'.run = r
  BY <1>1, <1>2, PageParts
<1>4. /\ issued \in Nat /\ issued' \in Nat /\ issued' \in 0..MaxIssued /\ issued' # 0 /\ issued \in 0..issued'
      /\ \A n \in 0..issued : n # issued' /\ n \in 0..issued'
      /\ 1..issued \subseteq 1..issued' /\ issued' \in 1..issued'
  BY <1>0, <1>1, IssuedParts
<1>5. /\ cmd' \in [Runs -> CmdState(issued')] /\ Only(r) /\ cmd'[r].at = "login" /\ cmd'[r].tok = issued'
  <2> DEFINE e == [Free EXCEPT !.at = "login"]
             c == [e EXCEPT !.tok = issued']
  <2>1. e \in CmdState(issued') /\ e.at = "login"
    BY <1>4, FreeParts DEF CmdState
  <2>2. cmd' = [cmd EXCEPT ![r] = c]
    BY <1>1 DEF Free
  <2> HIDE DEF e
  <2>3. c \in CmdState(issued') /\ c.at = "login" /\ c.tok = issued'
    BY <1>4, <2>1 DEF CmdState
  <2> HIDE DEF c, r
  <2> QED
    BY <1>0, <1>2, <1>4, <2>2, <2>3, CmdChanges DEF Only
<1> HIDE DEF r
<1>6. DesktopTypeOK'
  <2>1. live' \subseteq 1..issued' /\ keychain' \in 0..issued'
    BY <1>0, <1>1, <1>4, DesktopParts
  <2> QED
    BY <1>0, <1>1, <1>3, <1>4, <1>5, <2>1, DesktopParts, DesktopTypesNext
<1>7. /\ \A s \in Runs : cmd[s].tok \in 0..issued /\ cmd[s].tok # issued'
      /\ keychain # issued'
  BY <1>0, <1>4, DesktopParts DEF CmdState
<1>8. TokensFit'
  <2>1. ASSUME NEW s \in Runs, Carries(s)'
        PROVE  keychain' # cmd'[s].tok /\ \A u \in Runs : u # s => cmd'[u].tok # cmd'[s].tok
    <3>1. CASE s = r
      BY <1>1, <1>5, <1>7, <3>1 DEF Only
    <3>2. CASE s # r
      <4>1. Carries(s) /\ cmd'[s] = cmd[s]
        BY <1>5, <2>1, <3>2 DEF Carries, Only
      <4>2. keychain # cmd[s].tok /\ \A u \in Runs : u # s => cmd[u].tok # cmd[s].tok
        BY <1>0, <4>1 DEF TokensFit
      <4> QED
        BY <1>1, <1>5, <1>7, <4>1, <4>2 DEF Only
    <3> QED
      BY <3>1, <3>2
  <2> QED
    BY <2>1 DEF TokensFit
<1>9. WorkFits'
  <2>1. \A s \in Runs : cmd[s].at = "refreshed" => cmd'[s] = cmd[s]
    BY <1>1, <1>5 DEF Only
  <2> QED
    BY <1>0, <1>1, <1>5, <2>1 DEF WorkFits, Severed, Carries, Only
<1>10. UserFits' /\ RootFits'
  BY <1>0, <1>1, <1>5 DEF UserFits, RootFits, Only
<1>11. UncrossedFits'
  <2> SUFFICES ASSUME ~Crossed PROVE (PageFits /\ LeavingFits /\ ForgottenFits /\ OutFits)'
    BY <1>1 DEF UncrossedFits, Crossed
  <2>1. /\ PageFits /\ LeavingFits /\ ForgottenFits
        /\ tray # "on" /\ leaving.at = "idle" /\ \A s \in Runs : cmd[s].at \notin SigningIn
    BY <1>0 DEF UncrossedFits, PageFits, LeavingFits
  <2>2. PageFits'
    BY <1>1, <1>3, <1>5, <2>1 DEF PageFits, Only
  <2> QED
    BY <1>1, <2>1, <2>2 DEF LeavingFits, ForgottenFits, OutFits, Stuck
<1> QED
  BY <1>6, <1>8, <1>9, <1>10, <1>11 DEF DesktopInv

LEMMA LoginShareKeeps == ASSUME DesktopInv, LoginShare PROVE DesktopInv'
<1>0. DesktopTypeOK /\ TokensFit /\ UserFits /\ WorkFits /\ RootFits /\ UncrossedFits
  BY DEF DesktopInv
<1>1. /\ page.at = "form" /\ issued < MaxIssued /\ issued' = issued + 1 /\ live' = live \cup {issued'}
      /\ page' = [page EXCEPT !.at = "share"] /\ out' = "no"
      /\ UNCHANGED <<other, vault, record, keychain, kit, app, drive, tray, cmd, leaving, failures, excuse>>
  BY DEF LoginShare, client
<1>2. page' \in PageState /\ page'.at = "share" /\ page'.run = page.run
  BY <1>0, <1>1, DesktopParts, PageParts
<1>3. /\ issued \in Nat /\ issued' \in 0..MaxIssued
      /\ \A n \in 0..issued : n \in 0..issued'
      /\ 1..issued \subseteq 1..issued' /\ issued' \in 1..issued'
  BY <1>0, <1>1, IssuedParts
<1>4. DesktopTypeOK'
  <2>1. live' \subseteq 1..issued' /\ keychain' \in 0..issued'
    BY <1>0, <1>1, <1>3, DesktopParts
  <2>2. CmdState(issued) \subseteq CmdState(issued')
    BY <1>3 DEF CmdState
  <2>3. cmd' \in [Runs -> CmdState(issued')]
    BY <1>0, <1>1, <2>2, DesktopParts
  <2> QED
    BY <1>0, <1>1, <1>2, <1>3, <2>1, <2>3, DesktopParts, DesktopTypesNext
<1>5. TokensFit' /\ UserFits' /\ WorkFits' /\ RootFits'
  BY <1>0, <1>1 DEF TokensFit, UserFits, WorkFits, RootFits, Carries, Severed
<1>6. UncrossedFits'
  <2> SUFFICES ASSUME ~Crossed PROVE (PageFits /\ LeavingFits /\ ForgottenFits /\ OutFits)'
    BY <1>1 DEF UncrossedFits, Crossed
  <2>1. PageFits /\ LeavingFits /\ ForgottenFits /\ leaving.at = "idle"
    BY <1>0, <1>1 DEF UncrossedFits, PageFits, LeavingFits
  <2> QED
    BY <1>1, <1>2, <2>1 DEF PageFits, LeavingFits, ForgottenFits, OutFits, Stuck
<1> QED
  BY <1>4, <1>5, <1>6 DEF DesktopInv

LEMMA LoginHeardKeeps == ASSUME DesktopInv, NEW r \in Runs, LoginHeard(r) PROVE DesktopInv'
<1>0. DesktopTypeOK /\ TokensFit /\ UserFits /\ WorkFits /\ RootFits /\ UncrossedFits
  BY DEF DesktopInv
<1>1. /\ cmd[r].at = "login" /\ keychain' = cmd[r].tok
      /\ app' = [app EXCEPT !.token = "fresh", !.user = TRUE, !.pair = TRUE]
      /\ cmd' = [cmd EXCEPT ![r].at = "vault", ![r].tok = 0, ![r].good = TRUE]
      /\ UNCHANGED <<issued, live, other, vault, record, kit, drive, tray, page, leaving, failures, excuse, out>>
  BY DEF LoginHeard, server, history
<1>2. cmd[r] \in CmdState(issued) /\ cmd[r].tok \in 0..issued /\ issued \in Nat /\ issued \in 0..issued
  BY <1>0, DesktopParts, IssuedParts DEF CmdState
<1>3. /\ app' \in AppState /\ app'.user /\ app'.pair /\ app'.root = app.root /\ app'.authed = app.authed
  <2> DEFINE a == [app EXCEPT !.token = "fresh"]
             b == [a EXCEPT !.user = TRUE]
             c == [b EXCEPT !.pair = TRUE]
  <2>1. app \in AppState
    BY <1>0, DesktopParts
  <2>2. a \in AppState /\ a.root = app.root /\ a.authed = app.authed /\ app' = c
    BY <1>1, <2>1 DEF AppState
  <2> HIDE DEF a
  <2>3. b \in AppState /\ b.root = app.root /\ b.authed = app.authed /\ b.user
    BY <2>2 DEF AppState
  <2> HIDE DEF b
  <2> QED
    BY <2>2, <2>3 DEF AppState
<1>4. cmd' \in [Runs -> CmdState(issued)] /\ Only(r) /\ cmd'[r].at = "vault" /\ cmd'[r].tok = 0
  <2> DEFINE a == [cmd[r] EXCEPT !.at = "vault"]
             b == [a EXCEPT !.tok = 0]
             c == [b EXCEPT !.good = TRUE]
  <2>1. a \in CmdState(issued) /\ a.at = "vault" /\ cmd' = [cmd EXCEPT ![r] = c]
    BY <1>0, <1>1, <1>2, DesktopParts DEF CmdState
  <2> HIDE DEF a
  <2>2. b \in CmdState(issued) /\ b.at = "vault" /\ b.tok = 0
    BY <1>2, <2>1 DEF CmdState
  <2> HIDE DEF b
  <2>3. c \in CmdState(issued) /\ c.at = "vault" /\ c.tok = 0
    BY <1>2, <2>2 DEF CmdState
  <2> HIDE DEF c
  <2> QED
    BY <1>0, <1>2, <2>1, <2>3, CmdChanges DEF Only
<1>5. DesktopTypeOK'
  BY <1>0, <1>1, <1>2, <1>3, <1>4, DesktopParts, DesktopTypesNext
<1>6. \A s \in Runs : Carries(s)' => Carries(s) /\ s # r /\ cmd'[s] = cmd[s] /\ cmd[s].tok # 0
  BY <1>4 DEF Carries, Only
<1>7. TokensFit'
  <2>1. ASSUME NEW s \in Runs, Carries(s)'
        PROVE  keychain' # cmd'[s].tok /\ \A u \in Runs : u # s => cmd'[u].tok # cmd'[s].tok
    <3>1. Carries(s) /\ s # r /\ cmd'[s] = cmd[s] /\ cmd[s].tok # 0
      BY <1>6, <2>1
    <3>2. \A u \in Runs : u # s => cmd[u].tok # cmd[s].tok
      BY <1>0, <3>1 DEF TokensFit
    <3> QED
      BY <1>1, <1>4, <3>1, <3>2 DEF Only
  <2> QED
    BY <2>1 DEF TokensFit
<1>8. WorkFits'
  <2>1. cmd[r].tok = 0 \/ Carries(r)
    BY <1>1 DEF Carries
  <2>2. ASSUME ~Severed, ~(leaving.at = "clearing" /\ leaving.good)
        PROVE  (\A s \in Runs : Carries(s)' => cmd'[s].tok \in live) /\ (keychain' # 0 => keychain' \in live)
    BY <1>0, <1>1, <1>6, <2>1, <2>2 DEF WorkFits
  <2> QED
    BY <1>1, <2>2 DEF WorkFits, Severed
<1>9. UserFits' /\ RootFits'
  BY <1>0, <1>1, <1>3, <1>4 DEF UserFits, RootFits, Only
<1>10. UncrossedFits'
  BY <1>1, <1>4, SignInKeeps DEF SigningIn
<1> QED
  BY <1>5, <1>7, <1>8, <1>9, <1>10 DEF DesktopInv

LEMMA RestoreKeeps == ASSUME DesktopInv, Restore PROVE DesktopInv'
<1>0. DesktopTypeOK /\ TokensFit /\ UserFits /\ WorkFits /\ RootFits /\ UncrossedFits
  BY DEF DesktopInv
<1> DEFINE r == page.run
<1>1. /\ page.at = "kit" /\ page.ok /\ cmd[r].at = "idle" /\ tray' = "mounting"
      /\ UNCHANGED <<issued, live, other, vault, record, keychain, kit, drive, leaving, failures, excuse, out>>
  BY DEF Restore, server, history
<1>2. page \in PageState /\ r \in Runs /\ app \in AppState
  BY <1>0, DesktopParts, PageParts
<1>3. ASSUME ~Crossed
      PROVE  /\ PageFits /\ leaving.at = "idle" /\ out = "no" /\ (drive # NoKey => Stuck)
             /\ \A s \in Runs : cmd[s].at \notin SigningIn
  BY <1>0, <1>1, <1>3 DEF UncrossedFits, PageFits, LeavingFits, ForgottenFits, OutFits
<1>4. CASE app.token # "none" /\ keychain # 0
  <2>1. /\ app' = [app EXCEPT !.user = TRUE, !.pair = TRUE] /\ Sends(r, "vault")
        /\ page' = [page EXCEPT !.at = "restoring"]
    BY <1>4 DEF Restore
  <2>2. page' \in PageState /\ page'.at = "restoring" /\ page'.run = r
    BY <1>2, <2>1, PageParts
  <2>3. cmd' \in [Runs -> CmdState(issued)] /\ Only(r) /\ cmd'[r].at = "vault" /\ cmd'[r].tok = 0
    <3> HIDE DEF r
    <3> QED
      BY <1>0, <1>2, <2>1, SendsParts
  <2> HIDE DEF r
  <2>4. /\ app' \in AppState /\ app'.user /\ app'.pair /\ app'.root = app.root /\ app'.authed = app.authed
    <3> DEFINE b == [app EXCEPT !.user = TRUE]
               c == [b EXCEPT !.pair = TRUE]
    <3>1. b \in AppState /\ b.root = app.root /\ b.authed = app.authed /\ b.user /\ app' = c
      BY <1>2, <2>1 DEF AppState
    <3> HIDE DEF b
    <3> QED
      BY <3>1 DEF AppState
  <2>5. DesktopTypeOK'
    BY <1>0, <1>1, <2>2, <2>3, <2>4, DesktopParts, DesktopTypesNext
  <2>6. TokensFit' /\ WorkFits'
    BY <1>1, <1>2, <2>3, SettledTokens
  <2>7. UserFits' /\ RootFits'
    BY <1>0, <1>1, <2>3, <2>4 DEF UserFits, RootFits, Only
  <2>8. UncrossedFits'
    <3> SUFFICES ASSUME ~Crossed PROVE (PageFits /\ LeavingFits /\ ForgottenFits /\ OutFits)'
      BY <1>1 DEF UncrossedFits, Crossed
    <3>1. PageFits'
      BY <1>1, <1>3, <2>2, <2>3 DEF PageFits, Only
    <3> QED
      BY <1>1, <1>3, <3>1 DEF LeavingFits, ForgottenFits, OutFits, Stuck
  <2> QED
    BY <2>5, <2>6, <2>7, <2>8 DEF DesktopInv
<1>5. CASE ~(app.token # "none" /\ keychain # 0)
  <2>1. page' = [page EXCEPT !.ok = FALSE] /\ UNCHANGED <<app, cmd>>
    BY <1>5 DEF Restore
  <2>2. page' \in PageState /\ page'.at = "kit" /\ page'.run = page.run /\ ~page'.ok
    BY <1>1, <1>2, <2>1, PageParts
  <2>3. DesktopTypeOK'
    BY <1>0, <1>1, <2>1, <2>2, DesktopParts, DesktopTypesNext
  <2>4. TokensFit' /\ UserFits' /\ WorkFits' /\ RootFits'
    BY <1>0, <1>1, <2>1 DEF TokensFit, UserFits, WorkFits, RootFits, Carries, Severed
  <2>5. UncrossedFits'
    <3> SUFFICES ASSUME ~Crossed PROVE (PageFits /\ LeavingFits /\ ForgottenFits /\ OutFits)'
      BY <1>1 DEF UncrossedFits, Crossed
    <3> QED
      BY <1>1, <1>3, <2>1, <2>2 DEF PageFits, LeavingFits, ForgottenFits, OutFits, Stuck
  <2> QED
    BY <2>3, <2>4, <2>5 DEF DesktopInv
<1> QED
  BY <1>4, <1>5
-----------------------------------------------------------------------------
(* DesktopSession: the commands of a sign-in                                *)

LEMMA ErrsKeep ==
    ASSUME DesktopInv, NEW r \in Runs, cmd[r].at \in {"login", "vault", "init", "publish", "again"}, Errs(r),
           UNCHANGED <<issued, live, other, vault, record, keychain, kit, app, drive, tray, leaving, out>>,
           excuse \subseteq excuse', excuse' \subseteq Excuses, failures' \in 0..MaxFailures
    PROVE  DesktopInv'
<1>0. DesktopTypeOK /\ TokensFit /\ UserFits /\ WorkFits /\ RootFits /\ UncrossedFits
  BY DEF DesktopInv
<1>1. cmd' \in [Runs -> CmdState(issued)] /\ Only(r) /\ cmd'[r].at = "idle" /\ cmd'[r].tok = 0
  BY <1>0, EndsParts DEF Errs
<1>2. /\ page' \in PageState /\ page'.run = page.run
      /\ page' # page => page'.at \in {"form", "share", "kit"} /\ (page'.at = "kit" => ~page'.ok)
      /\ r = page.run /\ page.at \in {"waiting", "recovering", "restoring"} => page'.at \in {"form", "share", "kit"}
  <2>1. page \in PageState
    BY <1>0, DesktopParts
  <2>2. page' = IF Waits(r, {"waiting"}) THEN [page EXCEPT !.at = "form"]
                ELSE IF Waits(r, {"recovering"}) THEN [page EXCEPT !.at = "share"]
                ELSE IF Waits(r, {"restoring"}) THEN [page EXCEPT !.at = "kit", !.ok = FALSE]
                ELSE page
    BY DEF Errs
  <2> QED
    BY <2>1, <2>2, PageParts DEF Waits
<1>3. DesktopTypeOK'
  BY <1>0, <1>1, <1>2, DesktopParts, DesktopTypesNext
<1>4. TokensFit' /\ WorkFits'
  BY <1>1, SettledTokens
<1>5. UserFits' /\ RootFits'
  BY <1>0, <1>1 DEF UserFits, RootFits, Only
<1>6. UncrossedFits'
  <2>1. \/ Crossed
        \/ /\ PageFits /\ leaving.at = "idle" /\ out = "no"
           /\ r = page.run /\ page.at \in {"waiting", "recovering", "restoring"} /\ tray = "mounting"
           /\ drive # NoKey => Stuck
    BY SignInFits DEF SigningIn
  <2>2. Crossed => Crossed'
    BY DEF Crossed
  <2>3. ASSUME ~Crossed PROVE (PageFits /\ LeavingFits /\ ForgottenFits /\ OutFits)'
    <3>1. \A s \in Runs : s # r => cmd'[s].at \notin SigningIn
      BY <1>1, <2>1, <2>3 DEF PageFits, Only
    <3>2. PageFits'
      BY <1>1, <1>2, <2>1, <2>3, <3>1 DEF PageFits, SigningIn
    <3> QED
      BY <2>1, <2>3, <3>2 DEF LeavingFits, ForgottenFits, OutFits, Stuck
  <2> QED
    BY <2>2, <2>3 DEF UncrossedFits
<1> QED
  BY <1>3, <1>4, <1>5, <1>6 DEF DesktopInv

(* A command that goes on to the next request of a sign-in                  *)
LEMMA SendsKeep ==
    ASSUME DesktopInv, NEW r \in Runs, cmd[r].at \in {"vault", "init", "publish", "again"},
           NEW at \in {"init", "publish", "again"}, Sends(r, at),
           UNCHANGED <<issued, live, other, keychain, kit, app, drive, tray, page, leaving, failures, excuse, out>>,
           record' \in {"none", "empty", "full"},
           vault' = vault \/ (vault = NoKey /\ vault' = Here),
           at = "publish" => vault' = Here
    PROVE  DesktopInv'
<1>0. DesktopTypeOK /\ TokensFit /\ UserFits /\ WorkFits /\ RootFits /\ UncrossedFits
  BY DEF DesktopInv
<1>1. cmd' \in [Runs -> CmdState(issued)] /\ Only(r) /\ cmd'[r].at = at /\ cmd'[r].tok = 0
  BY <1>0, SendsParts
<1>2. DesktopTypeOK'
  BY <1>0, <1>1, DesktopParts, DesktopTypesNext
<1>3. TokensFit' /\ WorkFits'
  BY <1>1, SettledTokens
<1>4. RootFits'
  BY <1>0, <1>1, DesktopAssumption DEF RootFits, Only
<1>5. UserFits' /\ UncrossedFits'
  BY <1>0, <1>1, SignInKeeps DEF UserFits, SigningIn
<1> QED
  BY <1>2, <1>3, <1>4, <1>5 DEF DesktopInv

LEMMA VaultHeardKeeps == ASSUME DesktopInv, NEW r \in Runs, VaultHeard(r) PROVE DesktopInv'
<1>0. DesktopTypeOK /\ TokensFit /\ UserFits /\ WorkFits /\ RootFits /\ UncrossedFits
  BY DEF DesktopInv
<1>1. /\ cmd[r].at \in {"vault", "again"}
      /\ UNCHANGED <<issued, live, other, vault, record, keychain, kit, drive, tray, leaving, failures, excuse, out>>
  BY DEF VaultHeard, server, history
<1>2. CASE app.pair /\ vault # NoKey /\ KeysUnlocked(r) /\ UNCHANGED page
  <2> DEFINE e == [Free EXCEPT !.at = "mount"]
             c == [e EXCEPT !.key = vault]
  <2>1. issued \in Nat /\ vault \in {NoKey, Here, There}
    BY <1>0, DesktopParts, IssuedParts
  <2>2. e \in CmdState(issued) /\ e.at = "mount" /\ e.tok = 0 /\ cmd' = [cmd EXCEPT ![r] = c]
    BY <1>2, <2>1, FreeParts DEF CmdState, KeysUnlocked, Free
  <2> HIDE DEF e
  <2>3. c \in CmdState(issued) /\ c.at = "mount" /\ c.tok = 0 /\ c.key = vault
    BY <2>1, <2>2 DEF CmdState
  <2> HIDE DEF c
  <2>4. /\ cmd' \in [Runs -> CmdState(issued)] /\ Only(r) /\ cmd'[r].at = "mount" /\ cmd'[r].tok = 0
        /\ cmd'[r].key = vault
    BY <1>0, <2>1, <2>2, <2>3, CmdChanges, issued \in 0..issued DEF Only
  <2>5. /\ app' \in AppState /\ app'.token = app.token /\ app'.user = app.user /\ app'.pair = app.pair
        /\ app'.root = vault
    <3> DEFINE b == [app EXCEPT !.root = vault]
    <3>1. app \in AppState /\ app' = [b EXCEPT !.authed = TRUE]
      BY <1>0, <1>2, DesktopParts DEF KeysUnlocked
    <3>2. b \in AppState /\ b.token = app.token /\ b.user = app.user /\ b.pair = app.pair /\ b.root = vault
      BY <2>1, <3>1 DEF AppState
    <3> HIDE DEF b
    <3> QED
      BY <3>1, <3>2 DEF AppState
  <2>6. DesktopTypeOK'
    BY <1>0, <1>1, <1>2, <2>4, <2>5, DesktopParts, DesktopTypesNext
  <2>7. TokensFit' /\ WorkFits'
    BY <1>1, <2>4, SettledTokens
  <2>8. UserFits' /\ RootFits'
    BY <1>0, <1>1, <1>2, <2>4, <2>5 DEF UserFits, RootFits, Only
  <2>9. UncrossedFits'
    BY <1>1, <1>2, <2>4, SignInKeeps DEF SigningIn
  <2> QED
    BY <2>6, <2>7, <2>8, <2>9 DEF DesktopInv
<1>3. CASE Sends(r, "init") /\ UNCHANGED <<app, page>>
  BY <1>0, <1>1, <1>3, SendsKeep, DesktopParts
<1>4. CASE Errs(r) /\ UNCHANGED app
  BY <1>0, <1>1, <1>4, ErrsKeep, DesktopParts
<1> QED
  BY <1>2, <1>3, <1>4 DEF VaultHeard

LEMMA InitVaultKeeps == ASSUME DesktopInv, NEW r \in Runs, InitVault(r) PROVE DesktopInv'
<1>0. DesktopTypeOK
  BY DEF DesktopInv
<1>1. /\ cmd[r].at = "init"
      /\ UNCHANGED <<issued, live, other, record, keychain, kit, app, drive, tray, leaving, failures, excuse, out>>
  BY DEF InitVault, client, history
<1>2. CASE vault = NoKey /\ vault' = Here /\ Sends(r, "publish") /\ UNCHANGED page
  BY <1>0, <1>1, <1>2, SendsKeep, DesktopParts
<1>3. CASE Errs(r) /\ UNCHANGED vault
  BY <1>0, <1>1, <1>3, ErrsKeep, DesktopParts
<1> QED
  BY <1>2, <1>3 DEF InitVault, Accepts

LEMMA PublishEmptyKeeps == ASSUME DesktopInv, NEW r \in Runs, PublishEmpty(r) PROVE DesktopInv'
<1>0. DesktopTypeOK
  BY DEF DesktopInv
<1>1. /\ cmd[r].at = "publish"
      /\ UNCHANGED <<issued, live, other, vault, keychain, kit, app, drive, tray, leaving, failures, excuse, out>>
  BY DEF PublishEmpty, client, history
<1>2. CASE record' = "empty" /\ Sends(r, "again") /\ UNCHANGED page
  BY <1>0, <1>1, <1>2, SendsKeep
<1>3. CASE Errs(r) /\ UNCHANGED record
  BY <1>0, <1>1, <1>3, ErrsKeep, DesktopParts
<1> QED
  BY <1>2, <1>3 DEF PublishEmpty

LEMMA CommandFailsKeeps == ASSUME DesktopInv, NEW r \in Runs, CommandFails(r) PROVE DesktopInv'
<1>0. DesktopTypeOK
  BY DEF DesktopInv
<1>1. /\ cmd[r].at \in {"login", "vault", "init", "publish", "again"} /\ Errs(r) /\ Failure
      /\ excuse' = excuse \cup {"lost"}
      /\ UNCHANGED <<issued, live, other, vault, record, keychain, kit, app, drive, tray, leaving, out>>
  BY DEF CommandFails, server, client
<1>2. failures' \in 0..MaxFailures
  BY <1>0, <1>1, FailureParts
<1>3. excuse \subseteq excuse' /\ excuse' \subseteq Excuses
  BY <1>0, <1>1, DesktopParts DEF Excuses
<1> QED
  BY <1>1, <1>2, <1>3, ErrsKeep

LEMMA CleanKeeps == ASSUME DesktopInv, NEW r \in Runs, Clean(r) PROVE DesktopInv'
<1>0. DesktopTypeOK /\ TokensFit /\ UserFits /\ WorkFits /\ RootFits /\ UncrossedFits
  BY DEF DesktopInv
<1>1. /\ cmd[r].at = "mount" /\ cmd' = [cmd EXCEPT ![r].at = "populate"]
      /\ record' = IF drive # NoKey /\ Authorised THEN "empty" ELSE record
      /\ UNCHANGED <<issued, live, other, vault, keychain, kit, app, drive, tray, page, leaving, failures, excuse, out>>
  BY DEF Clean, client, history
<1>2. /\ cmd' \in [Runs -> CmdState(issued)] /\ Only(r)
      /\ cmd'[r].at = "populate" /\ cmd'[r].tok = cmd[r].tok /\ cmd'[r].key = cmd[r].key
  BY <1>0, <1>1, StepsParts
<1>3. DesktopTypeOK'
  BY <1>0, <1>1, <1>2, DesktopParts, DesktopTypesNext
<1>4. \A s \in Runs : /\ Carries(s)' => Carries(s) /\ cmd'[s].tok = cmd[s].tok
                      /\ cmd'[s].tok = cmd[s].tok /\ cmd[s].at = "refreshed" => cmd'[s] = cmd[s]
  BY <1>1, <1>2 DEF Carries, Only
<1>5. TokensFit'
  <2>1. \A s \in Runs : cmd'[s].tok = cmd[s].tok
    BY <1>2 DEF Only
  <2> QED
    BY <1>0, <1>1, <1>4, <2>1 DEF TokensFit
<1>6. WorkFits'
  <2>1. \A s \in Runs : cmd[s].at = "refreshed" => cmd'[s] = cmd[s]
    BY <1>1, <1>2 DEF Only
  <2> QED
    BY <1>0, <1>1, <1>4, <2>1 DEF WorkFits, Severed
<1>7. UserFits' /\ RootFits'
  BY <1>0, <1>1, <1>2 DEF UserFits, RootFits, Only
<1>8. UncrossedFits'
  BY <1>1, <1>2, SignInKeeps DEF SigningIn
<1> QED
  BY <1>3, <1>5, <1>6, <1>7, <1>8 DEF DesktopInv

(* A sign-in ends, with a drive or without                                  *)
LEMMA FinishedKeep ==
    ASSUME DesktopInv, NEW r \in Runs, cmd[r].at = "populate", Finished(r),
           UNCHANGED <<issued, live, other, vault, record, keychain, kit, app, leaving, excuse, out>>,
           \/ tray' = "on" /\ drive' = cmd[r].key
           \/ tray' = "error" /\ drive' = drive,
           failures' \in 0..MaxFailures
    PROVE  DesktopInv'
<1>0. DesktopTypeOK /\ TokensFit /\ UserFits /\ WorkFits /\ RootFits /\ UncrossedFits
  BY DEF DesktopInv
<1>1. cmd' \in [Runs -> CmdState(issued)] /\ Only(r) /\ cmd'[r].at = "idle" /\ cmd'[r].tok = 0
  BY <1>0, EndsParts DEF Finished
<1>2. /\ page' \in PageState /\ page'.run = page.run
      /\ page' = page \/ page'.at = "done"
      /\ r = page.run /\ page.at \in {"waiting", "recovering", "restoring"} => page'.at = "done"
  <2>1. page \in PageState
    BY <1>0, DesktopParts
  <2>2. page' = IF Waits(r, {"waiting", "recovering", "restoring"}) THEN [page EXCEPT !.at = "done"] ELSE page
    BY DEF Finished
  <2> QED
    BY <2>1, <2>2, PageParts DEF Waits
<1>3. DesktopTypeOK'
  <2>1. drive' \in {NoKey, Here, There}
    BY <1>0, DesktopParts DEF CmdState
  <2> QED
    BY <1>0, <1>1, <1>2, <2>1, DesktopParts, DesktopTypesNext
<1>4. TokensFit' /\ WorkFits'
  BY <1>1, SettledTokens
<1>5. UserFits' /\ RootFits'
  BY <1>0, <1>1 DEF UserFits, RootFits, Only
<1>6. UncrossedFits'
  <2> SUFFICES ASSUME ~Crossed PROVE (PageFits /\ LeavingFits /\ ForgottenFits /\ OutFits)'
    BY DEF UncrossedFits, Crossed
  <2>1. /\ PageFits /\ leaving.at = "idle" /\ out = "no"
        /\ r = page.run /\ page.at \in {"waiting", "recovering", "restoring"} /\ tray = "mounting"
        /\ drive # NoKey => Stuck
    BY SignInFits DEF SigningIn
  <2>2. \A s \in Runs : cmd'[s].at \notin SigningIn
    BY <1>1, <2>1 DEF PageFits, Only, SigningIn
  <2>3. PageFits'
    BY <1>2, <2>1, <2>2 DEF PageFits
  <2> QED
    BY <2>1, <2>3 DEF LeavingFits, ForgottenFits, OutFits, Stuck
<1> QED
  BY <1>3, <1>4, <1>5, <1>6 DEF DesktopInv

LEMMA MountedKeeps == ASSUME DesktopInv, NEW r \in Runs, Mounted(r) \/ MountFails(r) PROVE DesktopInv'
<1>0. DesktopTypeOK
  BY DEF DesktopInv
<1>1. failures' \in 0..MaxFailures
  BY <1>0, FailureParts, DesktopParts DEF Mounted, MountFails
<1> QED
  BY <1>1, FinishedKeep DEF Mounted, MountFails, server, history
-----------------------------------------------------------------------------
(* DesktopSession: signing out                                              *)

LEMMA LeavingParts ==
    ASSUME leaving \in LeavingState
    PROVE  /\ leaving.by \in {"tray", "stale", "back"} /\ leaving.good \in BOOLEAN
           /\ \A at \in {"idle", "posting", "clearing"} :
                LET l == [leaving EXCEPT !.at = at] IN
                l \in LeavingState /\ l.at = at /\ l.by = leaving.by /\ l.good = leaving.good
BY DEF LeavingState

(* A logout starts                                                          *)
LEMMA UnmountKeeps ==
    ASSUME DesktopInv, NEW by \in {"tray", "stale", "back"}, Unmount(by),
           \/ by = "tray" /\ tray = "on" /\ UNCHANGED page
           \/ /\ by # "tray" /\ page.at \in {"kit", "share", "recovering"}
              /\ page' = [page EXCEPT !.at = "clearing"]
    PROVE  DesktopInv'
<1>0. DesktopTypeOK /\ TokensFit /\ UserFits /\ WorkFits /\ RootFits /\ UncrossedFits
  BY DEF DesktopInv
<1>1. /\ leaving.at = "idle" /\ leaving' = [at |-> "posting", by |-> by, good |-> Authorised]
      /\ drive' = NoKey \/ drive' = drive
      /\ excuse' \subseteq Excuses /\ excuse \subseteq excuse' /\ (Busy => "crossed" \in excuse')
      /\ drive' # NoKey => "stuck" \in excuse'
      /\ failures' \in 0..MaxFailures
      /\ UNCHANGED <<issued, live, other, vault, record, keychain, kit, app, tray, cmd, out>>
  <2>1. excuse \subseteq Excuses /\ failures \in 0..MaxFailures
    BY <1>0, DesktopParts
  <2>2. Failure => failures' \in 0..MaxFailures
    BY <1>0, FailureParts
  <2> QED
    BY <2>1, <2>2 DEF Unmount, Crossing, Excuses, server
<1>2. /\ page' \in PageState /\ page'.run = page.run
      /\ IF by = "tray" THEN page' = page /\ tray = "on" ELSE page'.at = "clearing"
  <2> DEFINE p == [page EXCEPT !.at = "clearing"]
  <2>1. page \in PageState
    BY <1>0, DesktopParts
  <2>2. p \in PageState /\ p.at = "clearing" /\ p.run = page.run
    BY <2>1 DEF PageState
  <2>3. page' = page \/ page' = p
    OBVIOUS
  <2>4. IF by = "tray" THEN page' = page /\ tray = "on" ELSE page' = p
    OBVIOUS
  <2> HIDE DEF p
  <2> QED
    BY <2>1, <2>2, <2>3, <2>4
<1>3. /\ leaving' \in LeavingState /\ leaving'.at = "posting" /\ leaving'.by = by
      /\ leaving'.good => app.token = "fresh"
  BY <1>1 DEF LeavingState, Authorised
<1>4. DesktopTypeOK'
  BY <1>0, <1>1, <1>2, <1>3, DesktopParts, DesktopTypesNext
<1>5. TokensFit' /\ UserFits' /\ WorkFits' /\ RootFits'
  BY <1>0, <1>1, <1>3 DEF TokensFit, UserFits, WorkFits, RootFits, Carries, Severed
<1>6. UncrossedFits'
  <2> SUFFICES ASSUME ~Crossed' PROVE (PageFits /\ LeavingFits /\ ForgottenFits /\ OutFits)'
    BY DEF UncrossedFits
  <2>1. ~Crossed /\ ~Busy
    BY <1>1 DEF Crossed
  <2>2. PageFits /\ LeavingFits /\ ForgottenFits /\ OutFits
    BY <1>0, <2>1 DEF UncrossedFits
  <2>3. \A s \in Runs : cmd'[s].at = "idle"
    BY <1>1, <2>1 DEF Busy
  <2>4. PageFits'
    BY <1>1, <1>2, <2>2, <2>3 DEF PageFits, SigningIn
  <2>5. LeavingFits'
    <3>1. ~Busy'
      BY <2>3 DEF Busy
    <3>2. IF by = "tray" THEN tray' = "on" ELSE page'.at = "clearing"
      BY <1>1, <1>2
    <3> QED
      BY <1>3, <3>1, <3>2 DEF LeavingFits
  <2>6. ForgottenFits'
    BY <1>1, <2>2 DEF ForgottenFits, Stuck
  <2>7. OutFits'
    <3>1. ~Busy'
      BY <2>3 DEF Busy
    <3>2. out # "no" => page' = page
      BY <1>1, <2>2 DEF OutFits
    <3>3. "lost" \in excuse => "lost" \in excuse'
      BY <1>1
    <3> QED
      BY <1>1, <2>2, <3>1, <3>2, <3>3 DEF OutFits
  <2> QED
    BY <2>4, <2>5, <2>6, <2>7
<1> QED
  BY <1>4, <1>5, <1>6 DEF DesktopInv

LEMMA TrayLogoutKeeps == ASSUME DesktopInv, TrayLogout PROVE DesktopInv'
BY UnmountKeeps DEF TrayLogout

LEMMA ClearStaleKeeps == ASSUME DesktopInv, ClearStale PROVE DesktopInv'
BY UnmountKeeps DEF ClearStale

LEMMA BackKeeps == ASSUME DesktopInv, Back PROVE DesktopInv'
BY UnmountKeeps DEF Back

(* Its request is answered, or the answer is lost                           *)
LEMMA PostedKeeps == ASSUME DesktopInv, LogoutPosted \/ LogoutLost PROVE DesktopInv'
<1>0. DesktopTypeOK /\ TokensFit /\ UserFits /\ WorkFits /\ RootFits /\ UncrossedFits
  BY DEF DesktopInv
<1>1. /\ leaving.at = "posting" /\ leaving' = [leaving EXCEPT !.at = "clearing"]
      /\ excuse' \subseteq Excuses /\ excuse \subseteq excuse'
      /\ failures' \in 0..MaxFailures /\ other' \in BOOLEAN
      /\ \/ live' = IF leaving.good THEN {} ELSE live
         \/ live' = live /\ excuse' = excuse \cup {"lost"}
      /\ UNCHANGED <<issued, vault, record, keychain, kit, app, drive, tray, page, cmd, out>>
  <2>1. excuse \subseteq Excuses /\ failures \in 0..MaxFailures /\ other \in BOOLEAN
    BY <1>0, DesktopParts
  <2>2. Failure => failures' \in 0..MaxFailures
    BY <1>0, FailureParts
  <2>3. CASE LogoutPosted
    BY <2>1, <2>3 DEF LogoutPosted, client, history
  <2>4. CASE LogoutLost
    BY <2>1, <2>2, <2>4 DEF LogoutLost, server, client, Excuses
  <2> QED
    BY <2>3, <2>4
<1>2. /\ leaving' \in LeavingState /\ leaving'.at = "clearing" /\ leaving'.by = leaving.by
      /\ leaving'.good = leaving.good
  BY <1>0, <1>1, DesktopParts, LeavingParts
<1>3. live' \subseteq 1..issued'
  BY <1>0, <1>1, DesktopParts
<1>4. DesktopTypeOK'
  BY <1>0, <1>1, <1>2, <1>3, DesktopParts, DesktopTypesNext
<1>5. TokensFit' /\ UserFits' /\ RootFits'
  BY <1>0, <1>1, <1>2 DEF TokensFit, UserFits, RootFits, Carries
<1>6. WorkFits'
  BY <1>0, <1>1, <1>2 DEF WorkFits, Severed, Carries
<1>7. UncrossedFits'
  <2> SUFFICES ASSUME ~Crossed' PROVE (PageFits /\ LeavingFits /\ ForgottenFits /\ OutFits)'
    BY DEF UncrossedFits
  <2>1. PageFits /\ LeavingFits /\ ForgottenFits /\ OutFits
    BY <1>0, <1>1 DEF UncrossedFits, Crossed
  <2>2. ~Busy /\ ~Busy'
    BY <1>1, <2>1 DEF LeavingFits, Busy
  <2>3. live' \subseteq live /\ (leaving.good => live' = {} \/ "lost" \in excuse')
    BY <1>1
  <2>4. "lost" \in excuse => "lost" \in excuse'
    BY <1>1
  <2>5. PageFits' /\ ForgottenFits'
    BY <1>1, <1>2, <2>1 DEF PageFits, ForgottenFits, Stuck
  <2>6. LeavingFits'
    BY <1>1, <1>2, <2>1, <2>2, <2>3 DEF LeavingFits
  <2>7. OutFits'
    BY <1>1, <2>1, <2>2, <2>3, <2>4 DEF OutFits
  <2> QED
    BY <2>5, <2>6, <2>7
<1> QED
  BY <1>4, <1>5, <1>6, <1>7 DEF DesktopInv

LEMMA ClearedKeeps == ASSUME DesktopInv, Cleared PROVE DesktopInv'
<1>0. DesktopTypeOK /\ TokensFit /\ UserFits /\ WorkFits /\ RootFits /\ UncrossedFits
  BY DEF DesktopInv
<1>1. /\ leaving.at = "clearing" /\ leaving' = [leaving EXCEPT !.at = "idle"]
      /\ keychain' = IF app.user THEN 0 ELSE keychain
      /\ app' = SignedOut /\ tray' = "off" /\ kit' \in BOOLEAN
      /\ excuse' \subseteq Excuses /\ excuse \subseteq excuse' /\ (Busy => "crossed" \in excuse')
      /\ out' = IF ~app.user THEN "no" ELSE IF leaving.good THEN "fresh" ELSE "old"
      /\ UNCHANGED <<issued, live, other, vault, record, drive, cmd, failures>>
  <2>1. excuse \subseteq Excuses /\ kit \in BOOLEAN
    BY <1>0, DesktopParts
  <2> QED
    BY <2>1 DEF Cleared, Forgets, ClearKeys, Crossing, Excuses, server
<1>2. /\ leaving' \in LeavingState /\ leaving'.at = "idle"
      /\ page' \in PageState /\ page'.run = page.run
      /\ IF page.at # "clearing" \/ leaving.by = "tray" THEN page' = page
         ELSE page'.at \in {"closed", "form"}
  <2>1. page' = IF page.at # "clearing" \/ leaving.by = "tray" THEN page
                ELSE [page EXCEPT !.at = IF leaving.by = "back" THEN "closed" ELSE "form"]
    BY DEF Cleared
  <2>2. page \in PageState /\ leaving \in LeavingState
    BY <1>0, DesktopParts
  <2>3. leaving' \in LeavingState /\ leaving'.at = "idle"
    BY <1>1, <2>2, LeavingParts
  <2>4. \A at \in {"closed", "form"} : [page EXCEPT !.at = at] \in PageState
          /\ [page EXCEPT !.at = at].at = at /\ [page EXCEPT !.at = at].run = page.run
    BY <2>2 DEF PageState
  <2>5. (page' = page /\ (page.at # "clearing" \/ leaving.by = "tray"))
        \/ \E at \in {"closed", "form"} : page' = [page EXCEPT !.at = at] /\ ~(page.at # "clearing" \/ leaving.by = "tray")
    BY <2>1
  <2> QED
    BY <2>2, <2>3, <2>4, <2>5
<1>3. app' \in AppState /\ app'.token = "none" /\ ~app'.pair /\ app'.root = NoKey /\ ~app'.authed
  BY <1>1 DEF SignedOut, AppState
<1>4. keychain' \in 0..issued' /\ out' \in {"no", "old", "fresh"}
  BY <1>0, <1>1, IssuedParts, DesktopParts
<1>5. DesktopTypeOK'
  BY <1>0, <1>1, <1>2, <1>3, <1>4, DesktopParts, DesktopTypesNext
<1>6. TokensFit'
  BY <1>0, <1>1 DEF TokensFit, Carries
<1>7. UserFits' /\ RootFits'
  BY <1>0, <1>1, <1>2, <1>3 DEF UserFits, RootFits
<1>8. WorkFits'
  <2> SUFFICES ASSUME ~Severed'
               PROVE  /\ \A s \in Runs : ~Carries(s)'
                      /\ keychain' # 0 => keychain' \in live'
    BY DEF WorkFits
  <2>1. ~Severed /\ ~Busy
    BY <1>1 DEF Severed
  <2>2. \A s \in Runs : cmd'[s].at = "idle"
    BY <1>1, <2>1 DEF Busy
  <2>3. keychain' # 0 => ~leaving.good /\ keychain' = keychain
    BY <1>0, <1>1 DEF UserFits
  <2>4. keychain' # 0 => keychain \in live
    BY <1>0, <1>1, <2>1, <2>2, <2>3 DEF WorkFits
  <2> QED
    BY <1>1, <2>2, <2>3, <2>4 DEF Carries
<1>9. UncrossedFits'
  <2> SUFFICES ASSUME ~Crossed' PROVE (PageFits /\ LeavingFits /\ ForgottenFits /\ OutFits)'
    BY DEF UncrossedFits
  <2>1. ~Crossed /\ ~Busy
    BY <1>1 DEF Crossed
  <2>2. PageFits /\ LeavingFits /\ ForgottenFits /\ OutFits
    BY <1>0, <2>1 DEF UncrossedFits
  <2>3. \A s \in Runs : cmd'[s].at = "idle"
    BY <1>1, <2>1 DEF Busy
  <2>4. page'.at \in {"done", "closed", "form"}
    BY <1>1, <1>2, <2>2 DEF LeavingFits, PageFits
  <2>5. PageFits'
    BY <1>1, <2>3, <2>4 DEF PageFits, SigningIn
  <2>6. LeavingFits' /\ ForgottenFits'
    BY <1>1, <1>2, <1>3, <2>2 DEF LeavingFits, ForgottenFits, Stuck
  <2>7. OutFits'
    <3>1. ~Busy'
      BY <2>3 DEF Busy
    <3>2. out' = "fresh" => "lost" \in excuse' \/ live' = {}
      BY <1>1, <2>2 DEF LeavingFits
    <3> QED
      BY <1>1, <2>4, <3>1, <3>2 DEF OutFits
  <2> QED
    BY <2>5, <2>6, <2>7
<1> QED
  BY <1>5, <1>6, <1>7, <1>8, <1>9 DEF DesktopInv

-----------------------------------------------------------------------------
(* DesktopSession: the world                                                *)

LEMMA AgesKeep == ASSUME DesktopInv, Ages PROVE DesktopInv'
<1>0. DesktopTypeOK /\ TokensFit /\ UserFits /\ WorkFits /\ RootFits /\ UncrossedFits
  BY DEF DesktopInv
<1>1. /\ leaving.at = "idle" /\ app' = [app EXCEPT !.token = "old"]
      /\ UNCHANGED <<issued, live, other, vault, record, keychain, kit, drive, tray, page, cmd, leaving,
                     failures, excuse, out>>
  BY DEF Ages, server, history
<1>2. /\ app' \in AppState /\ app'.token = "old" /\ app'.pair = app.pair /\ app'.root = app.root
      /\ app'.authed = app.authed
  BY <1>0, <1>1, DesktopParts DEF AppState
<1>3. DesktopTypeOK'
  BY <1>0, <1>1, <1>2, DesktopParts, DesktopTypesNext
<1>4. TokensFit' /\ UserFits' /\ WorkFits' /\ RootFits'
  BY <1>0, <1>1, <1>2 DEF TokensFit, UserFits, WorkFits, RootFits, Carries, Severed
<1>5. UncrossedFits'
  BY <1>0, <1>1, <1>2 DEF UncrossedFits, PageFits, LeavingFits, ForgottenFits, OutFits, Crossed, Stuck, Busy
<1> QED
  BY <1>3, <1>4, <1>5 DEF DesktopInv

LEMMA QuitKeeps == ASSUME DesktopInv, Quit PROVE DesktopInv'
<1>0. DesktopTypeOK /\ TokensFit /\ UserFits /\ WorkFits /\ RootFits /\ UncrossedFits
  BY DEF DesktopInv
<1>1. /\ app' = SignedOut /\ drive' = NoKey /\ tray' = "off"
      /\ page' = Page("closed", FALSE) /\ cmd' = [r \in Runs |-> Free]
      /\ leaving' = [leaving EXCEPT !.at = "idle"]
      /\ excuse' = excuse \cup (IF Busy \/ leaving.at # "idle" THEN {"lost"} ELSE {})
      /\ out' = "no" /\ Failure
      /\ UNCHANGED <<issued, live, other, vault, record, keychain, kit>>
  BY DEF Quit, server
<1>2. app' \in AppState /\ app'.token = "none" /\ ~app'.pair /\ app'.root = NoKey /\ ~app'.authed
  BY <1>1 DEF SignedOut, AppState
<1>3. page' \in PageState /\ page'.at = "closed"
  <2>1. (CHOOSE r \in Runs : TRUE) \in Runs
    BY DesktopAssumption
  <2> QED
    BY <1>1, <2>1 DEF Page, PageState
<1>4. /\ cmd' \in [Runs -> CmdState(issued)]
      /\ \A s \in Runs : cmd'[s].at = "idle" /\ cmd'[s].tok = 0
  BY <1>0, <1>1, IssuedParts, FreeParts
<1>5. leaving' \in LeavingState /\ leaving'.at = "idle"
  BY <1>0, <1>1, DesktopParts, LeavingParts
<1>6. failures' \in 0..MaxFailures /\ excuse' \subseteq Excuses
  BY <1>0, <1>1, FailureParts, DesktopParts DEF Excuses
<1>7. DesktopTypeOK'
  BY <1>0, <1>1, <1>2, <1>3, <1>4, <1>5, <1>6, DesktopParts, DesktopTypesNext
<1>8. TokensFit' /\ UserFits' /\ RootFits'
  BY <1>0, <1>1, <1>2, <1>4, <1>5 DEF TokensFit, UserFits, RootFits, Carries
<1>9. WorkFits'
  <2> SUFFICES ASSUME ~Severed', keychain' # 0 PROVE keychain' \in live'
    BY <1>4 DEF WorkFits, Carries
  <2>1. ~Severed /\ ~Busy /\ leaving.at = "idle"
    BY <1>1 DEF Severed
  <2> QED
    BY <1>0, <1>1, <2>1 DEF WorkFits, Busy
<1>10. UncrossedFits'
  <2>1. PageFits' /\ LeavingFits' /\ ForgottenFits' /\ OutFits'
    BY <1>1, <1>2, <1>3, <1>4, <1>5 DEF PageFits, LeavingFits, ForgottenFits, OutFits, SigningIn
  <2> QED
    BY <2>1 DEF UncrossedFits
<1> QED
  BY <1>7, <1>8, <1>9, <1>10 DEF DesktopInv

LEMMA OtherKeeps == ASSUME DesktopInv, OtherSignsIn \/ OtherSaves \/ OtherSignsOut PROVE DesktopInv'
<1>0. DesktopTypeOK /\ TokensFit /\ UserFits /\ WorkFits /\ RootFits /\ UncrossedFits
  BY DEF DesktopInv
<1>1. /\ other' \in BOOLEAN /\ record' \in {"none", "empty", "full"}
      /\ vault' = vault \/ (vault = NoKey /\ vault' = There)
      /\ (live' = live /\ excuse' = excuse) \/ (live' = {} /\ excuse' = excuse \cup {"elsewhere"})
      /\ UNCHANGED <<issued, keychain, kit, app, drive, tray, page, cmd, leaving, failures, out>>
  BY <1>0, DesktopParts DEF OtherSignsIn, OtherSaves, OtherSignsOut, client, history
<1>2. DesktopTypeOK'
  <2>1. excuse' \subseteq Excuses /\ live' \subseteq 1..issued' /\ vault' \in {NoKey, Here, There}
    BY <1>0, <1>1, DesktopParts DEF Excuses
  <2> QED
    BY <1>0, <1>1, <2>1, DesktopParts, DesktopTypesNext
<1>3. TokensFit' /\ UserFits' /\ WorkFits'
  BY <1>0, <1>1 DEF TokensFit, UserFits, WorkFits, Carries, Severed
<1>4. RootFits'
  BY <1>0, <1>1, DesktopAssumption DEF RootFits
<1>5. UncrossedFits'
  <2> SUFFICES ASSUME ~Crossed' PROVE (PageFits /\ LeavingFits /\ ForgottenFits /\ OutFits)'
    BY DEF UncrossedFits
  <2>1. PageFits /\ LeavingFits /\ ForgottenFits /\ OutFits
    BY <1>0, <1>1 DEF UncrossedFits, Crossed
  <2>2. live' \subseteq live /\ ("lost" \in excuse => "lost" \in excuse') /\ (Stuck => Stuck')
    BY <1>1 DEF Stuck
  <2>3. ~Busy => ~Busy'
    BY <1>1 DEF Busy
  <2> QED
    BY <1>1, <2>1, <2>2, <2>3 DEF PageFits, LeavingFits, ForgottenFits, OutFits
<1> QED
  BY <1>2, <1>3, <1>4, <1>5 DEF DesktopInv

LEMMA DesktopIdles == ASSUME DesktopInv, UNCHANGED desktopVars PROVE DesktopInv'
BY DEF DesktopInv, DesktopTypeOK, TokensFit, UserFits, WorkFits, RootFits, UncrossedFits, PageFits,
       LeavingFits, ForgottenFits, OutFits, Carries, Severed, Crossed, Stuck, Busy, desktopVars

LEMMA DesktopStep == DesktopInv /\ [DesktopNext]_desktopVars => DesktopInv'
<1> SUFFICES ASSUME DesktopInv, [DesktopNext]_desktopVars PROVE DesktopInv'
  OBVIOUS
<1>1. ASSUME NEW r \in Runs,
             \/ Open(r) \/ Refresh(r) \/ RefreshHeard(r) \/ RefreshLost(r)
             \/ LoginHeard(r) \/ VaultHeard(r) \/ InitVault(r) \/ PublishEmpty(r) \/ CommandFails(r)
             \/ Clean(r) \/ Mounted(r) \/ MountFails(r)
      PROVE  DesktopInv'
  BY <1>1, OpenKeeps, RefreshKeeps, RefreshHeardKeeps, RefreshLostKeeps, LoginHeardKeeps, VaultHeardKeeps,
     InitVaultKeeps, PublishEmptyKeeps, CommandFailsKeeps, CleanKeeps, MountedKeeps
<1>2. ASSUME Login \/ Recover PROVE DesktopInv'
  BY <1>2, HandOverKeeps DEF Login, Recover
<1>3. ASSUME NoSession \/ LoginShare \/ Restore \/ TrayLogout \/ ClearStale \/ Back PROVE DesktopInv'
  BY <1>3, NoSessionKeeps, LoginShareKeeps, RestoreKeeps, TrayLogoutKeeps, ClearStaleKeeps, BackKeeps
<1>4. ASSUME LogoutPosted \/ LogoutLost \/ Cleared \/ Ages \/ Quit PROVE DesktopInv'
  BY <1>4, PostedKeeps, ClearedKeeps, AgesKeep, QuitKeeps
<1>5. ASSUME OtherSignsIn \/ OtherSaves \/ OtherSignsOut PROVE DesktopInv'
  BY <1>5, OtherKeeps
<1>6. ASSUME UNCHANGED desktopVars PROVE DesktopInv'
  BY <1>6, DesktopIdles
<1> QED
  BY <1>1, <1>2, <1>3, <1>4, <1>5, <1>6 DEF DesktopNext

LEMMA DesktopInvariant == DesktopSpec => []DesktopInv
<1>1. DesktopInit => DesktopInv
  BY DesktopStartHolds
<1>2. DesktopInv /\ [DesktopNext]_desktopVars => DesktopInv'
  BY DesktopStep
<1> QED
  BY <1>1, <1>2, PTL DEF DesktopSpec

(* The state of the page, the commands, the keychain and the server is as   *)
(* declared, whatever is crossed, lost or restarted                         *)
THEOREM DesktopTypeCorrect == DesktopSpec => []DesktopTypeOK
<1>1. DesktopInv => DesktopTypeOK
  BY DEF DesktopInv
<1> QED
  BY <1>1, DesktopInvariant, PTL

(* An authenticated desktop, and its drive, hold the keys of the one vault, *)
(* whichever device made it (fetch_and_decrypt_vault, initialize_vault)     *)
THEOREM AuthedDesktopHoldsKeys == DesktopSpec => []AuthedHoldsKeys
<1>1. DesktopInv => AuthedHoldsKeys
  BY DEF DesktopInv, RootFits, AuthedHoldsKeys
<1> QED
  BY <1>1, DesktopInvariant, PTL

(* The refresh token in the keychain works, or one of the few things that   *)
(* can cost it has happened: a lost answer, a logout elsewhere, a logout    *)
(* that crosses a sign-in                                                   *)
THEOREM KeychainTokenWorks == DesktopSpec => []KeychainWorks
<1>1. DesktopInv => KeychainWorks
  BY DEF DesktopInv, WorkFits, Severed, KeychainWorks
<1> QED
  BY <1>1, DesktopInvariant, PTL

(* A logout leaves no key, drive or token behind, unless it crossed a       *)
(* sign-in or the drive was busy                                            *)
THEOREM LogoutLeavesNothing == DesktopSpec => []NothingLeft
<1>1. DesktopInv => NothingLeft
  <2> SUFFICES ASSUME DesktopInv, ~Crossed PROVE NothingLeft
    BY DEF Crossed, NothingLeft
  <2>1. ForgottenFits /\ OutFits
    BY DEF DesktopInv, UncrossedFits
  <2> QED
    BY <2>1 DEF ForgottenFits, OutFits, NothingLeft, Stuck
<1> QED
  BY <1>1, DesktopInvariant, PTL

(* No step of a sign-in takes the items of the vault away, but for the      *)
(* first record of a vault made here and a drive that outlived a logout     *)
THEOREM VaultContentStays == DesktopSpec => ContentStays
<1>1. ASSUME DesktopInv, [DesktopNext]_desktopVars, record = "full", record' # "full"
      PROVE  excuse \cap {"stuck", "crossed"} # {} \/ (vault = Here /\ \E r \in Runs : cmd[r].at = "publish")
  <2>1. \E r \in Runs : PublishEmpty(r) \/ Clean(r)
    <3> USE DEF server, client, history
    <3>1. record' = record \/ \E r \in Runs :
             \/ Open(r) \/ Refresh(r) \/ RefreshHeard(r) \/ RefreshLost(r)
             \/ LoginHeard(r) \/ VaultHeard(r) \/ InitVault(r) \/ PublishEmpty(r) \/ CommandFails(r)
             \/ Clean(r) \/ Mounted(r) \/ MountFails(r)
      BY <1>1 DEF DesktopNext, desktopVars, NoSession, Login, LoginShare, Recover, HandOver, Restore, TrayLogout,
         ClearStale, Back, Unmount, LogoutPosted, LogoutLost, Cleared, Ages, Quit, OtherSignsIn, OtherSaves,
         OtherSignsOut
    <3>2. ASSUME NEW r \in Runs,
                 \/ Open(r) \/ Refresh(r) \/ RefreshHeard(r) \/ RefreshLost(r)
                 \/ LoginHeard(r) \/ VaultHeard(r) \/ InitVault(r) \/ CommandFails(r)
                 \/ Mounted(r) \/ MountFails(r)
          PROVE  record' = record
      BY <3>2 DEF Open, Refresh, RefreshHeard, RefreshLost, LoginHeard, VaultHeard, InitVault, CommandFails,
         Mounted, MountFails
    <3>3. PICK r \in Runs :
             \/ Open(r) \/ Refresh(r) \/ RefreshHeard(r) \/ RefreshLost(r)
             \/ LoginHeard(r) \/ VaultHeard(r) \/ InitVault(r) \/ PublishEmpty(r) \/ CommandFails(r)
             \/ Clean(r) \/ Mounted(r) \/ MountFails(r)
      BY <1>1, <3>1
    <3>4. PublishEmpty(r) \/ Clean(r)
      BY <1>1, <3>2, <3>3
    <3> QED
      BY <3>4
  <2>2. PICK r \in Runs : PublishEmpty(r) \/ Clean(r)
    BY <2>1
  <2>3. CASE PublishEmpty(r)
    BY <1>1, <2>3 DEF PublishEmpty, DesktopInv, RootFits
  <2>4. CASE Clean(r)
    <3>1. drive # NoKey /\ cmd[r].at = "mount"
      BY <1>1, <2>4 DEF Clean
    <3>2. Crossed \/ Stuck
      BY <1>1, <3>1, SignInFits DEF SigningIn
    <3> QED
      BY <3>2 DEF Crossed, Stuck
  <2> QED
    BY <2>2, <2>3, <2>4
<1> QED
  BY <1>1, DesktopInvariant, PTL DEF DesktopSpec, ContentStays

-----------------------------------------------------------------------------
Copy == [seq : Nat \cup {-1}, reg : Registry]

(* A registry with its first device authorized and no other                 *)
Founded(r) == \E d \in Devices : {e \in Devices : r.status[e] = "authorized"} = {d}

(* There is a list as soon as the API has counted a publish                 *)
Founding ==
    /\ row.seq # -1 => Founded(row.reg) /\ Founded(routed.reg) /\ routed.seq # -1
    /\ row.seq = -1 => routed.reg = Blank /\ row.reg = Blank /\ routed.seq = -1
    /\ job.seq # -1 => Founded(job.reg) /\ row.seq # -1
    /\ job.seq = -1 => job.reg = Blank
    /\ \A d \in Devices : step[d] \in {"publish", "published"} => Founded(work[d])
    /\ \A w \in Webs : shown[w] = Blank \/ Founded(shown[w])

Includes(r, q) == \A d \in Devices : q.status[d] # "absent" => r.status[d] # "absent"

(* The devices that are to be listed: their publish was made, or answered,  *)
(* and nothing put their entry at risk since                                *)
Assured == {d \in Devices : (step[d] = "published" \/ d \in acked) /\ d \notin atRisk}

(* Both lists have them, and so has what a device is about to publish, but  *)
(* for those that it missed                                                 *)
Carried ==
    /\ \A d \in Assured : routed.reg.status[d] # "absent" /\ row.reg.status[d] # "absent"
    /\ \A e \in Devices : step[e] = "publish" =>
          /\ work[e].status[e] # "absent"
          /\ \A d \in Assured \ missed[e] : work[e].status[d] # "absent"

DevicesInv == DevicesTypeOK /\ Founding /\ Carried

-----------------------------------------------------------------------------
(* Registries *)

LEMMA BlankIs == Blank \in Registry /\ \A d \in Devices : Blank.status[d] = "absent"
BY DEF Blank, Registry, Statuses

LEMMA FirstIs ==
    ASSUME NEW d \in Devices
    PROVE  /\ First(d) \in Registry /\ Founded(First(d))
           /\ First(d).number = 1 /\ First(d).status[d] = "authorized"
<1>1. First(d) \in Registry /\ First(d).number = 1
  BY DEF First, Blank, Registry, Statuses
<1>2. \A e \in Devices : First(d).status[e] = IF e = d THEN "authorized" ELSE "absent"
  BY DEF First, Blank
<1>3. {e \in Devices : First(d).status[e] = "authorized"} = {d}
  BY <1>2
<1> QED
  BY <1>1, <1>2, <1>3 DEF Founded

(* What a device publishes after a read authorizes nobody and drops nobody  *)
LEMMA UpdatesAre ==
    ASSUME NEW d \in Devices, NEW r \in Registry, NEW u \in Updates(r, d)
    PROVE  /\ u \in Registry /\ (Founded(r) => Founded(u))
           /\ u.number \in {r.number, r.number + 1} /\ Includes(u, r)
           /\ u.status[d] # "absent"
<1> DEFINE n == [number |-> r.number + 1, status |-> Listed(r, d)]
<1>1. r.number \in Nat /\ r.status \in [Devices -> Statuses]
  BY DEF Registry
<1>2. n \in Registry /\ n.number = r.number + 1 /\ n.status = Listed(r, d)
  BY <1>1 DEF Registry, Listed, Statuses
<1>3. \A e \in Devices : Listed(r, d)[e] =
          IF e = d /\ r.status[e] = "absent" THEN "pending" ELSE r.status[e]
  BY <1>1 DEF Listed
<1>4. {e \in Devices : n.status[e] = "authorized"} = {e \in Devices : r.status[e] = "authorized"}
  BY <1>2, <1>3
<1>5. CASE u = n
  <2>1. Includes(u, r) /\ u.status[d] # "absent"
    BY <1>2, <1>3, <1>5 DEF Includes
  <2> QED
    BY <1>2, <1>4, <1>5, <2>1 DEF Founded
<1>6. CASE u = r /\ r.status[d] # "absent"
  BY <1>1, <1>6 DEF Includes
<1> QED
  BY <1>5, <1>6 DEF Updates

-----------------------------------------------------------------------------
(* The steps *)

LEMMA InitInv == DevicesInit => DevicesInv
<1> SUFFICES ASSUME DevicesInit PROVE DevicesInv
  OBVIOUS
<1> USE DEF DevicesInit
<1>1. DevicesTypeOK
  BY BlankIs, DevicesAssumption DEF DevicesTypeOK, Kept
<1>2. Founding
  BY DEF Founding, Kept
<1>3. Carried
  BY BlankIs DEF Carried, Assured
<1> QED
  BY <1>1, <1>2, <1>3 DEF DevicesInv

LEMMA Typed ==
    ASSUME DevicesTypeOK
    PROVE  /\ routed \in Copy /\ row \in Copy /\ job \in Copy
           /\ routed.reg \in Registry /\ row.reg \in Registry /\ job.reg \in Registry
           /\ routed.seq \in Nat \cup {-1} /\ row.seq \in Nat \cup {-1}
           /\ \A d \in Devices : work[d] \in Registry /\ work[d].number \in Nat
           /\ Webs \subseteq Devices /\ Desktops \subseteq Devices
BY DEF DevicesTypeOK, Copy, Registry, Devices

(* A step that touches neither list and makes nobody safe                   *)
LEMMA CarriedStays ==
    ASSUME Carried, UNCHANGED <<routed, row, work, missed>>,
           Assured' \subseteq Assured,
           \A e \in Devices : step'[e] = "publish" => step[e] = "publish"
    PROVE  Carried'
BY DEF Carried

LEMMA BeginInv ==
    ASSUME DevicesInv, NEW d \in Devices, Begin(d)
    PROVE  DevicesInv'
<1> USE DEF DevicesInv, Begin, Goes, risks
<1>1. DevicesTypeOK'
  BY DEF DevicesTypeOK
<1>2. Founding'
  BY DEF DevicesTypeOK, Founding
<1>3. \A e \in Devices : step'[e] = IF e = d THEN "asked" ELSE step[e]
  BY DEF DevicesTypeOK
<1>4. Carried'
  BY <1>3, CarriedStays DEF Assured
<1> QED
  BY <1>1, <1>2, <1>4

(* A read that has a device publish the registry u                          *)
LEMMA MakesInv ==
    ASSUME DevicesInv, NEW d \in Devices, NEW u \in Registry, Founded(u),
           step[d] = "asked", Goes(d, "publish"),
           work' = [work EXCEPT ![d] = u],
           UNCHANGED <<routed, row, job, shown, acked>>, faults' \in 0..MaxFaults,
           NEW others \in SUBSET Devices, Misses(d, others), u.status[d] # "absent",
           \A e \in Assured \ others : u.status[e] # "absent"
    PROVE  DevicesInv'
<1> USE DEF DevicesInv, Goes, Misses
<1>1. DevicesTypeOK'
  BY DEF DevicesTypeOK
<1>2. Founding'
  BY DEF DevicesTypeOK, Founding
<1>3. \A e \in Devices : /\ step'[e] = (IF e = d THEN "publish" ELSE step[e])
                         /\ work'[e] = (IF e = d THEN u ELSE work[e])
                         /\ missed'[e] = (IF e = d THEN others ELSE missed[e])
  BY DEF DevicesTypeOK
<1>4. Assured' \subseteq Assured
  BY <1>3 DEF Assured
<1>5. Carried'
  BY <1>3, <1>4 DEF Carried
<1> QED
  BY <1>1, <1>2, <1>5

(* A registration that ends without having been answered                    *)
LEMMA EndsInv ==
    ASSUME DevicesInv, NEW d \in Devices, Goes(d, "done"),
           UNCHANGED <<routed, row, job, work, shown, acked, atRisk>>,
           NEW others \in SUBSET Devices,
           UNCHANGED missed \/ missed' = [missed EXCEPT ![d] = others],
           faults' \in 0..MaxFaults
    PROVE  DevicesInv'
<1> USE DEF DevicesInv, Goes
<1>1. DevicesTypeOK'
  BY DEF DevicesTypeOK
<1>2. Founding'
  BY DEF DevicesTypeOK, Founding
<1>3. \A e \in Devices : /\ step'[e] = (IF e = d THEN "done" ELSE step[e])
                         /\ e # d => missed'[e] = missed[e]
  BY DEF DevicesTypeOK
<1>4. Assured' \subseteq Assured
  BY <1>3 DEF Assured
<1>5. Carried'
  BY <1>3, <1>4 DEF Carried
<1> QED
  BY <1>1, <1>2, <1>5

(* A browser opens no list that it is in                                    *)
LEMMA NotItsOwn ==
    ASSUME NEW d \in Webs, NEW r, Reads(d, r)
    PROVE  r.status[d] = "absent"
<1>1. d \notin Desktops /\ d \in Devices
  BY DevicesAssumption DEF Devices
<1>2. ~ValidEntry(Entry(d))
  BY DEF ValidEntry, Entry
<1> QED
  BY <1>1, <1>2 DEF Reads, Validates

LEMMA TakesInv ==
    ASSUME DevicesInv, NEW d \in Devices, step[d] = "asked",
           NEW r \in Registry, Founded(r), Takes(d, r), Misses(d, {}),
           \A e \in Assured : r.status[e] # "absent",
           UNCHANGED <<routed, row, job, shown, acked>>,
           faults' \in 0..MaxFaults
    PROVE  DevicesInv'
<1>1. CASE Reads(d, r)
  <2>1. PICK u \in Updates(r, d) : Makes(d, {u}, IF u = r THEN "published" ELSE "publish")
    BY <1>1 DEF Takes
  <2>2. u \in Registry /\ Founded(u) /\ Includes(u, r) /\ u.status[d] # "absent"
    BY UpdatesAre
  <2>3. u # r
    <3>1. u.number = r.number + 1
      BY <1>1, NotItsOwn DEF Updates
    <3> QED
      BY <3>1 DEF Registry
  <2>4. work' = [work EXCEPT ![d] = u] /\ Goes(d, "publish")
    BY <2>1, <2>3 DEF Makes
  <2>5. \A e \in Assured \ {} : u.status[e] # "absent"
    BY <2>2 DEF Includes, Assured
  <2> QED
    BY <2>2, <2>4, <2>5, MakesInv
<1>2. CASE ~Reads(d, r)
  BY <1>2, EndsInv DEF Takes, Misses
<1> QED
  BY <1>1, <1>2

LEMMA ReadInv ==
    ASSUME DevicesInv, NEW d \in Devices, Read(d)
    PROVE  DevicesInv'
<1>0. faults' \in 0..MaxFaults
  BY DEF Read, DevicesInv, DevicesTypeOK
<1>1. CASE row.seq = -1
  <2>1. Goes(d, "publish") /\ work' = [work EXCEPT ![d] = First(d)] /\ step[d] = "asked"
    BY <1>1 DEF Read, Makes
  <2>2. Assured = {}
    BY <1>1, BlankIs DEF DevicesInv, Founding, Carried, Assured
  <2> QED
    BY <1>0, <2>1, <2>2, FirstIs, MakesInv DEF Read
<1>2. CASE row.seq # -1
  <2>1. Founded(routed.reg) /\ routed.reg \in Registry
    BY <1>2, Typed DEF DevicesInv, Founding
  <2>2. \A e \in Assured : routed.reg.status[e] # "absent"
    BY DEF DevicesInv, Carried
  <2> QED
    BY <1>0, <1>2, <2>1, <2>2, TakesInv DEF Read
<1> QED
  BY <1>1, <1>2

LEMMA FaultIs ==
    ASSUME DevicesTypeOK, Fault
    PROVE  faults' \in 0..MaxFaults
BY DevicesAssumption DEF Fault, DevicesTypeOK

LEMMA ReadSavedInv ==
    ASSUME DevicesInv, NEW d \in Devices, ReadSaved(d)
    PROVE  DevicesInv'
<1>1. Founded(row.reg) /\ row.reg \in Registry
  BY Typed DEF ReadSaved, DevicesInv, Founding
<1>2. \A e \in Assured : row.reg.status[e] # "absent"
  BY DEF DevicesInv, Carried
<1> QED
  BY <1>1, <1>2, FaultIs, TakesInv DEF ReadSaved, DevicesInv

LEMMA ReadFailsInv ==
    ASSUME DevicesInv, NEW d \in Devices, ReadFails(d)
    PROVE  DevicesInv'
<1>1. step[d] = "asked" /\ faults' \in 0..MaxFaults /\ Misses(d, Devices \ {d})
  BY FaultIs DEF ReadFails, DevicesInv
<1>2. CASE d \in Webs
  BY <1>1, <1>2, EndsInv DEF ReadFails, Misses
<1>3. CASE d \notin Webs
  <2>1. Goes(d, "publish") /\ work' = [work EXCEPT ![d] = First(d)]
    BY <1>3 DEF ReadFails, Makes
  <2>2. \A e \in Assured \ (Devices \ {d}) : First(d).status[e] # "absent"
    BY FirstIs DEF Assured
  <2> QED
    BY <1>1, <2>1, <2>2, FirstIs, MakesInv DEF ReadFails
<1> QED
  BY <1>2, <1>3

LEMMA PublishInv ==
    ASSUME DevicesInv, NEW d \in Devices, Publish(d)
    PROVE  DevicesInv'
<1> USE DEF DevicesInv, Publish, Goes
<1>1. row' \in Copy /\ row'.seq = row.seq + 1 /\ row'.seq \in Nat /\ row'.reg = work[d]
  BY Typed DEF Kept, Copy
<1>2. routed' \in Copy /\ \/ routed' = routed /\ work[d].number < routed.seq
                          \/ routed'.seq = work[d].number /\ routed'.reg = work[d]
  BY Typed DEF Kept, Copy, Routes
<1>3. job' \in Copy /\ (job' = row' \/ job' = job)
  BY <1>1, Typed
<1>4. DevicesTypeOK'
  BY <1>1, <1>2, <1>3 DEF DevicesTypeOK, Copy
<1>5. Founded(work[d])
  BY DEF Founding
<1>6. Founding'
  <2>1. \A e \in Devices : step'[e] \in {"publish", "published"} => Founded(work[e])
    BY <1>5 DEF DevicesTypeOK, Founding
  <2>2. routed'.seq # -1 /\ Founded(routed'.reg)
    BY <1>2, <1>5, Typed DEF Founding
  <2> QED
    BY <1>1, <1>3, <1>5, <2>1, <2>2 DEF Founding
<1>7. Carried'
  <2>1. \A e \in Devices : step'[e] = IF e = d THEN "published" ELSE step[e]
    BY DEF DevicesTypeOK
  <2>2. \A e \in Devices : step'[e] = "publish" => missed'[e] = missed[e] \cup {d}
    BY <2>1
  <2>3. \A e \in Assured' \ {d} : e \in Assured /\ work[d].status[e] # "absent"
    BY <2>1 DEF Assured, Carried
  <2>4. d \in Assured' => routed'.reg = work[d] /\ work[d].status[d] # "absent"
    BY <1>2, Typed DEF Assured, Carried, Routes, Kept
  <2>5. \A e \in Assured' : routed'.reg.status[e] # "absent" /\ row'.reg.status[e] # "absent"
    BY <1>1, <1>2, <2>3, <2>4 DEF Carried
  <2>6. \A e \in Devices : step'[e] = "publish" =>
            /\ work'[e].status[e] # "absent"
            /\ \A g \in Assured' \ missed'[e] : work'[e].status[g] # "absent"
    BY <2>1, <2>2, <2>3 DEF Carried
  <2> QED
    BY <2>5, <2>6 DEF Carried
<1> QED
  BY <1>4, <1>6, <1>7

LEMMA PublishFailsInv ==
    ASSUME DevicesInv, NEW d \in Devices, PublishFails(d)
    PROVE  DevicesInv'
BY FaultIs, EndsInv DEF PublishFails, DevicesInv, risks

LEMMA AnswerLostInv ==
    ASSUME DevicesInv, NEW d \in Devices, AnswerLost(d)
    PROVE  DevicesInv'
BY FaultIs, EndsInv DEF AnswerLost, DevicesInv, risks

LEMMA AnsweredInv ==
    ASSUME DevicesInv, NEW d \in Devices, Answered(d)
    PROVE  DevicesInv'
<1> USE DEF DevicesInv, Answered, Goes, risks
<1>1. DevicesTypeOK'
  BY DEF DevicesTypeOK
<1>2. Founding'
  <2>1. \A e \in Devices : step'[e] \in {"publish", "published"} => Founded(work'[e])
    BY DEF DevicesTypeOK, Founding
  <2>2. \A w \in Webs : shown'[w] = Blank \/ Founded(shown'[w])
    BY DEF DevicesTypeOK, Founding
  <2> QED
    BY <2>1, <2>2 DEF Founding
<1>3. Carried'
  <2>1. \A e \in Devices : step'[e] = IF e = d THEN "done" ELSE step[e]
    BY DEF DevicesTypeOK
  <2>2. Assured' = Assured
    BY <2>1 DEF Assured
  <2> QED
    BY <2>1, <2>2, CarriedStays
<1> QED
  BY <1>1, <1>2, <1>3

(* The stores of the browsers                                               *)
LEMMA ShownInv ==
    ASSUME DevicesInv, NEW w \in Webs, NEW r \in Registry, r = Blank \/ Founded(r),
           shown' = [shown EXCEPT ![w] = r],
           UNCHANGED <<routed, row, job, step, work, acked, faults, risks>>
    PROVE  DevicesInv'
<1> USE DEF DevicesInv, risks
<1>1. DevicesTypeOK'
  BY DEF DevicesTypeOK
<1>2. Founding'
  BY DEF DevicesTypeOK, Founding
<1>3. Carried'
  BY CarriedStays DEF Assured
<1> QED
  BY <1>1, <1>2, <1>3

LEMMA SyncInv ==
    ASSUME DevicesInv, NEW w \in Webs, Sync(w)
    PROVE  DevicesInv'
<1>1. routed.reg = Blank \/ Founded(routed.reg)
  BY DEF DevicesInv, Founding
<1>2. shown[w] \in Registry /\ (shown[w] = Blank \/ Founded(shown[w]))
  BY DEF DevicesInv, DevicesTypeOK, Founding
<1>3. PICK r \in {routed.reg, shown[w]} : shown' = [shown EXCEPT ![w] = r]
  BY DEF Sync
<1> QED
  BY <1>1, <1>2, <1>3, ShownInv, Typed DEF Sync, DevicesInv

LEMMA SignOutInv ==
    ASSUME DevicesInv, NEW w \in Webs, SignOut(w)
    PROVE  DevicesInv'
BY ShownInv, BlankIs DEF SignOut

LEMMA RepublishInv ==
    ASSUME DevicesInv, Republish
    PROVE  DevicesInv'
<1> USE DEF DevicesInv, Republish
<1>1. job' \in Copy /\ job'.seq = job.seq + 1 /\ job'.seq \in Nat /\ job'.reg = job.reg
  BY Typed, DevicesAssumption DEF Copy
<1>2. row' \in Copy /\ row'.seq = job'.seq /\ row'.reg = row.reg
  BY <1>1, Typed DEF Copy
<1>3. routed' \in Copy /\ \/ routed' = routed
                          \/ routed'.seq = job'.seq /\ routed'.reg = job.reg
  BY <1>1, Typed DEF Kept, Copy, Routes
<1>5. DevicesTypeOK'
  BY <1>1, <1>2, <1>3 DEF DevicesTypeOK, Copy
<1>6. Founding'
  <2>1. job.seq # -1 /\ Founded(job.reg) /\ row.seq # -1
    BY DevicesAssumption DEF Founding
  <2> QED
    BY <1>1, <1>2, <1>3, <2>1 DEF Founding
<1>7. Carried'
  <2>1. \A e \in Assured' : e \in Assured /\ job.reg.status[e] # "absent"
    BY DEF Assured
  <2> QED
    BY <1>2, <1>3, <2>1 DEF Carried
<1> QED
  BY <1>5, <1>6, <1>7

LEMMA NextInv == DevicesInv /\ [DevicesNext]_devicesVars => DevicesInv'
<1> SUFFICES ASSUME DevicesInv, [DevicesNext]_devicesVars PROVE DevicesInv'
  OBVIOUS
<1>1. ASSUME NEW d \in Devices, Begin(d) \/ Read(d) \/ ReadSaved(d) \/ ReadFails(d)
      PROVE  DevicesInv'
  BY <1>1, BeginInv, ReadInv, ReadSavedInv, ReadFailsInv
<1>2. ASSUME NEW d \in Devices, Publish(d) \/ PublishFails(d) \/ Answered(d) \/ AnswerLost(d)
      PROVE  DevicesInv'
  BY <1>2, PublishInv, PublishFailsInv, AnsweredInv, AnswerLostInv
<1>3. ASSUME NEW w \in Webs, Sync(w) \/ SignOut(w)
      PROVE  DevicesInv'
  BY <1>3, SyncInv, SignOutInv
<1>4. CASE Republish
  BY <1>4, RepublishInv
<1>5. CASE UNCHANGED devicesVars
  BY <1>5 DEF devicesVars, DevicesInv, DevicesTypeOK, Founding, Carried, Assured
<1> QED
  BY <1>1, <1>2, <1>3, <1>4, <1>5 DEF DevicesNext

LEMMA InvHolds == DevicesSpec => []DevicesInv
  BY InitInv, NextInv, PTL DEF DevicesSpec

(* The records, the registrations under way and the browsers' stores keep   *)
(* their shape.                                                             *)
THEOREM DevicesTypeCorrect == DevicesSpec => []DevicesTypeOK
<1>1. DevicesInv => DevicesTypeOK
  BY DEF DevicesInv
<1> QED
  BY <1>1, InvHolds, PTL

(* However registrations overlap, whatever they fail to read and whatever   *)
(* the republishing job signs again, every version of the registry that is  *)
(* routed, saved, signed or shown has exactly one authorized device.        *)
THEOREM AuthorizedAlone == DevicesSpec => []OneAuthorized
<1>1. ASSUME NEW r, Founded(r)
      PROVE  Cardinality({d \in Devices : r.status[d] = "authorized"}) = 1
  BY <1>1, FS_Singleton DEF Founded
<1>2. DevicesInv => OneAuthorized
  BY <1>1 DEF DevicesInv, Founding, OneAuthorized
<1> QED
  BY <1>2, InvHolds, PTL

(* A device whose registration was answered stays in the list that is       *)
(* routed and in the one that is saved, until its entry is put at risk.     *)
THEOREM ListKeepsDevices == DevicesSpec => []DevicesKept
<1>1. DevicesInv => DevicesKept
  BY DEF DevicesInv, DevicesTypeOK, Carried, Assured, DevicesKept
<1> QED
  BY <1>1, InvHolds, PTL

-----------------------------------------------------------------------------
(* Uploads: a file is somewhere in its batch                                *)

Pos(f) == CHOOSE i \in DOMAIN FilesOf[BatchOf(f)] : FilesOf[BatchOf(f)][i] = f
Its(f) == batch[BatchOf(f)]

Underway == {"encrypting", "sending", "waiting"}
Whole == {"finishing", "registering", "done", "unlisted"}
Ended == {"stopping", "stopped", "failing", "failed"}

(* Not sent yet; accepted, by a batch that still may be listed              *)
Unsent(f) ==
    \/ Its(f).st \in {"idle", "asking"}
    \/ Its(f).st \in Underway /\ Pos(f) > Its(f).at
    \/ Its(f).st = "encrypting" /\ Pos(f) = Its(f).at
Passed(f) == Its(f).st \in Whole \/ (Its(f).st \in Underway /\ Pos(f) < Its(f).at)

Now(f, st) == Its(f).st = st /\ Pos(f) = Its(f).at

BatchState == [st : Stage, at : Nat, try : 1..MaxTries, source : Batches \cup {NoBatch}]

UploadTypes ==
    /\ pinned \subseteq Files /\ rows \subseteq Files /\ requests \subseteq Request
    /\ batch \in [Batches -> BatchState]
    /\ store \in [status : Status, source : Batches \cup {NoBatch}]
    /\ usedSeen \in Nat /\ cancelled \subseteq Batches /\ closing \in BOOLEAN
    /\ listed \subseteq Files /\ cleanup \subseteq Files
    /\ uploadHistory \in History /\ uploadMishaps \in 0..MaxUploadMishaps
    /\ IsFiniteSet(rows)
    /\ \A b \in Batches :
        batch[b].at \in 1..Len(FilesOf[b]) /\ (batch[b].st = "waiting" => batch[b].try < MaxTries)

(* Attempts have numbers of their own, none is ahead of its batch, and a    *)
(* file no attempt was given up for has one at most: while it is being sent *)
TriesFit ==
    /\ \A r, q \in requests : r.file = q.file /\ r.try = q.try => r = q
    /\ \A r \in requests :
        /\ ~Unsent(r.file)
        /\ Now(r.file, "sending") \/ Now(r.file, "waiting") => r.try <= Its(r.file).try
        /\ r.file \notin uploadHistory.retried =>
            /\ ~Passed(r.file) /\ ~Now(r.file, "waiting")
            /\ Now(r.file, "sending") => r.try = Its(r.file).try

Safe(f) == f \in pinned \/ (f \in uploadHistory.retried /\ f \in uploadHistory.undone)

SavedFits ==
    /\ \A f \in Files : Passed(f) /\ Its(f).st # "unlisted" => Safe(f)
    /\ \A r \in requests : Its(r.file).st \in Underway /\ r.st \in {"recording", "accepted"} => Safe(r.file)

ListFits ==
    /\ \A f \in cleanup : Its(f).st = "unlisted"
    /\ \A f \in listed :
        Its(f).st = "done" \/ (Its(f).st = "unlisted" /\ BatchOf(f) \in uploadHistory.muddled)
    /\ \A f \in Files : Its(f).st = "done" => f \in listed
    /\ \A f \in pinned : Its(f).st = "unlisted" =>
        f \in listed \/ f \in cleanup \/ f \in uploadHistory.mislaid \/ f \in uploadHistory.retried

(* Two batches that run know of each other; the store is that of a batch    *)
(* that is alone, whose cancel token therefore is the one used              *)
AloneFits ==
    /\ \A b, c \in Batches : Running(b) /\ Running(c) /\ b # c => b \in uploadHistory.mixed
    /\ \A b \in Batches : b \notin uploadHistory.mixed =>
        /\ batch[b].st \in Underway => store.source = b /\ batch[b].source = b
        /\ b \in uploadHistory.stopped =>
            \/ batch[b].st \in Ended
            \/ batch[b].st \in {"encrypting", "waiting"} /\ b \in cancelled

Entering == {"pinning", "recording"}

(* One upload is between the check and the row, and the row has its place   *)
QuotaFits ==
    ~uploadHistory.crowded =>
        /\ \A r, q \in requests : r.st \in Entering /\ q.st \in Entering => r = q
        /\ \A r \in requests : r.st \in Entering => Used + Size <= Limit
        /\ Used <= Limit + (StoredSize - Size)

UploadInv == UploadTypes /\ TriesFit /\ SavedFits /\ ListFits /\ AloneFits /\ QuotaFits

LEMMA FileParts ==
    /\ \A b \in Batches :
        /\ Len(FilesOf[b]) \in Nat /\ Len(FilesOf[b]) >= 1 /\ DOMAIN FilesOf[b] = 1..Len(FilesOf[b])
        /\ ToSet(FilesOf[b]) = {f \in Files : BatchOf(f) = b}
        /\ \A i \in 1..Len(FilesOf[b]) :
            FilesOf[b][i] \in Files /\ BatchOf(FilesOf[b][i]) = b /\ Pos(FilesOf[b][i]) = i
    /\ \A f \in Files :
        /\ BatchOf(f) \in Batches /\ Pos(f) \in 1..Len(FilesOf[BatchOf(f)])
        /\ FilesOf[BatchOf(f)][Pos(f)] = f
<1>1. ASSUME NEW b \in Batches
      PROVE  /\ Len(FilesOf[b]) \in Nat /\ Len(FilesOf[b]) >= 1 /\ DOMAIN FilesOf[b] = 1..Len(FilesOf[b])
             /\ ToSet(FilesOf[b]) \subseteq Files
             /\ \A i \in 1..Len(FilesOf[b]) : FilesOf[b][i] \in ToSet(FilesOf[b])
             /\ \A f \in ToSet(FilesOf[b]) : \E i \in 1..Len(FilesOf[b]) : FilesOf[b][i] = f
             /\ \A i, j \in 1..Len(FilesOf[b]) : FilesOf[b][i] = FilesOf[b][j] => i = j
  <2>1. FilesOf[b] \in Seq(Files) /\ FilesOf[b] # <<>>
    BY UploadAssumption
  <2>2. Len(FilesOf[b]) \in Nat /\ DOMAIN FilesOf[b] = 1..Len(FilesOf[b]) /\ Len(FilesOf[b]) # 0
    BY <2>1, LenProperties, EmptySeq
  <2>3. \A i, j \in DOMAIN FilesOf[b] : FilesOf[b][i] = FilesOf[b][j] => i = j
    BY UploadAssumption DEF IsInjective
  <2>4. ToSet(FilesOf[b]) \subseteq Files
    BY DEF Files
  <2> QED
    BY <2>2, <2>3, <2>4 DEF ToSet
<1>2. ASSUME NEW b \in Batches, NEW f \in ToSet(FilesOf[b]) PROVE BatchOf(f) = b
  <2>1. \A c \in Batches : f \in ToSet(FilesOf[c]) => c = b
    BY UploadAssumption
  <2> QED
    BY <2>1 DEF BatchOf
<1>3. ASSUME NEW f \in Files
      PROVE  BatchOf(f) \in Batches /\ f \in ToSet(FilesOf[BatchOf(f)])
  <2>1. \E b \in Batches : f \in ToSet(FilesOf[b])
    BY DEF Files
  <2> QED
    BY <2>1 DEF BatchOf
<1>4. ASSUME NEW f \in Files
      PROVE  Pos(f) \in 1..Len(FilesOf[BatchOf(f)]) /\ FilesOf[BatchOf(f)][Pos(f)] = f
  <2>1. \E i \in DOMAIN FilesOf[BatchOf(f)] : FilesOf[BatchOf(f)][i] = f
    BY <1>1, <1>3
  <2>2. Pos(f) \in DOMAIN FilesOf[BatchOf(f)] /\ FilesOf[BatchOf(f)][Pos(f)] = f
    BY <2>1 DEF Pos
  <2> QED
    BY <1>1, <1>3, <2>2
<1>5. ASSUME NEW b \in Batches, NEW i \in 1..Len(FilesOf[b])
      PROVE  FilesOf[b][i] \in Files /\ BatchOf(FilesOf[b][i]) = b /\ Pos(FilesOf[b][i]) = i
  <2>1. FilesOf[b][i] \in ToSet(FilesOf[b]) /\ FilesOf[b][i] \in Files
    BY <1>1
  <2>2. BatchOf(FilesOf[b][i]) = b
    BY <1>2, <2>1
  <2>3. /\ Pos(FilesOf[b][i]) \in 1..Len(FilesOf[b])
        /\ FilesOf[b][Pos(FilesOf[b][i])] = FilesOf[b][i]
    BY <1>4, <2>1, <2>2
  <2> QED
    BY <1>1, <2>1, <2>2, <2>3
<1>6. ASSUME NEW b \in Batches PROVE ToSet(FilesOf[b]) = {f \in Files : BatchOf(f) = b}
  BY <1>1, <1>2, <1>3
<1> QED
  BY <1>1, <1>3, <1>4, <1>5, <1>6

(* Steps that change one batch                                              *)
LEMMA GoesParts ==
    ASSUME UploadTypes, NEW b \in Batches, NEW st \in Stage, GoesOn(b, st)
    PROVE  /\ batch' \in [Batches -> BatchState]
           /\ batch'[b].st = st /\ batch'[b].at = batch[b].at /\ batch'[b].try = batch[b].try
           /\ batch'[b].source = batch[b].source
           /\ \A c \in Batches : c # b => batch'[c] = batch[c]
<1>1. batch[b] \in BatchState
  BY DEF UploadTypes
<1> DEFINE w == [batch[b] EXCEPT !.st = st]
<1>2. w \in BatchState /\ w.st = st /\ w.at = batch[b].at /\ w.try = batch[b].try /\ w.source = batch[b].source
  BY <1>1 DEF BatchState
<1>3. batch' = [batch EXCEPT ![b] = w]
  BY DEF GoesOn
<1> HIDE DEF w
<1> QED
  BY <1>2, <1>3 DEF UploadTypes

LEMMA UploadStartHolds == UploadsInit => UploadInv
<1> SUFFICES ASSUME UploadsInit PROVE UploadInv
  OBVIOUS
<1>1. \A b \in Batches : batch[b] = [st |-> "idle", at |-> 1, try |-> 1, source |-> NoBatch]
  BY DEF UploadsInit
<1>2. 1 \in 1..MaxTries /\ \A b \in Batches : 1 \in 1..Len(FilesOf[b])
  BY UploadAssumption, FileParts
<1>3. batch \in [Batches -> BatchState]
  BY <1>2 DEF UploadsInit, BatchState, Stage
<1>4. IsFiniteSet(rows) /\ Cardinality(rows) = 0 /\ Used = 0
  <2>1. rows = {}
    BY DEF UploadsInit
  <2>2. IsFiniteSet(rows) /\ Cardinality(rows) = 0
    BY <2>1, FS_EmptySet
  <2> QED
    BY <2>2, UploadAssumption DEF Used
<1>5. uploadHistory \in History
  BY DEF UploadsInit, History
<1>6. UploadTypes
  <2>1. \A b \in Batches : batch[b].at \in 1..Len(FilesOf[b]) /\ batch[b].st # "waiting"
    BY <1>1, <1>2
  <2>2. store \in [status : Status, source : Batches \cup {NoBatch}]
    BY DEF UploadsInit, Status, IdleStore
  <2>3. uploadMishaps \in 0..MaxUploadMishaps
    BY UploadAssumption DEF UploadsInit
  <2> QED
    BY <1>3, <1>4, <1>5, <2>1, <2>2, <2>3 DEF UploadsInit, UploadTypes
<1>7. TriesFit /\ ListFits
  BY <1>1, FileParts DEF UploadsInit, TriesFit, ListFits, Its
<1>8. SavedFits
  BY <1>1, FileParts DEF UploadsInit, SavedFits, Its, Passed, Underway, Whole
<1>9. AloneFits
  BY <1>1 DEF UploadsInit, AloneFits, Running, Underway
<1>10. QuotaFits
  BY <1>4, UploadAssumption DEF UploadsInit, QuotaFits
<1> QED
  BY <1>6, <1>7, <1>8, <1>9, <1>10 DEF UploadInv
-----------------------------------------------------------------------------
(* Uploads: the server's steps                                              *)

(* A request becomes another for the same attempt, or goes                  *)
Turns(r, st) ==
    /\ requests' \subseteq Request
    /\ \A q \in requests' :
        (q \in requests /\ q # r) \/ (q.file = r.file /\ q.try = r.try /\ q.st = st)

LEMMA TurnsParts ==
    ASSUME UploadTypes, NEW r \in requests,
           NEW st \in {"sent", "pinning", "recording", "accepted", "refused"},
           Becomes(r, st) \/ Answers(r, st)
    PROVE  Turns(r, st)
<1> DEFINE e == [r EXCEPT !.st = st]
<1>1. e \in Request /\ e.file = r.file /\ e.try = r.try /\ e.st = st
  BY DEF UploadTypes, Request
<1>2. requests' = (requests \ {r}) \cup {e} \/ requests' = requests \ {r}
  BY DEF Becomes, Answers
<1> HIDE DEF e
<1> QED
  BY <1>1, <1>2 DEF UploadTypes, Turns

LEMMA RequestParts ==
    /\ \A r \in Request : r.file \in Files /\ r.try \in 1..MaxTries
    /\ \A r, q \in Request : r.file = q.file /\ r.try = q.try /\ r.st = q.st => r = q
BY DEF Request

LEMMA TurnsTries ==
    ASSUME UploadTypes, TriesFit, NEW r \in requests, NEW st, Turns(r, st), batch' = batch,
           uploadHistory'.retried = uploadHistory.retried
    PROVE  TriesFit'
<1>1. \A f : Its(f)' = Its(f) /\ Unsent(f)' = Unsent(f) /\ Passed(f)' = Passed(f)
  BY DEF Its, Unsent, Passed
<1>2. ASSUME NEW q \in requests' PROVE \E p \in requests : p.file = q.file /\ p.try = q.try
  BY <1>2 DEF Turns
<1>3. ASSUME NEW q \in requests', NEW p \in requests', q.file = p.file, q.try = p.try PROVE q = p
  BY <1>3, RequestParts DEF Turns, TriesFit, UploadTypes
<1> QED
  BY <1>1, <1>2, <1>3 DEF TriesFit, Now

(* While its batch may still be listed, a file that no attempt was given up *)
(* for has one request                                                      *)
LEMMA OneRequest ==
    ASSUME UploadTypes, TriesFit, NEW r \in requests, NEW q \in requests, r.file = q.file,
           r.file \notin uploadHistory.retried, Its(r.file).st \in Underway
    PROVE  r = q /\ Now(r.file, "sending")
<1>1. r.file \in Files
  BY RequestParts DEF UploadTypes
<1>2. Its(r.file).at \in Nat /\ Pos(r.file) \in Nat
  <2>1. BatchOf(r.file) \in Batches /\ Pos(r.file) \in 1..Len(FilesOf[BatchOf(r.file)])
        /\ Len(FilesOf[BatchOf(r.file)]) \in Nat
    BY <1>1, FileParts
  <2> QED
    BY <2>1 DEF UploadTypes, Its, BatchState
<1>3. ~(Pos(r.file) > Its(r.file).at) /\ ~(Pos(r.file) < Its(r.file).at)
  BY DEF TriesFit, Unsent, Passed
<1>4. Pos(r.file) = Its(r.file).at
  BY <1>2, <1>3
<1>5. Its(r.file).st # "encrypting" /\ Its(r.file).st # "waiting"
  BY <1>4 DEF TriesFit, Unsent, Now
<1>6. Now(r.file, "sending")
  BY <1>4, <1>5 DEF Underway, Now
<1> QED
  BY <1>6 DEF TriesFit

LEMMA ServerTypes ==
    ASSUME UploadTypes, requests' \subseteq Request, pinned' \subseteq Files,
           rows' \subseteq Files, IsFiniteSet(rows'), uploadHistory' \in History,
           uploadMishaps' \in 0..MaxUploadMishaps, cleanup' \subseteq Files,
           UNCHANGED <<batch, store, usedSeen, cancelled, closing, listed>>
    PROVE  UploadTypes'
BY DEF UploadTypes

(* Steps that leave the batches alone                                       *)
LEMMA BatchesStay ==
    ASSUME AloneFits, UNCHANGED <<batch, cancelled>>, store'.source = store.source,
           uploadHistory'.mixed = uploadHistory.mixed, uploadHistory'.stopped = uploadHistory.stopped
    PROVE  AloneFits'
BY DEF AloneFits, Running

LEMMA CheckKeeps == ASSUME UploadInv, NEW r \in requests, Check(r) PROVE UploadInv'
<1>0. UploadTypes /\ TriesFit /\ SavedFits /\ ListFits /\ AloneFits /\ QuotaFits
  BY DEF UploadInv
<1> DEFINE crowd == uploadHistory.crowded \/ \E q \in requests : q.st \in {"pinning", "recording"}
           h == [uploadHistory EXCEPT !.crowded = crowd]
<1>1. crowd \in BOOLEAN
  BY <1>0 DEF UploadTypes, History
<1>2. uploadHistory' = h
  BY DEF Check
<1> HIDE DEF crowd
<1>3. /\ uploadHistory' \in History /\ uploadHistory'.crowded = crowd
      /\ uploadHistory'.retried = uploadHistory.retried /\ uploadHistory'.undone = uploadHistory.undone
      /\ uploadHistory'.muddled = uploadHistory.muddled /\ uploadHistory'.mislaid = uploadHistory.mislaid
      /\ uploadHistory'.mixed = uploadHistory.mixed /\ uploadHistory'.stopped = uploadHistory.stopped
  BY <1>0, <1>1, <1>2 DEF UploadTypes, History
<1> HIDE DEF h
<1>4. /\ r.st = "sent"
      /\ UNCHANGED <<pinned, rows, batch, store, usedSeen, cancelled, closing, listed, cleanup, uploadMishaps>>
  BY DEF Check
<1>5. PICK st \in {"pinning", "refused"} :
        Turns(r, st) /\ (st = "pinning" => HasQuota(Size))
  BY <1>0, TurnsParts DEF Check
<1>6. UploadTypes'
  BY <1>0, <1>3, <1>4, <1>5, ServerTypes DEF UploadTypes, Turns
<1>7. TriesFit'
  BY <1>0, <1>3, <1>4, <1>5, TurnsTries
<1>8. SavedFits'
  BY <1>0, <1>3, <1>4, <1>5 DEF SavedFits, Safe, Passed, Its, Turns
<1>9. ListFits'
  BY <1>0, <1>3, <1>4 DEF ListFits, Its
<1>10. AloneFits'
  BY <1>0, <1>3, <1>4, BatchesStay
<1>11. QuotaFits'
  <2> SUFFICES ASSUME ~crowd
               PROVE  /\ \A p, q \in requests' : p.st \in Entering /\ q.st \in Entering => p = q
                      /\ \A q \in requests' : q.st \in Entering => Used + Size <= Limit
                      /\ Used <= Limit + (StoredSize - Size)
    BY <1>3, <1>4 DEF QuotaFits, Used
  <2>1. ~uploadHistory.crowded /\ \A q \in requests : q.st \notin Entering
    BY DEF crowd, Entering
  <2>2. \A q \in requests' : q.st \in Entering =>
            q.file = r.file /\ q.try = r.try /\ q.st = st /\ st = "pinning" /\ q \in Request
    BY <1>5, <2>1 DEF Turns, Entering
  <2> QED
    BY <1>0, <1>5, <2>1, <2>2, RequestParts DEF HasQuota, QuotaFits
<1> QED
  BY <1>6, <1>7, <1>8, <1>9, <1>10, <1>11 DEF UploadInv

LEMMA QuotaStays ==
    ASSUME QuotaFits, rows' = rows, uploadHistory'.crowded = uploadHistory.crowded,
           \A q \in requests' : q \in requests \/ q.st \notin Entering
    PROVE  QuotaFits'
BY DEF QuotaFits, Used

LEMMA PinKeeps == ASSUME UploadInv, NEW r \in requests, Pin(r) PROVE UploadInv'
<1>0. UploadTypes /\ TriesFit /\ SavedFits /\ ListFits /\ AloneFits /\ QuotaFits
  BY DEF UploadInv
<1>1. /\ r.st = "pinning" /\ pinned' = pinned \cup {r.file}
      /\ UNCHANGED <<rows, batch, store, usedSeen, cancelled, closing, listed, cleanup,
                     uploadHistory, uploadMishaps>>
  BY DEF Pin
<1>2. Turns(r, "recording")
  BY <1>0, TurnsParts DEF Pin
<1>3. r.file \in Files
  BY <1>0, RequestParts DEF UploadTypes
<1>4. UploadTypes'
  BY <1>0, <1>1, <1>2, <1>3, ServerTypes DEF UploadTypes, Turns
<1>5. TriesFit'
  BY <1>0, <1>1, <1>2, TurnsTries
<1>6. SavedFits'
  BY <1>0, <1>1, <1>2 DEF SavedFits, Safe, Passed, Its, Turns
<1>7. ListFits'
  <2>1. ASSUME Its(r.file).st = "unlisted" PROVE r.file \in uploadHistory.retried
    <3>1. Passed(r.file)
      BY <2>1 DEF Passed, Whole
    <3> QED
      BY <1>0, <3>1 DEF TriesFit
  <2> QED
    BY <1>0, <1>1, <2>1 DEF ListFits, Its
<1>8. AloneFits'
  BY <1>0, <1>1, BatchesStay
<1>9. QuotaFits'
  <2>2. r.st \in Entering /\ requests' \subseteq Request
    BY <1>1, <1>2 DEF Entering, Turns
  <2>3. ASSUME ~uploadHistory.crowded, NEW p \in requests', NEW q \in requests', p.st \in Entering, q.st \in Entering
        PROVE  p = q
    BY <1>0, <1>2, <2>2, <2>3, RequestParts DEF QuotaFits, Turns
  <2> QED
    BY <1>0, <1>1, <2>2, <2>3 DEF QuotaFits, Used
<1> QED
  BY <1>4, <1>5, <1>6, <1>7, <1>8, <1>9 DEF UploadInv

LEMMA PinFailsKeeps == ASSUME UploadInv, NEW r \in requests, PinFails(r) \/ Vanishes(r) PROVE UploadInv'
<1>0. UploadTypes /\ TriesFit /\ SavedFits /\ ListFits /\ AloneFits /\ QuotaFits
  BY DEF UploadInv
<1>1. UNCHANGED <<pinned, rows, batch, store, usedSeen, cancelled, closing, listed, cleanup, uploadHistory>>
  BY DEF PinFails, Vanishes
<1>2. Turns(r, "refused")
  <2>1. CASE PinFails(r)
    BY <1>0, <2>1, TurnsParts DEF PinFails
  <2>2. CASE Vanishes(r)
    BY <1>0, <2>2 DEF Vanishes, Turns, UploadTypes
  <2> QED
    BY <2>1, <2>2
<1>3. uploadMishaps' \in 0..MaxUploadMishaps
  BY <1>0, UploadAssumption DEF PinFails, Vanishes, UploadMishap, UploadTypes
<1>4. UploadTypes'
  BY <1>0, <1>1, <1>2, <1>3, ServerTypes DEF UploadTypes, Turns
<1>5. TriesFit'
  BY <1>0, <1>1, <1>2, TurnsTries
<1>6. SavedFits'
  BY <1>0, <1>1, <1>2 DEF SavedFits, Safe, Passed, Its, Turns
<1>7. ListFits'
  BY <1>0, <1>1 DEF ListFits, Its
<1>8. AloneFits'
  BY <1>0, <1>1, BatchesStay
<1>9. QuotaFits'
  <2>1. \A q \in requests' : q \in requests \/ q.st \notin Entering
    BY <1>2 DEF Turns, Entering
  <2> QED
    BY <1>0, <1>1, <2>1, QuotaStays
<1> QED
  BY <1>4, <1>5, <1>6, <1>7, <1>8, <1>9 DEF UploadInv

LEMMA RecordKeeps == ASSUME UploadInv, NEW r \in requests, Record(r) PROVE UploadInv'
<1>0. UploadTypes /\ TriesFit /\ SavedFits /\ ListFits /\ AloneFits /\ QuotaFits
  BY DEF UploadInv
<1>1. /\ r.st = "recording" /\ rows' = rows \cup {r.file}
      /\ UNCHANGED <<pinned, batch, store, usedSeen, cancelled, closing, listed, cleanup,
                     uploadHistory, uploadMishaps>>
  BY DEF Record
<1>2. Turns(r, "accepted")
  BY <1>0, TurnsParts DEF Record
<1>3. r.file \in Files
  BY <1>0, RequestParts DEF UploadTypes
<1>4. /\ IsFiniteSet(rows') /\ Cardinality(rows) \in Nat
      /\ Cardinality(rows') = Cardinality(rows) \/ Cardinality(rows') = Cardinality(rows) + 1
  BY <1>0, <1>1, FS_AddElement, FS_CardinalityType DEF UploadTypes
<1>5. UploadTypes'
  BY <1>0, <1>1, <1>2, <1>3, <1>4, ServerTypes DEF UploadTypes, Turns
<1>6. TriesFit'
  BY <1>0, <1>1, <1>2, TurnsTries
<1>7. SavedFits'
  <2>1. Its(r.file).st \in Underway => Safe(r.file)
    BY <1>0, <1>1 DEF SavedFits
  <2> QED
    BY <1>0, <1>1, <1>2, <2>1 DEF SavedFits, Safe, Passed, Its, Turns
<1>8. ListFits'
  BY <1>0, <1>1 DEF ListFits, Its
<1>9. AloneFits'
  BY <1>0, <1>1, BatchesStay
<1>10. QuotaFits'
  <2> SUFFICES ASSUME ~uploadHistory.crowded
               PROVE  /\ \A q \in requests' : q.st \notin Entering
                      /\ Used' <= Limit + (StoredSize - Size)
    BY <1>1 DEF QuotaFits
  <2>1. \A q \in requests : q.st \in Entering => q = r
    BY <1>0, <1>1 DEF QuotaFits, Entering
  <2>2. \A q \in requests' : q.st \notin Entering
    BY <1>2, <2>1 DEF Turns, Entering
  <2>3. Used + Size <= Limit
    BY <1>0, <1>1 DEF QuotaFits, Entering
  <2>4. StoredSize * (Cardinality(rows) + 1) = StoredSize * Cardinality(rows) + StoredSize
        /\ StoredSize * Cardinality(rows) \in Nat
    BY <1>4, UploadAssumption
  <2>5. Used' = Used \/ Used' = Used + StoredSize
    BY <1>4, <2>4 DEF Used
  <2>6. Used \in Nat /\ StoredSize \in Nat /\ Size \in Nat /\ Limit \in Nat
    BY <2>4, UploadAssumption DEF Used
  <2> QED
    BY <2>2, <2>3, <2>5, <2>6
<1> QED
  BY <1>5, <1>6, <1>7, <1>8, <1>9, <1>10 DEF UploadInv

LEMMA RecordFailsKeeps == ASSUME UploadInv, NEW r \in requests, RecordFails(r) PROVE UploadInv'
<1>0. UploadTypes /\ TriesFit /\ SavedFits /\ ListFits /\ AloneFits /\ QuotaFits
  BY DEF UploadInv
<1>1. /\ r.st = "recording" /\ UploadMishap
      /\ UNCHANGED <<rows, batch, store, usedSeen, cancelled, closing, listed, cleanup>>
  BY DEF RecordFails
<1>2. PICK kept \in SUBSET {r.file} :
        /\ pinned' = pinned \ ({r.file} \ kept)
        /\ uploadHistory' = [uploadHistory EXCEPT !.undone = @ \cup {r.file}, !.mislaid = @ \cup kept]
  BY DEF RecordFails
<1>3. Turns(r, "refused")
  BY <1>0, TurnsParts DEF RecordFails
<1>4. r.file \in Files
  BY <1>0, RequestParts DEF UploadTypes
<1> DEFINE mid == [uploadHistory EXCEPT !.undone = @ \cup {r.file}]
<1>5. /\ mid \in History /\ mid.undone = uploadHistory.undone \cup {r.file}
      /\ mid.retried = uploadHistory.retried /\ mid.crowded = uploadHistory.crowded
      /\ mid.muddled = uploadHistory.muddled /\ mid.mislaid = uploadHistory.mislaid
      /\ mid.mixed = uploadHistory.mixed /\ mid.stopped = uploadHistory.stopped
  BY <1>0, <1>4 DEF UploadTypes, History
<1>6. uploadHistory' = [mid EXCEPT !.mislaid = @ \cup kept]
  BY <1>0, <1>2 DEF UploadTypes, History
<1> HIDE DEF mid
<1>7. /\ uploadHistory' \in History /\ uploadHistory'.undone = mid.undone
      /\ uploadHistory'.retried = mid.retried /\ uploadHistory'.crowded = mid.crowded
      /\ uploadHistory'.muddled = mid.muddled /\ uploadHistory'.mislaid = mid.mislaid \cup kept
      /\ uploadHistory'.mixed = mid.mixed /\ uploadHistory'.stopped = mid.stopped
  BY <1>4, <1>5, <1>6 DEF History
<1>8. UploadTypes'
  BY <1>0, <1>1, <1>2, <1>3, <1>7, UploadAssumption, ServerTypes DEF UploadTypes, Turns, UploadMishap
<1>9. TriesFit'
  BY <1>0, <1>1, <1>3, <1>5, <1>7, TurnsTries
<1>10. SavedFits'
  <2>1. \A f : Its(f)' = Its(f) /\ Passed(f)' = Passed(f)
    BY <1>1 DEF Its, Passed
  <2>2. \A f : f # r.file /\ Safe(f) => Safe(f)'
    BY <1>2, <1>5, <1>7 DEF Safe
  <2>3. r.file \in uploadHistory.retried => Safe(r.file)'
    BY <1>5, <1>7 DEF Safe
  <2>4. Passed(r.file) => r.file \in uploadHistory.retried
    BY <1>0 DEF TriesFit
  <2>5. \A f \in Files : Passed(f)' /\ Its(f)'.st # "unlisted" => Safe(f)'
    BY <1>0, <2>1, <2>2, <2>3, <2>4 DEF SavedFits
  <2>6. ASSUME NEW q \in requests', Its(q.file).st \in Underway, q.st \in {"recording", "accepted"}
        PROVE  Safe(q.file)'
    <3>1. q \in requests /\ q # r
      BY <1>3, <2>6 DEF Turns
    <3>2. CASE q.file # r.file
      BY <1>0, <2>2, <2>6, <3>1, <3>2 DEF SavedFits
    <3>3. CASE q.file = r.file
      BY <1>0, <2>3, <2>6, <3>1, <3>3, OneRequest
    <3> QED
      BY <3>2, <3>3
  <2> QED
    BY <2>1, <2>5, <2>6 DEF SavedFits
<1>11. ListFits'
  BY <1>0, <1>1, <1>2, <1>5, <1>7 DEF ListFits, Its
<1>12. AloneFits'
  BY <1>0, <1>1, <1>5, <1>7, BatchesStay
<1>13. QuotaFits'
  <2>1. \A q \in requests' : q \in requests \/ q.st \notin Entering
    BY <1>3 DEF Turns, Entering
  <2> QED
    BY <1>0, <1>1, <1>5, <1>7, <2>1, QuotaStays
<1> QED
  BY <1>8, <1>9, <1>10, <1>11, <1>12, <1>13 DEF UploadInv

LEMMA UnpinKeeps == ASSUME UploadInv, NEW f \in cleanup, Unpin(f) PROVE UploadInv'
<1>0. UploadTypes /\ TriesFit /\ SavedFits /\ ListFits /\ AloneFits /\ QuotaFits
  BY DEF UploadInv
<1>1. cleanup' = cleanup \ {f} /\ UNCHANGED <<rows, requests, batch, store, usedSeen, cancelled, closing, listed>>
  BY DEF Unpin
<1>2. f \in Files /\ Its(f).st = "unlisted"
  BY <1>0 DEF UploadTypes, ListFits
<1>3. /\ pinned' \subseteq pinned /\ (f \in pinned' => f \in uploadHistory'.mislaid)
      /\ (\A g \in pinned : g # f => g \in pinned')
      /\ uploadHistory' \in History /\ uploadHistory'.undone = uploadHistory.undone
      /\ uploadHistory'.retried = uploadHistory.retried /\ uploadHistory'.crowded = uploadHistory.crowded
      /\ uploadHistory'.muddled = uploadHistory.muddled
      /\ uploadHistory.mislaid \subseteq uploadHistory'.mislaid
      /\ uploadHistory'.mixed = uploadHistory.mixed /\ uploadHistory'.stopped = uploadHistory.stopped
  BY <1>0, <1>2 DEF Unpin, UploadTypes, History
<1>4. uploadMishaps' \in 0..MaxUploadMishaps
  BY <1>0, UploadAssumption DEF Unpin, UploadMishap, UploadTypes
<1>5. UploadTypes'
  BY <1>0, <1>1, <1>3, <1>4, ServerTypes DEF UploadTypes
<1>6. TriesFit'
  BY <1>0, <1>1, <1>3 DEF TriesFit, Its, Unsent, Passed, Now
<1>7. SavedFits'
  <2>1. \A g : g # f /\ Safe(g) => Safe(g)'
    BY <1>3 DEF Safe
  <2> QED
    BY <1>0, <1>1, <1>2, <2>1 DEF SavedFits, Its, Passed, Underway
<1>8. ListFits'
  BY <1>0, <1>1, <1>3 DEF ListFits, Its
<1>9. AloneFits'
  BY <1>0, <1>1, <1>3, BatchesStay
<1>10. QuotaFits'
  BY <1>0, <1>1, <1>3, QuotaStays
<1> QED
  BY <1>5, <1>6, <1>7, <1>8, <1>9, <1>10 DEF UploadInv
-----------------------------------------------------------------------------
(* Uploads: the batches' steps                                              *)

(* A batch stays, has sent nothing yet, will send nothing more, or is past  *)
(* its last file                                                            *)
Quiet(b) ==
    \/ batch'[b] = batch[b]
    \/ batch[b].st \in {"idle", "asking"} /\ batch'[b].st = "asking"
    \/ batch[b].st \in {"idle", "asking"} /\ batch'[b].st = "encrypting" /\ batch'[b].at = 1
    \/ batch'[b].st \in Ended
    \/ batch[b].st \in Whole \ {"unlisted"} /\ batch'[b].st \in Whole

LEMMA QuietTries ==
    ASSUME UploadTypes, TriesFit, \A b \in Batches : Quiet(b), requests' \subseteq requests,
           uploadHistory.retried \subseteq uploadHistory'.retried
    PROVE  TriesFit'
<1>1. ASSUME NEW r \in requests'
      PROVE  /\ ~Unsent(r.file)'
             /\ Now(r.file, "sending")' \/ Now(r.file, "waiting")' => r.try <= Its(r.file)'.try
             /\ r.file \notin uploadHistory'.retried =>
                  /\ ~Passed(r.file)' /\ ~Now(r.file, "waiting")'
                  /\ Now(r.file, "sending")' => r.try = Its(r.file)'.try
  <2> DEFINE b == BatchOf(r.file)
  <2>1. r \in requests /\ b \in Batches
    BY RequestParts, FileParts DEF UploadTypes
  <2>2. ~Unsent(r.file)
    BY <2>1 DEF TriesFit
  <2>3. batch[b].st \notin {"idle", "asking"}
    BY <2>2 DEF Unsent, Its
  <2>4. CASE batch'[b] = batch[b]
    <3>1. Its(r.file)' = Its(r.file)
      BY <2>4 DEF Its
    <3>2. Unsent(r.file)' = Unsent(r.file) /\ Passed(r.file)' = Passed(r.file)
          /\ \A st : Now(r.file, st)' = Now(r.file, st)
      BY <3>1 DEF Unsent, Passed, Now
    <3> QED
      BY <2>1, <3>1, <3>2 DEF TriesFit
  <2>5. CASE batch'[b].st \in Ended
    BY <2>5 DEF Its, Unsent, Passed, Now, Ended, Underway, Whole
  <2>6. CASE batch[b].st \in Whole \ {"unlisted"} /\ batch'[b].st \in Whole
    <3>1. r.file \in uploadHistory.retried
      BY <2>1, <2>6 DEF TriesFit, Its, Passed
    <3> QED
      BY <2>6, <3>1 DEF Its, Unsent, Now, Underway, Whole
  <2> QED
    BY <2>1, <2>3, <2>4, <2>5, <2>6 DEF Quiet
<1> QED
  BY <1>1 DEF TriesFit

LEMMA QuietSaved ==
    ASSUME UploadTypes, TriesFit, SavedFits, \A b \in Batches : Quiet(b), requests' \subseteq requests,
           pinned' = pinned, uploadHistory.retried \subseteq uploadHistory'.retried,
           uploadHistory'.undone = uploadHistory.undone
    PROVE  SavedFits'
<1>1. \A f : Safe(f) => Safe(f)'
  BY DEF Safe
<1>2. ASSUME NEW f \in Files, Passed(f)', Its(f)'.st # "unlisted" PROVE Safe(f)'
  <2>1. BatchOf(f) \in Batches /\ Pos(f) \in Nat /\ Pos(f) >= 1
    BY FileParts
  <2>2. ~(Its(f)'.at = 1 /\ Its(f)'.st = "encrypting") /\ Its(f)'.st # "asking" /\ Its(f)'.st \notin Ended
    BY <1>2, <2>1 DEF Passed, Ended, Whole, Underway
  <2>3. Passed(f) /\ Its(f).st # "unlisted"
    BY <1>2, <2>1, <2>2 DEF Quiet, Its, Passed
  <2> QED
    BY <1>1, <2>3 DEF SavedFits
<1>3. ASSUME NEW r \in requests', Its(r.file)'.st \in Underway, r.st \in {"recording", "accepted"} PROVE Safe(r.file)'
  <2>1. r \in requests /\ BatchOf(r.file) \in Batches
    BY RequestParts, FileParts DEF UploadTypes
  <2>2. Its(r.file).st \notin {"idle", "asking"}
    BY <2>1 DEF TriesFit, Unsent
  <2>3. Its(r.file).st \in Underway
    BY <1>3, <2>1, <2>2 DEF Quiet, Its, Ended, Whole, Underway
  <2> QED
    BY <1>1, <1>3, <2>1, <2>3 DEF SavedFits
<1> QED
  BY <1>2, <1>3 DEF SavedFits

(* Nothing is listed, and no batch ends listed or unlisted                  *)
LEMMA ListStays ==
    ASSUME ListFits, UNCHANGED <<pinned, listed, cleanup>>,
           \A b \in Batches :
              \/ batch'[b].st = batch[b].st
              \/ batch[b].st \notin {"done", "unlisted"} /\ batch'[b].st \notin {"done", "unlisted"},
           uploadHistory'.muddled = uploadHistory.muddled, uploadHistory'.mislaid = uploadHistory.mislaid,
           uploadHistory.retried \subseteq uploadHistory'.retried, UploadTypes
    PROVE  ListFits'
<1>1. \A f \in Files : BatchOf(f) \in Batches
  BY FileParts
<1>2. \A f \in Files : \/ Its(f)'.st = Its(f).st
                       \/ Its(f).st \notin {"done", "unlisted"} /\ Its(f)'.st \notin {"done", "unlisted"}
  BY <1>1 DEF Its
<1>3. pinned \subseteq Files /\ listed \subseteq Files /\ cleanup \subseteq Files
  BY DEF UploadTypes
<1> QED
  BY <1>2, <1>3 DEF ListFits

LEMMA BatchTypes ==
    ASSUME UploadTypes, requests' \subseteq Request, batch' \in [Batches -> BatchState],
           \A b \in Batches :
              batch'[b].at \in 1..Len(FilesOf[b]) /\ (batch'[b].st = "waiting" => batch'[b].try < MaxTries),
           store' \in [status : Status, source : Batches \cup {NoBatch}],
           usedSeen' \in Nat, cancelled' \subseteq Batches, closing' \in BOOLEAN,
           listed' \subseteq Files, cleanup' \subseteq Files,
           uploadHistory' \in History, uploadMishaps' \in 0..MaxUploadMishaps,
           UNCHANGED <<pinned, rows>>
    PROVE  UploadTypes'
BY DEF UploadTypes

LEMMA MishapParts ==
    ASSUME UploadTypes, UploadMishap \/ UNCHANGED uploadMishaps
    PROVE  uploadMishaps' \in 0..MaxUploadMishaps
BY UploadAssumption DEF UploadTypes, UploadMishap

LEMMA ShowsParts ==
    ASSUME UploadTypes, NEW status \in Status, Shows(status)
    PROVE  /\ store' \in [status : Status, source : Batches \cup {NoBatch}]
           /\ store'.source = store.source /\ store'.status = status
BY DEF UploadTypes, Shows

LEMMA UsedIsNat == ASSUME UploadTypes PROVE Used \in Nat
<1>1. Cardinality(rows) \in Nat
  BY FS_CardinalityType DEF UploadTypes
<1> QED
  BY <1>1, UploadAssumption DEF Used

(* Steps with which a batch goes on to another stage                        *)
LEMMA StageKeeps ==
    ASSUME UploadInv, NEW b \in Batches, NEW st \in Stage, GoesOn(b, st), Quiet(b),
           batch[b].st \notin {"done", "unlisted"} /\ st \notin {"done", "unlisted"}, Running(b), st \notin Underway,
           batch[b].st \in {"encrypting", "waiting"} \cup Ended => st \in Ended,
           requests' \subseteq requests,
           store' \in [status : Status, source : Batches \cup {NoBatch}], store'.source = store.source,
           usedSeen' \in Nat, uploadMishaps' \in 0..MaxUploadMishaps, uploadHistory' \in History,
           uploadHistory.retried \subseteq uploadHistory'.retried,
           uploadHistory'.undone = uploadHistory.undone, uploadHistory'.crowded = uploadHistory.crowded,
           uploadHistory'.muddled = uploadHistory.muddled, uploadHistory'.mislaid = uploadHistory.mislaid,
           uploadHistory'.mixed = uploadHistory.mixed, uploadHistory'.stopped = uploadHistory.stopped,
           UNCHANGED <<pinned, rows, cancelled, closing, listed, cleanup>>
    PROVE  UploadInv'
<1>0. UploadTypes /\ TriesFit /\ SavedFits /\ ListFits /\ AloneFits /\ QuotaFits
  BY DEF UploadInv
<1>1. /\ batch' \in [Batches -> BatchState]
      /\ batch'[b].st = st /\ batch'[b].at = batch[b].at
      /\ batch'[b].source = batch[b].source
      /\ \A c \in Batches : c # b => batch'[c] = batch[c]
  BY <1>0, GoesParts
<1>2. \A c \in Batches : Quiet(c)
  BY <1>1 DEF Quiet
<1>3. UploadTypes'
  BY <1>0, <1>1, BatchTypes DEF UploadTypes, Underway
<1>4. TriesFit'
  BY <1>0, <1>2, QuietTries
<1>5. SavedFits'
  BY <1>0, <1>2, QuietSaved
<1>6. ListFits'
  BY <1>0, <1>1, ListStays
<1>7. AloneFits'
  <2>1. \A c \in Batches : Running(c)' => Running(c)
    BY <1>1 DEF Running
  <2>2. b \in uploadHistory.stopped /\ b \notin uploadHistory.mixed => st \in Ended
    BY <1>0 DEF AloneFits, Running
  <2> QED
    BY <1>0, <1>1, <2>1, <2>2 DEF AloneFits
<1>8. QuotaFits'
  BY <1>0, QuotaStays
<1> QED
  BY <1>3, <1>4, <1>5, <1>6, <1>7, <1>8 DEF UploadInv
LEMMA DropKeeps == ASSUME UploadInv, NEW b \in Batches, Drop(b) PROVE UploadInv'
<1>0. UploadTypes /\ TriesFit /\ SavedFits /\ ListFits /\ AloneFits /\ QuotaFits
  BY DEF UploadInv
<1>1. batch[b].st = "idle" /\ UNCHANGED <<uploadTables, usedSeen, cancelled, closing, listed, cleanup>>
  BY DEF Drop
<1>2. uploadMishaps' \in 0..MaxUploadMishaps
  BY <1>0, MishapParts DEF Drop
<1>3. CASE Shows("error") /\ UNCHANGED <<batch, uploadHistory>>
  <2>1. store' \in [status : Status, source : Batches \cup {NoBatch}] /\ store'.source = store.source
    BY <1>0, <1>3, ShowsParts DEF Status
  <2>2. UploadTypes'
    BY <1>0, <1>1, <1>2, <1>3, <2>1 DEF UploadTypes, uploadTables
  <2>3. TriesFit' /\ SavedFits' /\ ListFits' /\ QuotaFits'
    BY <1>0, <1>1, <1>3 DEF TriesFit, SavedFits, ListFits, QuotaFits, uploadTables, Its, Unsent,
         Passed, Now, Safe, Used
  <2>4. AloneFits'
    BY <1>0, <1>1, <1>3, <2>1, BatchesStay
  <2> QED
    BY <2>2, <2>3, <2>4 DEF UploadInv
<1>4. CASE GoesOn(b, "asking") /\ UNCHANGED store
           /\ uploadHistory' = [uploadHistory EXCEPT !.mixed =
                @ \cup (IF \E c \in Batches : Running(c)
                        THEN {b} \cup {c \in Batches : Running(c)} ELSE {})]
  <2> DEFINE more == IF \E c \in Batches : Running(c)
                     THEN {b} \cup {c \in Batches : Running(c)} ELSE {}
  <2>1. more \subseteq Batches /\ \A c \in Batches : Running(c) => {b, c} \subseteq more
    OBVIOUS
  <2>2. uploadHistory' = [uploadHistory EXCEPT !.mixed = @ \cup more]
    BY <1>4
  <2> HIDE DEF more
  <2>3. /\ uploadHistory' \in History /\ uploadHistory'.mixed = uploadHistory.mixed \cup more
        /\ uploadHistory'.retried = uploadHistory.retried /\ uploadHistory'.undone = uploadHistory.undone
        /\ uploadHistory'.muddled = uploadHistory.muddled /\ uploadHistory'.mislaid = uploadHistory.mislaid
        /\ uploadHistory'.crowded = uploadHistory.crowded /\ uploadHistory'.stopped = uploadHistory.stopped
    BY <1>0, <2>1, <2>2 DEF UploadTypes, History
  <2>4. /\ batch' \in [Batches -> BatchState] /\ batch'[b].st = "asking" /\ batch'[b].at = batch[b].at
        /\ \A c \in Batches : c # b => batch'[c] = batch[c]
    BY <1>0, <1>4, GoesParts DEF Stage
  <2>5. \A c \in Batches : Quiet(c)
    BY <1>1, <2>4 DEF Quiet
  <2>6. UploadTypes'
    BY <1>0, <1>1, <1>2, <1>4, <2>3, <2>4, BatchTypes DEF UploadTypes, uploadTables
  <2>7. TriesFit' /\ SavedFits'
    BY <1>0, <1>1, <2>3, <2>5, QuietTries, QuietSaved DEF uploadTables
  <2>8. ListFits'
    BY <1>0, <1>1, <2>3, <2>4, ListStays DEF uploadTables
  <2>9. AloneFits'
    <3>1. \A c \in Batches : c # b => Running(c)' = Running(c)
      BY <2>4 DEF Running
    <3>2. b \notin uploadHistory.mixed => b \notin uploadHistory.stopped
      BY <1>0, <1>1 DEF AloneFits, Ended
    <3>3. \A c, d \in Batches : Running(c)' /\ Running(d)' /\ c # d => c \in uploadHistory'.mixed
      BY <1>0, <2>1, <2>3, <3>1 DEF AloneFits
    <3>4. \A c \in Batches : c \notin uploadHistory'.mixed =>
            /\ batch'[c].st \in Underway => store.source = c /\ batch'[c].source = c
            /\ c \in uploadHistory.stopped =>
                \/ batch'[c].st \in Ended
                \/ batch'[c].st \in {"encrypting", "waiting"} /\ c \in cancelled
      BY <1>0, <2>3, <2>4, <3>2 DEF AloneFits, Underway
    <3> QED
      BY <1>1, <1>4, <2>3, <3>3, <3>4 DEF AloneFits
  <2>10. QuotaFits'
    BY <1>0, <1>1, <2>3, QuotaStays DEF uploadTables
  <2> QED
    BY <2>6, <2>7, <2>8, <2>9, <2>10 DEF UploadInv
<1> QED
  BY <1>3, <1>4 DEF Drop

(* A batch starts on a file                                                 *)
LEMMA HeadsParts ==
    ASSUME UploadTypes, NEW b \in Batches, NEW at \in 1..Len(FilesOf[b]),
           NEW source \in Batches \cup {NoBatch}, NEW status, Heads(b, at, source, status), status # "cancelled"
    PROVE  /\ batch' \in [Batches -> BatchState]
           /\ batch'[b].st = "encrypting" /\ batch'[b].at = at /\ batch'[b].source = source
           /\ \A c \in Batches : c # b => batch'[c] = batch[c]
           /\ store' \in [status : Status, source : Batches \cup {NoBatch}] /\ store'.source = source
<1> DEFINE w == [st |-> "encrypting", at |-> at, try |-> 1, source |-> source]
<1>1. at \in Nat /\ 1 \in 1..MaxTries
  <2>1. Len(FilesOf[b]) \in Nat
    BY FileParts
  <2> QED
    BY <2>1, UploadAssumption
<1>2. w \in BatchState /\ w.st = "encrypting" /\ w.at = at /\ w.source = source
  BY <1>1 DEF BatchState, Stage
<1>3. batch' = [batch EXCEPT ![b] = w] /\ store' = [status |-> "encrypting", source |-> source]
  BY DEF Heads
<1> HIDE DEF w
<1> QED
  BY <1>2, <1>3 DEF UploadTypes, Status

LEMMA AskedKeeps == ASSUME UploadInv, NEW b \in Batches, Asked(b) PROVE UploadInv'
<1>0. UploadTypes /\ TriesFit /\ SavedFits /\ ListFits /\ AloneFits /\ QuotaFits
  BY DEF UploadInv
<1>1. batch[b].st = "asking" /\ UNCHANGED <<uploadTables, cancelled, closing, listed, cleanup, uploadHistory>>
  BY DEF Asked
<1>2. uploadMishaps' \in 0..MaxUploadMishaps
  BY <1>0, MishapParts DEF Asked
<1>3. usedSeen' \in Nat
  BY <1>0, UsedIsNat DEF Asked, UploadTypes
<1>4. CASE GoesOn(b, "failed") /\ Shows("error")
  <2>1. store' \in [status : Status, source : Batches \cup {NoBatch}] /\ store'.source = store.source
    BY <1>0, <1>4, ShowsParts DEF Status
  <2>2. Quiet(b)
    BY <1>0, <1>4, GoesParts DEF Quiet, Ended, Stage
  <2> QED
    BY <1>0, <1>1, <1>2, <1>3, <1>4, <2>1, <2>2, StageKeeps
       DEF uploadTables, Running, Underway, Stage, UploadTypes, Ended
<1>5. CASE Heads(b, 1, b, "encrypting")
  <2>1. 1 \in 1..Len(FilesOf[b])
    BY FileParts
  <2>2. /\ batch' \in [Batches -> BatchState]
        /\ batch'[b].st = "encrypting" /\ batch'[b].at = 1 /\ batch'[b].source = b
        /\ \A c \in Batches : c # b => batch'[c] = batch[c]
        /\ store' \in [status : Status, source : Batches \cup {NoBatch}] /\ store'.source = b
    BY <1>0, <1>5, <2>1, HeadsParts
  <2>3. \A c \in Batches : Quiet(c)
    BY <1>1, <2>2 DEF Quiet
  <2>4. UploadTypes'
    BY <1>0, <1>1, <1>2, <1>3, <2>1, <2>2, BatchTypes DEF UploadTypes, uploadTables
  <2>5. TriesFit' /\ SavedFits'
    BY <1>0, <1>1, <2>3, QuietTries, QuietSaved DEF uploadTables
  <2>6. ListFits'
    BY <1>0, <1>1, <2>2, ListStays DEF uploadTables
  <2>7. AloneFits'
    <3>1. \A c \in Batches : Running(c)' = Running(c)
      BY <1>1, <2>2 DEF Running
    <3>2. b \notin uploadHistory.mixed => b \notin uploadHistory.stopped
      BY <1>0, <1>1 DEF AloneFits, Ended
    <3>3. \A c \in Batches : c # b /\ batch[c].st \in Underway => c \in uploadHistory.mixed
      BY <1>0, <1>1 DEF AloneFits, Running, Underway
    <3> QED
      BY <1>0, <1>1, <2>2, <3>1, <3>2, <3>3 DEF AloneFits
  <2>8. QuotaFits'
    BY <1>0, <1>1, QuotaStays DEF uploadTables
  <2> QED
    BY <2>4, <2>5, <2>6, <2>7, <2>8 DEF UploadInv
<1> QED
  BY <1>4, <1>5 DEF Asked

LEMMA SendKeeps == ASSUME UploadInv, NEW b \in Batches, Send(b) PROVE UploadInv'
<1>0. UploadTypes /\ TriesFit /\ SavedFits /\ ListFits /\ AloneFits /\ QuotaFits
  BY DEF UploadInv
<1> DEFINE try == IF batch[b].st = "waiting" THEN batch[b].try + 1 ELSE 1
<1>f. PICK f : f = FilesOf[b][batch[b].at]
  OBVIOUS
<1> DEFINE e == [file |-> f, try |-> try, st |-> "sent"]
<1>1. /\ batch[b].st \in {"encrypting", "waiting"}
      /\ UNCHANGED <<pinned, rows, store, usedSeen, cancelled, closing, listed, cleanup,
                     uploadHistory, uploadMishaps>>
  BY DEF Send
<1>2. CASE batch[b].source \in cancelled
  <2>1. GoesOn(b, "stopping") /\ UNCHANGED requests
    BY <1>2 DEF Send
  <2>2. Quiet(b)
    BY <1>0, <2>1, GoesParts DEF Quiet, Ended, Stage
  <2> QED
    BY <1>0, <1>1, <2>1, <2>2, StageKeeps DEF Running, Underway, Stage, UploadTypes, Ended
<1>3. CASE batch[b].source \notin cancelled
  <2>1. batch' = [batch EXCEPT ![b].st = "sending", ![b].try = try] /\ requests' = requests \cup {e}
    BY <1>f, <1>3 DEF Send, SendsFile
  <2>2. /\ f \in Files /\ BatchOf(f) = b /\ Pos(f) = batch[b].at
        /\ \A g \in Files : BatchOf(g) = b /\ Pos(g) = batch[b].at => g = f
    BY <1>0, <1>f, FileParts DEF UploadTypes
  <2>3. batch[b].try \in 1..MaxTries /\ batch[b] \in BatchState
    BY <1>0 DEF UploadTypes, BatchState
  <2>4. try \in 1..MaxTries /\ (batch[b].st = "waiting" => try > batch[b].try)
    BY <1>0, <2>3, UploadAssumption DEF UploadTypes
  <2>5. e \in Request /\ e.file = f /\ e.try = try /\ e.st = "sent"
    BY <2>2, <2>4 DEF Request
  <2> DEFINE mid == [batch[b] EXCEPT !.st = "sending"]
             w == [mid EXCEPT !.try = try]
  <2>6. /\ mid \in BatchState /\ mid.st = "sending" /\ mid.at = batch[b].at /\ mid.source = batch[b].source
        /\ batch' = [batch EXCEPT ![b] = w]
    BY <1>0, <2>1, <2>3 DEF BatchState, Stage, UploadTypes
  <2> HIDE DEF mid
  <2>7. w \in BatchState /\ w.st = "sending" /\ w.at = batch[b].at /\ w.try = try /\ w.source = batch[b].source
    BY <2>4, <2>6 DEF BatchState
  <2> HIDE DEF w, e, try
  <2>8. /\ batch' \in [Batches -> BatchState] /\ batch'[b] = w
        /\ \A c \in Batches : c # b => batch'[c] = batch[c]
    BY <1>0, <2>6, <2>7 DEF UploadTypes
  <2>9. UploadTypes'
    BY <1>0, <1>1, <2>1, <2>5, <2>7, <2>8, BatchTypes DEF UploadTypes
  <2>10. /\ Its(f) = batch[b] /\ Its(f)' = w /\ Pos(f) = w.at
         /\ \A g \in Files : BatchOf(g) # b => Its(g)' = Its(g)
         /\ \A g \in Files : BatchOf(g) = b => Its(g)' = w /\ Its(g) = batch[b]
         /\ \A g \in Files : BatchOf(g) = b /\ g # f => Pos(g) # w.at
         /\ w.at \in Nat
    <3>1. w.at \in Nat
      BY <2>7 DEF BatchState
    <3>2. \A g \in Files : BatchOf(g) \in Batches
      BY FileParts
    <3> QED
      BY <2>2, <2>7, <2>8, <3>1, <3>2 DEF Its
  <2>11. ASSUME NEW r \in requests
         PROVE  /\ ~Unsent(r.file)'
                /\ Now(r.file, "sending")' \/ Now(r.file, "waiting")' => r.try <= Its(r.file)'.try
                /\ r.file = f => r.try # try
                /\ r.file \notin uploadHistory.retried =>
                     /\ ~Passed(r.file)' /\ ~Now(r.file, "waiting")'
                     /\ Now(r.file, "sending")' => r.try = Its(r.file)'.try
    <3> DEFINE g == r.file
    <3>1. g \in Files /\ r.try \in 1..MaxTries
      BY <1>0, RequestParts DEF UploadTypes
    <3>2. CASE BatchOf(g) # b
      <4>1. Its(g)' = Its(g) /\ g # f
        BY <2>2, <2>10, <3>1, <3>2
      <4>2. Unsent(g)' = Unsent(g) /\ Passed(g)' = Passed(g) /\ \A st : Now(g, st)' = Now(g, st)
        BY <4>1 DEF Unsent, Passed, Now
      <4> QED
        BY <1>0, <4>1, <4>2 DEF TriesFit
    <3>3. CASE BatchOf(g) = b /\ g # f
      <4>1. Its(g)' = w /\ Its(g) = batch[b] /\ Pos(g) # w.at
        BY <2>10, <3>1, <3>3
      <4>2. (Unsent(g)' => Unsent(g)) /\ (Passed(g)' => Passed(g)) /\ \A st : ~Now(g, st)'
        BY <1>1, <2>7, <4>1 DEF Unsent, Passed, Now, Underway, Whole
      <4> QED
        BY <1>0, <3>3, <4>2 DEF TriesFit
    <3>4. CASE g = f
      <4>1. ~(batch[b].st = "encrypting")
        BY <1>0, <2>7, <2>10, <3>4 DEF TriesFit, Unsent
      <4>2. Now(g, "waiting")
        BY <1>1, <2>7, <2>10, <3>4, <4>1 DEF Now
      <4>3. r.try <= batch[b].try /\ g \in uploadHistory.retried
        BY <1>0, <2>10, <3>4, <4>2 DEF TriesFit
      <4>4. r.try < try
        BY <1>1, <2>3, <2>4, <3>1, <4>1, <4>3
      <4>5. ~Unsent(g)'
        BY <2>7, <2>10, <3>4 DEF Unsent, Underway
      <4>6. r.try <= Its(g)'.try /\ r.try # try
        BY <2>4, <2>7, <2>10, <3>1, <3>4, <4>4
      <4> QED
        BY <3>4, <4>3, <4>5, <4>6
    <3> QED
      BY <3>2, <3>3, <3>4
  <2>12. TriesFit'
    <3>1. /\ ~Unsent(f)' /\ ~Passed(f)' /\ ~Now(f, "waiting")' /\ try <= try
      BY <2>4, <2>7, <2>10 DEF Unsent, Passed, Now, Underway, Whole
    <3>2. \A r, q \in requests' : r.file = q.file /\ r.try = q.try => r = q
      BY <1>0, <2>1, <2>5, <2>11 DEF TriesFit
    <3>3. ASSUME NEW r \in requests'
          PROVE  /\ ~Unsent(r.file)'
                 /\ Now(r.file, "sending")' \/ Now(r.file, "waiting")' => r.try <= Its(r.file)'.try
                 /\ r.file \notin uploadHistory.retried =>
                      /\ ~Passed(r.file)' /\ ~Now(r.file, "waiting")'
                      /\ Now(r.file, "sending")' => r.try = Its(r.file)'.try
      <4>1. CASE r = e
        BY <2>5, <2>7, <2>10, <3>1, <4>1
      <4>2. CASE r \in requests
        BY <2>11, <4>2
      <4> QED
        BY <2>1, <4>1, <4>2
    <3> QED
      BY <1>1, <3>2, <3>3 DEF TriesFit
  <2>13. SavedFits'
    <3>1. \A g \in Files : Passed(g)' /\ Its(g)'.st # "unlisted" => Passed(g) /\ Its(g).st # "unlisted"
      BY <1>1, <2>7, <2>10 DEF Passed, Underway, Whole
    <3>2. \A r \in requests' : r.st \in {"recording", "accepted"} /\ Its(r.file)'.st \in Underway =>
            r \in requests /\ Its(r.file).st \in Underway
      BY <1>0, <1>1, <2>1, <2>5, <2>10, RequestParts DEF Underway, UploadTypes
    <3> QED
      BY <1>0, <1>1, <3>1, <3>2 DEF SavedFits, Safe
  <2>14. ListFits'
    BY <1>0, <1>1, <2>7, <2>8, ListStays
  <2>15. AloneFits'
    <3>1. \A c \in Batches : Running(c)' = Running(c)
      BY <1>1, <2>7, <2>8 DEF Running
    <3>2. b \notin uploadHistory.mixed => b \notin uploadHistory.stopped /\ store.source = b /\ batch[b].source = b
      BY <1>0, <1>1, <1>3 DEF AloneFits, Underway, Ended
    <3> QED
      BY <1>0, <1>1, <2>7, <2>8, <3>1, <3>2 DEF AloneFits
  <2>16. QuotaFits'
    BY <1>0, <1>1, <2>1, <2>5, QuotaStays DEF Entering
  <2> QED
    BY <2>9, <2>12, <2>13, <2>14, <2>15, <2>16 DEF UploadInv
<1> QED
  BY <1>2, <1>3
(* The file a batch is at                                                   *)
LEMMA AwaitedParts ==
    ASSUME UploadTypes, NEW r \in requests, Awaited(r)
    PROVE  /\ BatchOf(r.file) \in Batches /\ r.file \in Files
           /\ batch[BatchOf(r.file)].st = "sending" /\ Pos(r.file) = batch[BatchOf(r.file)].at
           /\ batch[BatchOf(r.file)].try = r.try
<1>1. r.file \in Files /\ BatchOf(r.file) \in Batches
  BY RequestParts, FileParts DEF UploadTypes
<1>2. batch[BatchOf(r.file)].at \in 1..Len(FilesOf[BatchOf(r.file)])
  BY <1>1 DEF UploadTypes
<1> QED
  BY <1>1, <1>2, FileParts DEF Awaited

(* An accepted file is behind its batch                                     *)
LEMMA PassesFile ==
    ASSUME UploadTypes, TriesFit, SavedFits, NEW r \in requests, r.st = "accepted", Awaited(r),
           NEW b, b = BatchOf(r.file), requests' = requests \ {r}, UNCHANGED <<pinned, uploadHistory>>,
           \A c \in Batches : c # b => batch'[c] = batch[c],
           \/ batch'[b].st = "finishing" /\ batch[b].at = Len(FilesOf[b])
           \/ batch'[b].st = "encrypting" /\ batch'[b].at = batch[b].at + 1
    PROVE  TriesFit' /\ SavedFits'
<1> DEFINE f == r.file
<1>1. /\ b \in Batches /\ f \in Files /\ batch[b].st = "sending" /\ Pos(f) = batch[b].at
      /\ batch[b].at \in Nat
  BY AwaitedParts DEF UploadTypes, BatchState
<1>2. /\ \A g \in Files : BatchOf(g) # b => Its(g)' = Its(g)
      /\ \A g \in Files : BatchOf(g) = b =>
            /\ Its(g)' = batch'[b] /\ Its(g) = batch[b] /\ Pos(g) \in Nat /\ Pos(g) <= Len(FilesOf[b])
            /\ g # f => Pos(g) # batch[b].at
  <2>1. ASSUME NEW g \in Files
        PROVE  /\ BatchOf(g) \in Batches /\ Pos(g) \in 1..Len(FilesOf[BatchOf(g)])
               /\ Len(FilesOf[BatchOf(g)]) \in Nat /\ FilesOf[BatchOf(g)][Pos(g)] = g
    BY FileParts
  <2>2. ASSUME NEW g \in Files, BatchOf(g) = b, Pos(g) = batch[b].at PROVE g = f
    BY <1>1, <2>1, <2>2
  <2> QED
    BY <2>1, <2>2 DEF Its
<1>3. ASSUME NEW g \in Files, BatchOf(g) = b, g # f
      PROVE  /\ Passed(g)' => Passed(g) /\ Its(g).st # "unlisted"
             /\ ~Unsent(g) => Passed(g) /\ ~Unsent(g)'
             /\ \A st \in {"sending", "waiting"} : ~Now(g, st)'
  <2>1. /\ Its(g)' = batch'[b] /\ Its(g) = batch[b] /\ Pos(g) \in Nat /\ Pos(g) <= Len(FilesOf[b])
        /\ Pos(g) # batch[b].at
    BY <1>2, <1>3
  <2>2. Passed(g)' => Pos(g) < batch[b].at
    BY <1>1, <2>1 DEF Passed, Whole, Underway
  <2>3. ~Unsent(g) => Pos(g) < batch[b].at
    BY <1>1, <2>1 DEF Unsent, Underway
  <2>4. Pos(g) < batch[b].at => Passed(g) /\ ~Unsent(g)'
    BY <1>1, <2>1 DEF Passed, Unsent, Underway
  <2> QED
    BY <1>1, <2>1, <2>2, <2>3, <2>4 DEF Now
<1>4. ~Unsent(f)' /\ \A st \in {"sending", "waiting"} : ~Now(f, st)'
  BY <1>1, <1>2 DEF Unsent, Now, Underway
<1>5. ASSUME NEW g \in Files, BatchOf(g) # b
      PROVE  /\ Its(g)' = Its(g) /\ Unsent(g)' = Unsent(g) /\ Passed(g)' = Passed(g)
             /\ \A st : Now(g, st)' = Now(g, st)
  BY <1>2, <1>5 DEF Unsent, Passed, Now
<1>6. ASSUME NEW q \in requests'
      PROVE  /\ ~Unsent(q.file)'
             /\ Now(q.file, "sending")' \/ Now(q.file, "waiting")' => q.try <= Its(q.file)'.try
             /\ q.file \notin uploadHistory.retried =>
                  /\ ~Passed(q.file)' /\ ~Now(q.file, "waiting")'
                  /\ Now(q.file, "sending")' => q.try = Its(q.file)'.try
  <2>1. q \in requests /\ q # r /\ q.file \in Files
    BY RequestParts DEF UploadTypes
  <2>2. CASE BatchOf(q.file) # b
    BY <1>5, <2>1, <2>2 DEF TriesFit
  <2>3. CASE BatchOf(q.file) = b /\ q.file # f
    BY <1>3, <2>1, <2>3 DEF TriesFit
  <2>4. CASE q.file = f
    <3>1. Its(f).st \in Underway
      BY <1>1, <1>2 DEF Underway
    <3>2. f \in uploadHistory.retried
      BY <2>1, <2>4, <3>1, OneRequest
    <3> QED
      BY <1>4, <2>4, <3>2
  <2> QED
    BY <2>2, <2>3, <2>4
<1>7. TriesFit'
  BY <1>6 DEF TriesFit
<1>8. SavedFits'
  <2>1. Safe(f)
    BY <1>1, <1>2 DEF SavedFits, Underway
  <2>2. ASSUME NEW g \in Files, Passed(g)', Its(g)'.st # "unlisted" PROVE Safe(g)
    BY <1>3, <1>5, <2>1, <2>2 DEF SavedFits
  <2>3. ASSUME NEW q \in requests', Its(q.file)'.st \in Underway, q.st \in {"recording", "accepted"} PROVE Safe(q.file)
    <3>1. q \in requests /\ q.file \in Files
      BY RequestParts DEF UploadTypes
    <3>2. Its(q.file).st \in Underway
      BY <1>1, <1>2, <2>3, <3>1 DEF Underway
    <3> QED
      BY <2>3, <3>1, <3>2 DEF SavedFits
  <2> QED
    BY <2>2, <2>3 DEF SavedFits, Safe
<1> QED
  BY <1>7, <1>8

LEMMA AcceptedKeeps ==
    ASSUME UploadInv, NEW r \in requests, Accepted(BatchOf(r.file), r)
    PROVE  UploadInv'
<1>0. UploadTypes /\ TriesFit /\ SavedFits /\ ListFits /\ AloneFits /\ QuotaFits
  BY DEF UploadInv
<1>1. PICK b : b = BatchOf(r.file)
  OBVIOUS
<1>2. /\ r.st = "accepted" /\ Awaited(r) /\ requests' = requests \ {r}
      /\ UNCHANGED <<pinned, rows, usedSeen, cancelled, closing, listed, cleanup, uploadHistory, uploadMishaps>>
      /\ IF batch[b].at < Len(FilesOf[b])
         THEN Heads(b, batch[b].at + 1, store.source, store.status)
         ELSE GoesOn(b, "finishing") /\ Shows("success")
  BY <1>1 DEF Accepted
<1>3. /\ b \in Batches /\ batch[b].st = "sending" /\ batch[b].at \in 1..Len(FilesOf[b])
      /\ Len(FilesOf[b]) \in Nat /\ store.source \in Batches \cup {NoBatch}
  BY <1>0, <1>1, <1>2, AwaitedParts, FileParts DEF UploadTypes
<1>4. CASE batch[b].at < Len(FilesOf[b]) /\ store.status = "cancelled"
  <2>1. GoesOn(b, "stopping") /\ store' = [store EXCEPT !.source = store.source]
    BY <1>2, <1>4 DEF Heads, GoesOn
  <2>2. store' \in [status : Status, source : Batches \cup {NoBatch}] /\ store'.source = store.source
    BY <1>0, <2>1 DEF UploadTypes
  <2>3. Quiet(b)
    BY <1>0, <1>3, <2>1, GoesParts DEF Quiet, Ended, Stage
  <2> QED
    BY <1>0, <1>2, <1>3, <2>1, <2>2, <2>3, StageKeeps DEF Running, Underway, Stage, UploadTypes, Ended
<1>5. CASE batch[b].at < Len(FilesOf[b]) /\ store.status # "cancelled"
  <2>1. /\ batch' \in [Batches -> BatchState]
        /\ batch'[b].st = "encrypting" /\ batch'[b].at = batch[b].at + 1 /\ batch'[b].source = store.source
        /\ \A c \in Batches : c # b => batch'[c] = batch[c]
        /\ store' \in [status : Status, source : Batches \cup {NoBatch}] /\ store'.source = store.source
    <3>1. batch[b].at + 1 \in 1..Len(FilesOf[b])
      BY <1>3, <1>5
    <3>2. Heads(b, batch[b].at + 1, store.source, store.status)
      BY <1>2, <1>5
    <3> QED
      BY <1>0, <1>3, <1>5, <3>1, <3>2, HeadsParts
  <2>2. UploadTypes'
    <3>1. batch'[b].at \in 1..Len(FilesOf[b])
      BY <1>3, <1>5, <2>1
    <3> QED
      BY <1>0, <1>2, <2>1, <3>1, BatchTypes DEF UploadTypes
  <2>3. TriesFit' /\ SavedFits'
    BY <1>0, <1>1, <1>2, <2>1, PassesFile
  <2>4. ListFits'
    BY <1>0, <1>2, <1>3, <2>1, ListStays
  <2>5. AloneFits'
    <3>1. \A c \in Batches : Running(c)' = Running(c)
      BY <1>3, <2>1 DEF Running
    <3>2. b \notin uploadHistory.mixed => b \notin uploadHistory.stopped /\ store.source = b
      BY <1>0, <1>3 DEF AloneFits, Underway, Ended
    <3> QED
      BY <1>0, <1>2, <2>1, <3>1, <3>2 DEF AloneFits
  <2>6. QuotaFits'
    BY <1>0, <1>2, QuotaStays
  <2> QED
    BY <2>2, <2>3, <2>4, <2>5, <2>6 DEF UploadInv
<1>6. CASE ~(batch[b].at < Len(FilesOf[b]))
  <2>1. /\ batch' \in [Batches -> BatchState] /\ batch'[b].st = "finishing" /\ batch'[b].at = batch[b].at
        /\ \A c \in Batches : c # b => batch'[c] = batch[c]
    BY <1>0, <1>2, <1>3, <1>6, GoesParts DEF Stage
  <2>2. store' \in [status : Status, source : Batches \cup {NoBatch}] /\ store'.source = store.source
    BY <1>0, <1>2, <1>6, ShowsParts DEF Status
  <2>3. UploadTypes'
    BY <1>0, <1>2, <2>1, <2>2, BatchTypes DEF UploadTypes
  <2>4. batch[b].at = Len(FilesOf[b])
    BY <1>3, <1>6
  <2>5. TriesFit' /\ SavedFits'
    BY <1>0, <1>1, <1>2, <2>1, <2>4, PassesFile
  <2>6. ListFits'
    BY <1>0, <1>2, <1>3, <2>1, ListStays
  <2>7. AloneFits'
    <3>1. \A c \in Batches : Running(c)' = Running(c)
      BY <1>3, <2>1 DEF Running
    <3>2. b \notin uploadHistory.mixed => b \notin uploadHistory.stopped
      BY <1>0, <1>3 DEF AloneFits, Ended
    <3> QED
      BY <1>0, <1>2, <2>1, <2>2, <3>1, <3>2 DEF AloneFits, Underway
  <2>8. QuotaFits'
    BY <1>0, <1>2, QuotaStays
  <2> QED
    BY <2>3, <2>5, <2>6, <2>7, <2>8 DEF UploadInv
<1> QED
  BY <1>4, <1>5, <1>6

(* An attempt is given up: the batch waits, or fails                        *)
LEMMA RetryKeeps ==
    ASSUME UploadInv, NEW b \in Batches, Retries(b), batch[b].st = "sending", requests' \subseteq requests,
           NEW f \in Files, BatchOf(f) = b, Pos(f) = batch[b].at,
           f \in uploadHistory'.retried \/ \A q \in requests' : q.file # f,
           uploadHistory' \in History, uploadMishaps' \in 0..MaxUploadMishaps,
           uploadHistory.retried \subseteq uploadHistory'.retried,
           uploadHistory'.undone = uploadHistory.undone, uploadHistory'.crowded = uploadHistory.crowded,
           uploadHistory'.muddled = uploadHistory.muddled, uploadHistory'.mislaid = uploadHistory.mislaid,
           uploadHistory'.mixed = uploadHistory.mixed, uploadHistory'.stopped = uploadHistory.stopped,
           UNCHANGED <<pinned, rows, usedSeen, cancelled, closing, listed, cleanup>>
    PROVE  UploadInv'
<1>0. UploadTypes /\ TriesFit /\ SavedFits /\ ListFits /\ AloneFits /\ QuotaFits
  BY DEF UploadInv
<1>1. CASE ~(batch[b].try < MaxTries)
  <2>1. GoesOn(b, "failing") /\ Shows("error")
    BY <1>1 DEF Retries
  <2>2. store' \in [status : Status, source : Batches \cup {NoBatch}] /\ store'.source = store.source
    BY <1>0, <2>1, ShowsParts DEF Status
  <2>3. Quiet(b)
    BY <1>0, <2>1, GoesParts DEF Quiet, Ended, Stage
  <2> QED
    BY <1>0, <2>1, <2>2, <2>3, StageKeeps DEF Running, Underway, Stage, UploadTypes, Ended
<1>2. CASE batch[b].try < MaxTries
  <2>1. GoesOn(b, "waiting") /\ store' = store
    BY <1>2 DEF Retries
  <2>2. /\ batch' \in [Batches -> BatchState] /\ batch'[b].st = "waiting" /\ batch'[b].at = batch[b].at
        /\ batch'[b].try = batch[b].try /\ batch'[b].source = batch[b].source
        /\ \A c \in Batches : c # b => batch'[c] = batch[c]
    BY <1>0, <2>1, GoesParts DEF Stage
  <2>3. UploadTypes'
    BY <1>0, <1>2, <2>1, <2>2, BatchTypes DEF UploadTypes
  <2>4. \A g \in Files : /\ BatchOf(g) # b => Its(g)' = Its(g)
                         /\ BatchOf(g) = b => Its(g)' = batch'[b] /\ Its(g) = batch[b]
                         /\ BatchOf(g) = b /\ g # f => Pos(g) # batch[b].at
    BY <2>2, FileParts DEF Its
  <2>5. TriesFit'
    <3>1. ASSUME NEW q \in requests'
          PROVE  /\ ~Unsent(q.file)'
                 /\ Now(q.file, "sending")' \/ Now(q.file, "waiting")' => q.try <= Its(q.file)'.try
                 /\ q.file \notin uploadHistory'.retried =>
                      /\ ~Passed(q.file)' /\ ~Now(q.file, "waiting")'
                      /\ Now(q.file, "sending")' => q.try = Its(q.file)'.try
      <4>1. q \in requests /\ q.file \in Files
        BY <1>0, RequestParts DEF UploadTypes
      <4>2. CASE BatchOf(q.file) # b
        <5>1. Its(q.file)' = Its(q.file)
          BY <2>4, <4>1, <4>2
        <5>2. /\ Unsent(q.file)' = Unsent(q.file) /\ Passed(q.file)' = Passed(q.file)
              /\ \A st : Now(q.file, st)' = Now(q.file, st)
          BY <5>1 DEF Unsent, Passed, Now
        <5> QED
          BY <1>0, <4>1, <5>1, <5>2 DEF TriesFit
      <4>3. CASE BatchOf(q.file) = b
        <5>1. Its(q.file)' = batch'[b] /\ Its(q.file) = batch[b]
          BY <2>4, <4>1, <4>3
        <5>2. (Unsent(q.file)' => Unsent(q.file)) /\ (Passed(q.file)' => Passed(q.file)) /\ ~Now(q.file, "sending")'
          BY <2>2, <5>1 DEF Unsent, Passed, Now, Underway, Whole
        <5>3. Now(q.file, "waiting")' => Now(q.file, "sending") /\ q.file = f
          BY <2>2, <2>4, <4>1, <4>3, <5>1 DEF Now
        <5>4. Now(q.file, "waiting")' => q.try <= Its(q.file)'.try /\ q.file \in uploadHistory'.retried
          BY <1>0, <2>2, <4>1, <5>1, <5>3 DEF TriesFit
        <5> QED
          BY <1>0, <4>1, <5>2, <5>4 DEF TriesFit
      <4> QED
        BY <4>2, <4>3
    <3> QED
      BY <1>0, <3>1 DEF TriesFit
  <2>6. SavedFits'
    <3>1. \A g \in Files : /\ Passed(g)' /\ Its(g)'.st # "unlisted" => Passed(g) /\ Its(g).st # "unlisted"
                           /\ Its(g)'.st \in Underway => Its(g).st \in Underway
                           /\ Safe(g) => Safe(g)'
      BY <2>2, <2>4 DEF Passed, Underway, Whole, Safe
    <3> QED
      BY <1>0, <3>1, RequestParts DEF SavedFits, UploadTypes
  <2>7. ListFits'
    BY <1>0, <2>2, ListStays
  <2>8. AloneFits'
    <3>1. \A c \in Batches : Running(c)' = Running(c)
      BY <2>2 DEF Running
    <3>2. b \notin uploadHistory.mixed => b \notin uploadHistory.stopped
      BY <1>0 DEF AloneFits, Ended
    <3> QED
      BY <1>0, <2>1, <2>2, <3>1, <3>2 DEF AloneFits, Underway
  <2>9. QuotaFits'
    BY <1>0, QuotaStays
  <2> QED
    BY <2>3, <2>5, <2>6, <2>7, <2>8, <2>9 DEF UploadInv
<1> QED
  BY <1>1, <1>2

LEMMA RefusedKeeps ==
    ASSUME UploadInv, NEW r \in requests, Refused(BatchOf(r.file), r)
    PROVE  UploadInv'
<1>0. UploadTypes /\ TriesFit
  BY DEF UploadInv
<1>1. PICK b : b = BatchOf(r.file)
  OBVIOUS
<1>2. /\ Awaited(r) /\ requests' = requests \ {r} /\ Retries(b)
      /\ UNCHANGED <<pinned, rows, usedSeen, cancelled, closing, listed, cleanup, uploadHistory, uploadMishaps>>
  BY <1>1 DEF Refused
<1>3. /\ b \in Batches /\ r.file \in Files /\ batch[b].st = "sending" /\ Pos(r.file) = batch[b].at
  BY <1>0, <1>1, <1>2, AwaitedParts
<1>4. r.file \in uploadHistory.retried \/ \A q \in requests' : q.file # r.file
  <2>1. Its(r.file).st \in Underway
    BY <1>1, <1>3 DEF Its, Underway
  <2> QED
    BY <1>0, <1>2, <2>1, OneRequest
<1> QED
  BY <1>0, <1>1, <1>2, <1>3, <1>4, RetryKeeps DEF UploadTypes

LEMMA LostKeeps == ASSUME UploadInv, NEW b \in Batches, Lost(b) PROVE UploadInv'
<1>0. UploadTypes /\ TriesFit
  BY DEF UploadInv
<1>1. PICK f : f = FilesOf[b][batch[b].at]
  OBVIOUS
<1>2. f \in Files /\ BatchOf(f) = b /\ Pos(f) = batch[b].at
  BY <1>0, <1>1, FileParts DEF UploadTypes
<1>3. /\ batch[b].st = "sending" /\ UploadMishap /\ Retries(b) /\ requests' \subseteq requests
      /\ uploadHistory' = [uploadHistory EXCEPT !.retried = @ \cup {f}]
      /\ UNCHANGED <<pinned, rows, usedSeen, cancelled, closing, listed, cleanup>>
  BY <1>1 DEF Lost
<1>4. /\ uploadHistory' \in History /\ uploadHistory'.retried = uploadHistory.retried \cup {f}
      /\ uploadHistory'.undone = uploadHistory.undone /\ uploadHistory'.crowded = uploadHistory.crowded
      /\ uploadHistory'.muddled = uploadHistory.muddled /\ uploadHistory'.mislaid = uploadHistory.mislaid
      /\ uploadHistory'.mixed = uploadHistory.mixed /\ uploadHistory'.stopped = uploadHistory.stopped
  BY <1>0, <1>2, <1>3 DEF UploadTypes, History
<1> QED
  BY <1>0, <1>2, <1>3, <1>4, MishapParts, RetryKeeps

LEMMA SettlesKeeps == ASSUME UploadInv, NEW b \in Batches, Settles(b) PROVE UploadInv'
<1>0. UploadTypes
  BY DEF UploadInv
<1>1. /\ usedSeen' \in Nat /\ uploadMishaps' \in 0..MaxUploadMishaps
      /\ UNCHANGED <<uploadTables, cancelled, closing, listed, cleanup, uploadHistory>>
  BY <1>0, UsedIsNat, MishapParts DEF Settles, UploadTypes
<1>2. PICK st \in {"stopped", "failed", "registering"} :
        /\ GoesOn(b, st) /\ batch[b].st \in {"stopping", "failing", "finishing"}
        /\ st = "stopped" <=> batch[b].st = "stopping"
        /\ st = "registering" <=> batch[b].st = "finishing"
        /\ UNCHANGED store \/ Shows("error") \/ Shows("registering")
  BY DEF Settles
<1>3. store' \in [status : Status, source : Batches \cup {NoBatch}] /\ store'.source = store.source
  BY <1>0, <1>2, ShowsParts DEF Status, UploadTypes
<1>4. st \in Stage /\ Quiet(b)
  BY <1>0, <1>2, GoesParts DEF Quiet, Ended, Whole, Stage
<1> QED
  BY <1>0, <1>1, <1>2, <1>3, <1>4, StageKeeps DEF uploadTables, Running, Underway, UploadTypes, Ended

LEMMA EncryptFailsKeeps == ASSUME UploadInv, NEW b \in Batches, EncryptFails(b) PROVE UploadInv'
<1>0. UploadTypes
  BY DEF UploadInv
<1>1. /\ batch[b].st = "encrypting" /\ UploadMishap /\ GoesOn(b, "failing") /\ Shows("error")
      /\ UNCHANGED <<uploadTables, usedSeen, cancelled, closing, listed, cleanup, uploadHistory>>
  BY DEF EncryptFails
<1>2. store' \in [status : Status, source : Batches \cup {NoBatch}] /\ store'.source = store.source
  BY <1>0, <1>1, ShowsParts DEF Status
<1>3. Quiet(b)
  BY <1>0, <1>1, GoesParts DEF Quiet, Ended, Whole, Stage
<1> QED
  BY <1>0, <1>1, <1>2, <1>3, MishapParts, StageKeeps
     DEF uploadTables, Running, Underway, Stage, UploadTypes, Ended

LEMMA RegisteredKeeps == ASSUME UploadInv, NEW b \in Batches, Registered(b) PROVE UploadInv'
<1>0. UploadTypes /\ TriesFit /\ SavedFits /\ ListFits /\ AloneFits /\ QuotaFits
  BY DEF UploadInv
<1>1. /\ batch[b].st = "registering" /\ GoesOn(b, "done") /\ Shows("success")
      /\ listed' = listed \cup ToSet(FilesOf[b])
      /\ UNCHANGED <<pinned, rows, requests, usedSeen, cancelled, closing, cleanup, uploadHistory, uploadMishaps>>
  BY DEF Registered, uploadTables
<1>2. ToSet(FilesOf[b]) = {f \in Files : BatchOf(f) = b}
  BY FileParts
<1>3. /\ batch' \in [Batches -> BatchState] /\ batch'[b].st = "done" /\ batch'[b].at = batch[b].at
      /\ \A c \in Batches : c # b => batch'[c] = batch[c]
  BY <1>0, <1>1, GoesParts DEF Stage
<1>4. store' \in [status : Status, source : Batches \cup {NoBatch}] /\ store'.source = store.source
  BY <1>0, <1>1, ShowsParts DEF Status
<1>5. \A c \in Batches : Quiet(c)
  BY <1>1, <1>3 DEF Quiet, Whole
<1>6. UploadTypes'
  BY <1>0, <1>1, <1>2, <1>3, <1>4, BatchTypes DEF UploadTypes
<1>7. TriesFit' /\ SavedFits'
  BY <1>0, <1>1, <1>5, QuietTries, QuietSaved
<1>8. ListFits'
  <2>1. /\ \A f \in Files : BatchOf(f) # b => Its(f)' = Its(f)
        /\ \A f \in Files : BatchOf(f) = b => Its(f)'.st = "done" /\ Its(f).st = "registering" /\ f \in listed'
        /\ \A f \in listed' : f \in listed \/ BatchOf(f) = b
        /\ listed' \subseteq Files
    BY <1>0, <1>1, <1>2, <1>3, FileParts DEF Its, UploadTypes
  <2>2. cleanup \subseteq Files /\ pinned \subseteq Files /\ listed \subseteq listed'
    BY <1>0, <1>1 DEF UploadTypes
  <2> QED
    BY <1>0, <1>1, <2>1, <2>2 DEF ListFits
<1>9. AloneFits'
  <2>1. \A c \in Batches : Running(c)' => Running(c)
    BY <1>1, <1>3 DEF Running
  <2>2. b \notin uploadHistory.mixed => b \notin uploadHistory.stopped
    BY <1>0, <1>1 DEF AloneFits, Ended
  <2> QED
    BY <1>0, <1>1, <1>3, <1>4, <2>1, <2>2 DEF AloneFits, Underway
<1>10. QuotaFits'
  BY <1>0, <1>1, QuotaStays
<1> QED
  BY <1>6, <1>7, <1>8, <1>9, <1>10 DEF UploadInv

LEMMA RegisterFailsKeeps == ASSUME UploadInv, NEW b \in Batches, RegisterFails(b) PROVE UploadInv'
<1>0. UploadTypes /\ TriesFit /\ SavedFits /\ ListFits /\ AloneFits /\ QuotaFits
  BY DEF UploadInv
<1>1. /\ batch[b].st = "registering" /\ GoesOn(b, "unlisted") /\ Shows("error") /\ UploadMishap
      /\ cleanup' = cleanup \cup ToSet(FilesOf[b])
      /\ UNCHANGED <<pinned, rows, requests, usedSeen, cancelled, closing>>
  BY DEF RegisterFails, uploadTables, CleanUp
<1>2. PICK part \in SUBSET ToSet(FilesOf[b]) :
        /\ listed' = listed \cup part
        /\ uploadHistory' = IF part = {} THEN uploadHistory
                            ELSE [uploadHistory EXCEPT !.muddled = @ \cup {b}]
  BY DEF RegisterFails
<1>3. ToSet(FilesOf[b]) = {f \in Files : BatchOf(f) = b}
  BY FileParts
<1>4. /\ batch' \in [Batches -> BatchState] /\ batch'[b].st = "unlisted" /\ batch'[b].at = batch[b].at
      /\ \A c \in Batches : c # b => batch'[c] = batch[c]
  BY <1>0, <1>1, GoesParts DEF Stage
<1>5. store' \in [status : Status, source : Batches \cup {NoBatch}] /\ store'.source = store.source
  BY <1>0, <1>1, ShowsParts DEF Status
<1>6. \A c \in Batches : Quiet(c)
  BY <1>1, <1>4 DEF Quiet, Whole
<1>7. /\ uploadHistory' \in History /\ uploadHistory'.retried = uploadHistory.retried
      /\ uploadHistory'.undone = uploadHistory.undone /\ uploadHistory'.crowded = uploadHistory.crowded
      /\ uploadHistory.muddled \subseteq uploadHistory'.muddled
      /\ (part # {} => b \in uploadHistory'.muddled)
      /\ uploadHistory'.mislaid = uploadHistory.mislaid
      /\ uploadHistory'.mixed = uploadHistory.mixed /\ uploadHistory'.stopped = uploadHistory.stopped
  BY <1>0, <1>2 DEF UploadTypes, History
<1>8. UploadTypes'
  BY <1>0, <1>1, <1>2, <1>3, <1>4, <1>5, <1>7, BatchTypes, MishapParts DEF UploadTypes
<1>9. TriesFit' /\ SavedFits'
  BY <1>0, <1>1, <1>6, <1>7, QuietTries, QuietSaved
<1>10. ListFits'
  <2>1. /\ \A f \in Files : BatchOf(f) # b => Its(f)' = Its(f)
        /\ \A f \in Files : BatchOf(f) = b => Its(f)'.st = "unlisted" /\ Its(f).st = "registering" /\ f \in cleanup'
        /\ \A f \in listed' : f \in listed \/ (BatchOf(f) = b /\ part # {})
        /\ \A f \in cleanup' : f \in cleanup \/ BatchOf(f) = b
        /\ listed' \subseteq Files /\ cleanup' \subseteq Files
    BY <1>0, <1>1, <1>2, <1>3, <1>4, FileParts DEF Its, UploadTypes
  <2>2. pinned \subseteq Files /\ listed \subseteq listed' /\ cleanup \subseteq cleanup'
    BY <1>0, <1>1, <1>2 DEF UploadTypes
  <2> QED
    BY <1>0, <1>1, <1>7, <2>1, <2>2 DEF ListFits
<1>11. AloneFits'
  <2>1. \A c \in Batches : Running(c)' => Running(c)
    BY <1>1, <1>4 DEF Running
  <2>2. b \notin uploadHistory.mixed => b \notin uploadHistory.stopped
    BY <1>0, <1>1 DEF AloneFits, Ended
  <2> QED
    BY <1>0, <1>1, <1>4, <1>5, <1>7, <2>1, <2>2 DEF AloneFits, Underway
<1>12. QuotaFits'
  BY <1>0, <1>1, <1>7, QuotaStays
<1> QED
  BY <1>8, <1>9, <1>10, <1>11, <1>12 DEF UploadInv

LEMMA CancelKeeps == ASSUME UploadInv, Cancel PROVE UploadInv'
<1>0. UploadTypes /\ TriesFit /\ SavedFits /\ ListFits /\ AloneFits /\ QuotaFits
  BY DEF UploadInv
<1>1. /\ Shows("cancelled") /\ cancelled' = cancelled \cup ({store.source} \ {NoBatch})
      /\ uploadHistory' = [uploadHistory EXCEPT !.stopped = @ \cup {b \in Batches : BeingSent(b)}]
      /\ UNCHANGED <<pinned, rows, requests, usedSeen, closing, listed, cleanup, uploadMishaps>>
  BY DEF Cancel, uploadTables
<1>2. batch' = [b \in Batches |->
                  IF batch[b].st = "sending" /\ batch[b].source \in cancelled'
                  THEN [batch[b] EXCEPT !.st = "stopping"] ELSE batch[b]]
  BY DEF Cancel
<1>3. store' \in [status : Status, source : Batches \cup {NoBatch}] /\ store'.source = store.source
  BY <1>0, <1>1, ShowsParts DEF Status
<1>4. \A b \in Batches :
        LET w == [batch[b] EXCEPT !.st = "stopping"] IN
        w \in BatchState /\ w.st = "stopping" /\ w.at = batch[b].at /\ w.source = batch[b].source
  BY <1>0 DEF UploadTypes, BatchState, Stage
<1>5. /\ batch' \in [Batches -> BatchState]
      /\ \A b \in Batches :
            /\ batch'[b].at = batch[b].at
            /\ \/ batch'[b] = batch[b] /\ ~(batch[b].st = "sending" /\ batch[b].source \in cancelled')
               \/ batch[b].st = "sending" /\ batch'[b].st = "stopping"
  BY <1>0, <1>2, <1>4 DEF UploadTypes
<1>6. \A b \in Batches : Quiet(b)
  BY <1>5 DEF Quiet, Ended
<1>7. /\ uploadHistory' \in History /\ uploadHistory'.retried = uploadHistory.retried
      /\ uploadHistory'.undone = uploadHistory.undone /\ uploadHistory'.crowded = uploadHistory.crowded
      /\ uploadHistory'.muddled = uploadHistory.muddled /\ uploadHistory'.mislaid = uploadHistory.mislaid
      /\ uploadHistory'.mixed = uploadHistory.mixed
      /\ uploadHistory'.stopped = uploadHistory.stopped \cup {b \in Batches : BeingSent(b)}
  BY <1>0, <1>1 DEF UploadTypes, History
<1>8. UploadTypes'
  <2>1. \A b \in Batches :
           batch'[b].at \in 1..Len(FilesOf[b]) /\ (batch'[b].st = "waiting" => batch'[b].try < MaxTries)
    BY <1>0, <1>5 DEF UploadTypes
  <2>2. cancelled' \subseteq Batches
    BY <1>0, <1>1 DEF UploadTypes
  <2> QED
    BY <1>0, <1>1, <1>3, <1>5, <1>7, <2>1, <2>2, BatchTypes DEF UploadTypes
<1>9. TriesFit' /\ SavedFits'
  BY <1>0, <1>1, <1>6, <1>7, QuietTries, QuietSaved
<1>10. ListFits'
  BY <1>0, <1>1, <1>5, <1>7, ListStays
<1>11. AloneFits'
  <2>1. \A b \in Batches : Running(b)' => Running(b)
    BY <1>5 DEF Running
  <2>2. ASSUME NEW b \in Batches, b \notin uploadHistory.mixed
        PROVE  /\ batch'[b].st \in Underway => store.source = b /\ batch'[b].source = b
               /\ b \in uploadHistory'.stopped =>
                  \/ batch'[b].st \in Ended
                  \/ batch'[b].st \in {"encrypting", "waiting"} /\ b \in cancelled'
    <3>1. batch[b].st \in Underway => store.source = b /\ batch[b].source = b
      BY <1>0, <2>2 DEF AloneFits
    <3>2. batch'[b].st \in Underway => store.source = b /\ batch'[b].source = b
      BY <1>5, <3>1 DEF Underway
    <3>3. BeingSent(b) => batch[b].st \in Underway /\ b \in cancelled'
      BY <1>1, <3>1, UploadAssumption DEF BeingSent, Underway
    <3>4. CASE BeingSent(b)
      BY <1>5, <3>1, <3>2, <3>3, <3>4 DEF Underway, Ended
    <3>5. CASE ~BeingSent(b)
      <4>1. batch'[b] = batch[b] /\ (b \in uploadHistory'.stopped => b \in uploadHistory.stopped)
        BY <1>5, <1>7, <3>5 DEF BeingSent
      <4> QED
        BY <1>0, <1>1, <2>2, <3>2, <4>1 DEF AloneFits
    <3> QED
      BY <3>4, <3>5
  <2> QED
    BY <1>0, <1>3, <1>7, <2>1, <2>2 DEF AloneFits
<1>12. QuotaFits'
  BY <1>0, <1>1, <1>7, QuotaStays
<1> QED
  BY <1>8, <1>9, <1>10, <1>11, <1>12 DEF UploadInv

(* The modal alone                                                          *)
LEMMA ModalKeeps ==
    ASSUME UploadInv,
           \/ \E b \in Batches : Progress(b)
           \/ AutoHide \/ Close \/ Closed \/ UNCHANGED uploadsVars
    PROVE  UploadInv'
<1>0. UploadTypes /\ TriesFit /\ SavedFits /\ ListFits /\ AloneFits /\ QuotaFits
  BY DEF UploadInv
<1>1. UNCHANGED <<pinned, rows, requests, batch, usedSeen, cancelled, listed, cleanup, uploadMishaps>>
  BY DEF Progress, AutoHide, Close, Closed, uploadsVars, uploadTables
<1>2. closing' \in BOOLEAN
  BY <1>0 DEF Progress, AutoHide, Close, Closed, uploadsVars, UploadTypes
<1>3. CASE Resets
  <2>1. store' = IdleStore
        /\ uploadHistory' = [uploadHistory EXCEPT !.mixed = @ \cup {b \in Batches : Running(b)}]
    BY <1>3 DEF Resets
  <2>2. store' \in [status : Status, source : Batches \cup {NoBatch}]
    BY <2>1 DEF IdleStore, Status
  <2>3. /\ uploadHistory' \in History /\ uploadHistory'.retried = uploadHistory.retried
        /\ uploadHistory'.undone = uploadHistory.undone /\ uploadHistory'.crowded = uploadHistory.crowded
        /\ uploadHistory'.muddled = uploadHistory.muddled /\ uploadHistory'.mislaid = uploadHistory.mislaid
        /\ uploadHistory'.mixed = uploadHistory.mixed \cup {b \in Batches : Running(b)}
        /\ uploadHistory'.stopped = uploadHistory.stopped
    BY <1>0, <2>1 DEF UploadTypes, History
  <2>4. UploadTypes'
    BY <1>0, <1>1, <1>2, <2>2, <2>3 DEF UploadTypes
  <2>5. TriesFit' /\ SavedFits' /\ ListFits' /\ QuotaFits'
    BY <1>0, <1>1, <2>3 DEF TriesFit, SavedFits, ListFits, QuotaFits, Its, Unsent, Passed, Now, Safe, Used
  <2>6. AloneFits'
    <3>1. \A b \in Batches : batch[b].st \in Underway => Running(b)
      BY DEF Running, Underway
    <3>2. \A b \in Batches : Running(b)' = Running(b)
      BY <1>1 DEF Running
    <3> QED
      BY <1>0, <1>1, <2>3, <3>1, <3>2 DEF AloneFits
  <2> QED
    BY <2>4, <2>5, <2>6 DEF UploadInv
<1>4. CASE store'.source = store.source /\ store' \in [status : Status, source : Batches \cup {NoBatch}]
           /\ uploadHistory' = uploadHistory
  <2>1. UploadTypes'
    BY <1>0, <1>1, <1>2, <1>4 DEF UploadTypes
  <2>2. TriesFit' /\ SavedFits' /\ ListFits' /\ QuotaFits'
    BY <1>0, <1>1, <1>4 DEF TriesFit, SavedFits, ListFits, QuotaFits, Its, Unsent, Passed, Now, Safe, Used
  <2>3. AloneFits'
    BY <1>0, <1>1, <1>4, BatchesStay
  <2> QED
    BY <2>1, <2>2, <2>3 DEF UploadInv
<1>5. Resets \/ (uploadHistory' = uploadHistory /\ (store' = store \/ Shows("uploading")))
  BY DEF Progress, AutoHide, Close, Closed, uploadsVars
<1>6. store' = store \/ Shows("uploading") =>
        store'.source = store.source /\ store' \in [status : Status, source : Batches \cup {NoBatch}]
  BY <1>0, ShowsParts DEF UploadTypes, Status
<1> QED
  BY <1>3, <1>4, <1>5, <1>6

LEMMA UploadStep == UploadInv /\ [UploadsNext]_uploadsVars => UploadInv'
<1> SUFFICES ASSUME UploadInv, [UploadsNext]_uploadsVars PROVE UploadInv'
  OBVIOUS
<1>1. ASSUME NEW r \in requests,
             \/ Check(r) \/ Pin(r) \/ PinFails(r) \/ Record(r) \/ RecordFails(r) \/ Vanishes(r)
             \/ Accepted(BatchOf(r.file), r) \/ Refused(BatchOf(r.file), r)
      PROVE  UploadInv'
  BY <1>1, CheckKeeps, PinKeeps, PinFailsKeeps, RecordKeeps, RecordFailsKeeps, AcceptedKeeps, RefusedKeeps
<1>2. ASSUME NEW b \in Batches,
             \/ Drop(b) \/ Asked(b) \/ Send(b) \/ Progress(b) \/ Lost(b)
             \/ EncryptFails(b) \/ Settles(b) \/ Registered(b) \/ RegisterFails(b)
      PROVE  UploadInv'
  BY <1>2, DropKeeps, AskedKeeps, SendKeeps, ModalKeeps, LostKeeps, EncryptFailsKeeps, SettlesKeeps,
     RegisteredKeeps, RegisterFailsKeeps
<1> QED
  BY <1>1, <1>2, UnpinKeeps, CancelKeeps, ModalKeeps DEF UploadsNext

LEMMA UploadInvariant == UploadsSpec => []UploadInv
BY UploadStartHolds, UploadStep, PTL DEF UploadsSpec

(* The state of uploads has its types: no attempt is numbered above          *)
(* MAX_RETRIES, on the server or in the tab.                                *)
THEOREM UploadsTypeCorrect == UploadsSpec => []UploadsTypeOK
<1>1. UploadInv => UploadsTypeOK
  <2> SUFFICES ASSUME UploadInv PROVE UploadsTypeOK
    OBVIOUS
  <2>1. BatchState \subseteq [st : Stage, at : Nat, try : Nat, source : Batches \cup {NoBatch}]
    BY DEF BatchState
  <2> QED
    BY <2>1 DEF UploadInv, UploadTypes, UploadsTypeOK
<1> QED
  BY <1>1, UploadInvariant, PTL

(* However many batches run at once, attempts are repeated, answers lost and *)
(* rows refused: the content of a listed file is pinned, but for what the   *)
(* property names.                                                          *)
THEOREM ListedFilesPinned == UploadsSpec => []ListedReadable
<1>1. UploadInv => ListedReadable
  BY FileParts DEF UploadInv, ListedReadable, ListFits, SavedFits, UploadTypes, Passed, Safe, Whole
<1> QED
  BY <1>1, UploadInvariant, PTL

(* What could not be registered is unpinned.                                *)
THEOREM NoOrphansStay == UploadsSpec => []NoOrphans
<1>1. UploadInv => NoOrphans
  BY DEF UploadInv, NoOrphans, ListFits, UploadTypes, Its
<1> QED
  BY <1>1, UploadInvariant, PTL

(* A batch that ran alone and was cancelled while being sent is not listed. *)
THEOREM CancelsAreHeeded == UploadsSpec => []CancelHeeded
<1>1. UploadInv => CancelHeeded
  <2> SUFFICES ASSUME UploadInv, NEW b \in uploadHistory.stopped \ uploadHistory.mixed,
                      NEW f \in ToSet(FilesOf[b]), f \in listed
               PROVE  FALSE
    BY DEF CancelHeeded
  <2>1. b \in Batches
    BY DEF UploadInv, UploadTypes, History
  <2>2. BatchOf(f) = b
    BY <2>1, FileParts
  <2>3. batch[b].st \in Ended \cup {"encrypting", "waiting"}
    BY <2>1 DEF UploadInv, AloneFits
  <2> QED
    BY <2>2, <2>3 DEF UploadInv, ListFits, Its, Ended
<1> QED
  BY <1>1, UploadInvariant, PTL

(* The quota's overrun is bounded by one file's overhead, unless two uploads *)
(* were between the check and the row at once.                              *)
THEOREM QuotaIsKept == UploadsSpec => []QuotaWithin
<1>1. UploadInv => QuotaWithin
  BY DEF UploadInv, QuotaFits, QuotaWithin
<1> QED
  BY <1>1, UploadInvariant, PTL
=============================================================================
