---------------------------- MODULE Sharing_proofs ----------------------------
(* Theorems about FileVersions, Shares, SharedView and Streaming for any     *)
(* number of dialogs, tabs, recipients, items, folders, players and files,  *)
(* and whatever is lost on the way.                                         *)
EXTENDS FileVersions, Shares, SharedView, Streaming, SequenceTheorems, FiniteSetTheorems, TLAPS

-----------------------------------------------------------------------------
(* Shares: the parts of the state                                           *)

(* A dialog that saved a row and a call that found one know which, and an   *)
(* item that looks for shares which tab it was added in                     *)
HaveIds ==
    /\ \A i \in Items : job[i].step \in {"find", "asked"} => job[i].tab \in Tabs
    /\ \A t \in Tabs : dialog[t].step = "saved" => dialog[t].id \in Ids
    /\ \A a \in Actors : call[a].kind # "none" => call[a].id \in Ids

LEMMA SharesParts ==
    /\ NoRow \in Row /\ NoCall \in Call /\ NoDialog \in Dialog /\ NoRotation \in Rotation
    /\ Nobody = 0 /\ 0 \in Keys /\ 0 \notin Ids
<1>1. 0 \in Keys /\ 0 \notin Ids /\ Nobody = 0
  BY SharesAssumption DEF Keys, Ids, Nobody
<1> QED
  BY <1>1 DEF NoRow, Row, NoCall, Call, NoDialog, Dialog, NoRotation, Rotation

LEMMA RowParts ==
    ASSUME NEW w \in Row, NEW k \in Keys
    PROVE  /\ [w EXCEPT !.state = "revoked"] \in Row /\ [w EXCEPT !.hidden = TRUE] \in Row
           /\ [w EXCEPT !.key = k] \in Row
           /\ [w EXCEPT !.state = "revoked"].state = "revoked"
           /\ [w EXCEPT !.hidden = TRUE].state = w.state /\ [w EXCEPT !.key = k].state = w.state
BY DEF Row

LEMMA DialogParts ==
    ASSUME NEW d \in Dialog, NEW s \in Ids
    PROVE  /\ [d EXCEPT !.step = "checked"] \in Dialog
           /\ [d EXCEPT !.step = "looked"] \in Dialog
           /\ [d EXCEPT !.step = "saved", !.id = s] \in Dialog
           /\ d.items \subseteq Items /\ d.key \in Keys /\ d.to \in Recipients \cup {Nobody}
           /\ d.id \in Ids \cup {Nobody}
<1> DEFINE e == [d EXCEPT !.step = "saved"]
<1>1. e \in Dialog /\ [d EXCEPT !.step = "saved", !.id = s] = [e EXCEPT !.id = s]
  BY DEF Dialog
<1> HIDE DEF e
<1>2. [e EXCEPT !.id = s] \in Dialog
  BY <1>1 DEF Dialog
<1> QED
  BY <1>1, <1>2 DEF Dialog

LEMMA JobParts ==
    ASSUME NEW j \in Job, NEW st \in {"none", "find", "asked", "serve"}, NEW l \in SUBSET Ids
    PROVE  /\ [j EXCEPT !.step = st, !.list = l] \in Job
           /\ [j EXCEPT !.step = st, !.list = l].step = st
           /\ [j EXCEPT !.step = st, !.list = l].list = l
           /\ j.list \subseteq Ids /\ j.step \in {"none", "find", "asked", "serve"}
<1> DEFINE e == [j EXCEPT !.step = st]
<1>1. e \in Job /\ e.step = st /\ [j EXCEPT !.step = st, !.list = l] = [e EXCEPT !.list = l]
  BY DEF Job
<1> HIDE DEF e
<1>2. [e EXCEPT !.list = l] \in Job /\ [e EXCEPT !.list = l].list = l
      /\ [e EXCEPT !.list = l].step = e.step
  BY <1>1 DEF Job
<1> QED
  BY <1>1, <1>2 DEF Job

LEMMA RotationParts ==
    ASSUME NEW r \in Rotation, NEW l \in SUBSET Ids
    PROVE  /\ RotationStage(r) \in Rotation /\ r.key \in Keys
           /\ [r EXCEPT !.left = l] \in Rotation /\ [r EXCEPT !.revoked = l] \in Rotation
           /\ [r EXCEPT !.left = l, !.failed = TRUE] \in Rotation
<1> DEFINE q == [r EXCEPT !.left = l]
           st == IF r.left # {} THEN "update" ELSE IF r.revoked # {} THEN "complete" ELSE "publish"
<1>1. q \in Rotation /\ [r EXCEPT !.left = l, !.failed = TRUE] = [q EXCEPT !.failed = TRUE]
  BY DEF Rotation
<1>2. [r EXCEPT !.left = l] \in Rotation /\ [r EXCEPT !.revoked = l] \in Rotation /\ r.key \in Keys
  BY DEF Rotation
<1>3. RotationStage(r) \in {NoRotation, [r EXCEPT !.step = st]}
  BY DEF RotationStage
<1>4. st \in {"update", "complete", "publish"}
  OBVIOUS
<1> HIDE DEF q, st
<1>5. [q EXCEPT !.failed = TRUE] \in Rotation
  BY <1>1 DEF Rotation
<1>6. [r EXCEPT !.step = st] \in Rotation
  BY <1>4 DEF Rotation
<1> QED
  BY <1>1, <1>2, <1>3, <1>5, <1>6, SharesParts

LEMMA StateParts ==
    ASSUME SharesTypeOK
    PROVE  /\ \A s \in Ids : shares[s] \in Row /\ itemKeys[s] \subseteq Items
           /\ \A a \in Actors : call[a] \in Call /\ call[a].was \in Row
                                /\ call[a].id \in Ids \cup {Nobody} /\ call[a].was.to \in Recipients \cup {Nobody}
           /\ \A t \in Tabs : /\ dialog[t] \in Dialog /\ rotation[t] \in Rotation /\ t \in Actors
                              /\ sentShares[t] \in [known : SUBSET Ids, fetched : BOOLEAN]
                              /\ sentShares[t].known \subseteq Ids
           /\ \A i \in Items : job[i] \in Job
           /\ Active \subseteq Ids /\ Revoked \subseteq Ids
<1>1. \A s \in Ids : shares[s] \in Row /\ itemKeys[s] \subseteq Items
  BY DEF SharesTypeOK
<1>2. \A a \in Actors : call[a] \in Call
  BY DEF SharesTypeOK
<1>3. \A t \in Tabs : /\ dialog[t] \in Dialog /\ rotation[t] \in Rotation /\ t \in Actors
                      /\ sentShares[t] \in [known : SUBSET Ids, fetched : BOOLEAN]
  BY DEF SharesTypeOK, Actors
<1>4. \A i \in Items : job[i] \in Job
  BY DEF SharesTypeOK
<1>5. \A a \in Actors : call[a].was \in Row /\ call[a].id \in Ids \cup {Nobody}
  BY <1>2 DEF Call
<1>6. \A w \in Row : w.to \in Recipients \cup {Nobody}
  BY DEF Row
<1>7. \A t \in Tabs : sentShares[t].known \subseteq Ids
  BY <1>3
<1> QED
  BY <1>1, <1>2, <1>3, <1>4, <1>5, <1>6, <1>7 DEF Active, Revoked

-----------------------------------------------------------------------------
(* Shares: type correctness                                                 *)

LEMMA MishapOK ==
    ASSUME SharesTypeOK, shareMishaps < MaxShareMishaps, shareMishaps' = shareMishaps + 1
    PROVE  shareMishaps' \in 0..MaxShareMishaps
BY SharesAssumption DEF SharesTypeOK

LEMMA RowsOK ==
    ASSUME SharesTypeOK
    PROVE  /\ \A gone : RowsWithout(gone) =>
                 shares' \in [Ids -> Row] /\ itemKeys' \in [Ids -> SUBSET Items]
           /\ \A row \in Row : \A s : Written(row, s) => shares' \in [Ids -> Row]
           /\ \A a \in Actors : \A s \in Ids :
                 \A kind \in {"revoke", "hide", "update", "complete"} :
                    Finds(a, kind, s) => call' \in [Actors -> Call]
<1>1. ASSUME NEW gone, RowsWithout(gone)
      PROVE  shares' \in [Ids -> Row] /\ itemKeys' \in [Ids -> SUBSET Items]
  BY <1>1, StateParts, SharesParts DEF RowsWithout
<1>2. ASSUME NEW row \in Row, NEW s, Written(row, s)
      PROVE  shares' \in [Ids -> Row]
  BY <1>2 DEF Written, SharesTypeOK
<1>3. ASSUME NEW a \in Actors, NEW s \in Ids, NEW kind \in {"revoke", "hide", "update", "complete"},
             Finds(a, kind, s)
      PROVE  call' \in [Actors -> Call]
  <2>1. [kind |-> kind, id |-> s, was |-> shares[s]] \in Call
    BY StateParts DEF Call
  <2> QED
    BY <1>3, <2>1 DEF Finds, SharesTypeOK
<1> QED
  BY <1>1, <1>2, <1>3

(* Creating a share                                                         *)
LEMMA CreatesOK ==
    ASSUME SharesTypeOK, HaveIds, NEW t \in Tabs,
           \/ \E r \in Recipients : ShareStart(t, r)
           \/ CreateCheck(t) \/ CreateClean(t) \/ CreateSave(t) \/ Created(t) \/ CreateFails(t)
    PROVE  SharesTypeOK'
<1> USE StateParts, SharesParts DEF shareTables, shareHistory
<1>1. Shut(t) => dialog' \in [Tabs -> Dialog]
  BY DEF Shut, SharesTypeOK
<1>2. ASSUME NEW r \in Recipients, ShareStart(t, r) PROVE SharesTypeOK'
  <2>1. [step |-> "traversed", to |-> r, items |-> Traversed, key |-> sealed, id |-> Nobody] \in Dialog
    BY DEF Dialog, Traversed, SharesTypeOK
  <2>2. dialog' \in [Tabs -> Dialog]
    BY <1>2, <2>1 DEF ShareStart, SharesTypeOK
  <2> QED
    BY <1>2, <2>2 DEF ShareStart, SharesTypeOK
<1>3. CASE CreateCheck(t) \/ CreateClean(t)
  <2> DEFINE d == [dialog[t] EXCEPT !.step = "looked"]
             e == [dialog[t] EXCEPT !.step = "checked"]
  <2>1. d \in Dialog /\ e \in Dialog
    BY DEF Dialog
  <2>2. /\ Shut(t) \/ dialog' = [dialog EXCEPT ![t] = d] \/ dialog' = [dialog EXCEPT ![t] = e]
        /\ RowsWithout(Cleaned(dialog[t].to)) \/ UNCHANGED <<shares, itemKeys>>
    BY <1>3 DEF CreateCheck, CreateClean
  <2> HIDE DEF d, e
  <2>3. dialog' \in [Tabs -> Dialog]
    BY <1>1, <2>1, <2>2 DEF SharesTypeOK
  <2>4. shares' \in [Ids -> Row] /\ itemKeys' \in [Ids -> SUBSET Items]
    BY <2>2, RowsOK DEF SharesTypeOK
  <2> QED
    BY <1>3, <2>3, <2>4 DEF CreateCheck, CreateClean, SharesTypeOK
<1>4. CASE CreateSave(t)
  <2> DEFINE d == dialog[t]
             s == made + 1
             e == [d EXCEPT !.step = "saved", !.id = s]
             row == [state |-> "active", to |-> d.to, key |-> d.key, hidden |-> FALSE]
  <2>1. CASE Taken(d.to, Nobody)
    BY <1>1, <1>4, <2>1 DEF CreateSave, SharesTypeOK
  <2>2. CASE ~Taken(d.to, Nobody)
    <3>1. s \in Ids /\ s \in 0..MaxShares /\ made' = s
      BY <1>4, <2>2, SharesAssumption DEF CreateSave, SharesTypeOK, Ids
    <3> HIDE DEF s
    <3>2. e \in Dialog /\ d.items \subseteq Items /\ d.key \in Keys /\ d.to \in Recipients \cup {Nobody}
      BY <3>1, DialogParts
    <3>3. row \in Row
      BY <3>2 DEF Row
    <3>4. shares' = [shares EXCEPT ![s] = row] /\ given' = given \cup {<<d.to, d.key>>}
          /\ raced' \in BOOLEAN
      BY <1>4, <2>2 DEF CreateSave, s
    <3>5. \/ /\ itemKeys' = [itemKeys EXCEPT ![s] = d.items]
             /\ dialog' = [dialog EXCEPT ![t] = e]
             /\ gaps' = gaps \cup ({s} \X Overlooked(t)) /\ UNCHANGED shareMishaps
          \/ /\ shareMishaps < MaxShareMishaps /\ shareMishaps' = shareMishaps + 1
             /\ gaps' = gaps \cup ({s} \X Items) /\ Shut(t) /\ UNCHANGED itemKeys
      BY <1>4, <2>2 DEF CreateSave, s
    <3>6. Overlooked(t) \subseteq Items
      BY DEF Overlooked, SharesTypeOK
    <3>7. UNCHANGED <<folder, sealed, newest, sentShares, call, job, rotation>>
      BY <1>4 DEF CreateSave
    <3> HIDE DEF e, row
    <3>8. /\ shares' \in [Ids -> Row] /\ itemKeys' \in [Ids -> SUBSET Items]
          /\ dialog' \in [Tabs -> Dialog]
      <4>1. shares' \in [Ids -> Row]
        BY <3>2, <3>3, <3>4 DEF SharesTypeOK
      <4>2. itemKeys' \in [Ids -> SUBSET Items]
        BY <3>2, <3>5 DEF SharesTypeOK
      <4>3. dialog' \in [Tabs -> Dialog]
        BY <1>1, <3>1, <3>2, <3>3, <3>5 DEF SharesTypeOK
      <4> QED
        BY <4>1, <4>2, <4>3
    <3>9. gaps' \subseteq Ids \X Items /\ given' \subseteq (Recipients \cup {Nobody}) \X Keys
          /\ shareMishaps' \in 0..MaxShareMishaps
      BY <3>1, <3>2, <3>4, <3>5, <3>6, MishapOK DEF SharesTypeOK
    <3> HIDE DEF d
    <3> QED
      BY <3>1, <3>4, <3>7, <3>8, <3>9 DEF SharesTypeOK
  <2> QED
    BY <2>1, <2>2
<1>5. CASE Created(t)
  <2> DEFINE w == [sentShares[t] EXCEPT !.known = sentShares[t].known \cup {dialog[t].id}]
  <2>1. dialog[t].id \in Ids
    BY <1>5 DEF Created, HaveIds
  <2>2. w \in [known : SUBSET Ids, fetched : BOOLEAN]
    BY <2>1
  <2>3. sentShares' = [sentShares EXCEPT ![t] = w]
    BY <1>5 DEF Created
  <2> HIDE DEF w
  <2>4. sentShares' \in [Tabs -> [known : SUBSET Ids, fetched : BOOLEAN]]
    BY <2>2, <2>3 DEF SharesTypeOK
  <2> QED
    BY <1>1, <1>5, <2>4 DEF Created, SharesTypeOK
<1>6. CASE CreateFails(t)
  BY <1>1, <1>6, MishapOK DEF CreateFails, SharesTypeOK
<1> QED
  BY <1>2, <1>3, <1>4, <1>5, <1>6

(* Revoking and hiding                                                      *)
LEMMA RevokesOK ==
    ASSUME SharesTypeOK, HaveIds,
           \/ \E t \in Tabs, s \in Ids : Revoke(t, s)
           \/ \E r \in Recipients, s \in Ids : HideRow(r, s)
           \/ \E a \in Actors : SaveRow(a)
    PROVE  SharesTypeOK'
<1> USE StateParts, SharesParts, RowParts DEF shareTables, shareHistory
<1>1. ASSUME NEW t \in Tabs, NEW s \in Ids, Revoke(t, s) PROVE SharesTypeOK'
  <2>1. call' \in [Actors -> Call]
    BY <1>1, RowsOK DEF Revoke
  <2> QED
    BY <1>1, <2>1 DEF Revoke, SharesTypeOK
<1>2. ASSUME NEW r \in Recipients, NEW s \in Ids, HideRow(r, s) PROVE SharesTypeOK'
  <2>1. call' \in [Actors -> Call]
    BY <1>2, RowsOK DEF HideRow, Actors
  <2> QED
    BY <1>2, <2>1 DEF HideRow, SharesTypeOK
<1>3. ASSUME NEW a \in Actors, SaveRow(a) PROVE SharesTypeOK'
  <2> DEFINE c == call[a]
             w == [sentShares[a] EXCEPT !.known = sentShares[a].known \ {c.id}]
  <2>1. c.was \in Row /\ c.id \in Ids /\ 0 \in Keys
    BY <1>3 DEF SaveRow, HaveIds
  <2>2. shares' \in [Ids -> Row]
    <3>1. [c.was EXCEPT !.state = "revoked"] \in Row /\ [c.was EXCEPT !.hidden = TRUE] \in Row
      BY <2>1
    <3>2. \/ Written([c.was EXCEPT !.state = "revoked"], c.id)
          \/ Written([c.was EXCEPT !.hidden = TRUE], c.id)
      BY <1>3 DEF SaveRow
    <3> QED
      BY <3>1, <3>2, RowsOK
  <2>3. sentShares' \in [Tabs -> [known : SUBSET Ids, fetched : BOOLEAN]]
    <3>1. sentShares' = sentShares \/ sentShares' = [sentShares EXCEPT ![a] = w]
      BY <1>3 DEF SaveRow
    <3>2. a \in Tabs => w \in [known : SUBSET Ids, fetched : BOOLEAN]
      OBVIOUS
    <3> HIDE DEF w
    <3> QED
      BY <3>1, <3>2 DEF SharesTypeOK
  <2>4. call' \in [Actors -> Call]
    BY <1>3 DEF SaveRow, SharesTypeOK
  <2>5. gaps' \subseteq Ids \X Items /\ raced' \in BOOLEAN
    BY <1>3, <2>1 DEF SaveRow, Undone, SharesTypeOK
  <2> QED
    BY <1>3, <2>2, <2>3, <2>4, <2>5 DEF SaveRow, SharesTypeOK
<1> QED
  BY <1>1, <1>2, <1>3

(* Items that are added                                                     *)
LEMMA ItemsOK ==
    ASSUME SharesTypeOK, HaveIds, NEW i \in Items,
           \/ \E t \in Tabs : AddItem(t, i)
           \/ JobFind(i) \/ SentShares(i) \/ SentSharesFail(i)
           \/ \E s \in Ids : AddShareKeys(i, s) \/ AddKeysFails(i, s)
    PROVE  SharesTypeOK'
<1> USE StateParts, SharesParts DEF shareTables, shareHistory
<1>1. ASSUME NEW t \in Tabs, AddItem(t, i) PROVE SharesTypeOK'
  <2>1. [step |-> "find", tab |-> t, list |-> {}] \in Job
    BY DEF Job
  <2> QED
    BY <1>1, <2>1 DEF AddItem, SharesTypeOK
<1>2. ASSUME NEW st \in {"none", "find", "asked", "serve"}, NEW l \in SUBSET Ids,
             job' = [job EXCEPT ![i].step = st, ![i].list = l]
      PROVE  job' \in [Items -> Job]
  <2> DEFINE e == [job[i] EXCEPT !.step = st, !.list = l]
  <2>1. job[i] \in Job
    OBVIOUS
  <2>2. e \in Job
    BY <2>1, JobParts
  <2>3. job' = [job EXCEPT ![i] = e]
    BY <1>2
  <2> HIDE DEF e
  <2> QED
    BY <2>2, <2>3 DEF SharesTypeOK
<1>3. ASSUME NEW l \in SUBSET Ids, Serve(i, l)
      PROVE  job' \in [Items -> Job] /\ gaps' \subseteq Ids \X Items
  <2>1. job' \in [Items -> Job]
    <3>1. CASE l = {}
      BY <1>2, <1>3, <3>1 DEF Serve, Covering
    <3>2. CASE l # {}
      BY <1>2, <1>3, <3>2 DEF Serve, Covering
    <3> QED
      BY <3>1, <3>2
  <2> QED
    BY <1>3, <2>1 DEF Serve, SharesTypeOK
<1>4. CASE JobFind(i)
  <2> DEFINE known == sentShares[job[i].tab]
  <2>1. known.known \subseteq Ids
    BY <1>4 DEF JobFind, HaveIds
  <2>2. job' \in [Items -> Job] /\ gaps' \subseteq Ids \X Items
    <3>1. CASE Serve(i, known.known)
      BY <1>3, <2>1, <3>1
    <3>2. CASE job' = [job EXCEPT ![i].step = "asked", ![i].list = Active] /\ UNCHANGED gaps
      BY <1>2, <3>2 DEF SharesTypeOK
    <3> QED
      BY <1>4, <3>1, <3>2 DEF JobFind
  <2> QED
    BY <1>4, <2>2 DEF JobFind, SharesTypeOK
<1>5. CASE SentShares(i)
  <2> DEFINE l == job[i].list
             w == [known |-> l, fetched |-> TRUE]
  <2>1. job[i].tab \in Tabs /\ l \subseteq Ids
    BY <1>5 DEF SentShares, HaveIds, Job
  <2>2. w \in [known : SUBSET Ids, fetched : BOOLEAN]
    BY <2>1
  <2>3. sentShares' = [sentShares EXCEPT ![job[i].tab] = w] /\ Serve(i, l)
    BY <1>5 DEF SentShares
  <2> HIDE DEF w, l
  <2>4. job' \in [Items -> Job] /\ gaps' \subseteq Ids \X Items
    BY <1>3, <2>1, <2>3
  <2>5. sentShares' \in [Tabs -> [known : SUBSET Ids, fetched : BOOLEAN]]
    BY <2>1, <2>2, <2>3 DEF SharesTypeOK
  <2> QED
    BY <1>5, <2>4, <2>5 DEF SentShares, SharesTypeOK
<1>6. ASSUME NEW s \in Ids, AddShareKeys(i, s) \/ AddKeysFails(i, s) PROVE SharesTypeOK'
  <2> DEFINE e == [job[i] EXCEPT !.list = job[i].list \ {s}]
             st == IF job[i].list = {s} THEN "none" ELSE job[i].step
             f == [e EXCEPT !.step = st]
  <2>1. e \in Job /\ e.step = job[i].step /\ job[i].step \in {"none", "find", "asked", "serve"}
    BY DEF Job
  <2>2. f \in Job
    <3> HIDE DEF e
    <3> QED
      BY <2>1 DEF Job
  <2>3. Served(i, s)
    BY <1>6 DEF AddShareKeys, AddKeysFails
  <2>4. job' = [job EXCEPT ![i] = f]
    BY <2>1, <2>3 DEF Served, SharesTypeOK
  <2> HIDE DEF f
  <2>5. job' \in [Items -> Job]
    BY <2>2, <2>4 DEF SharesTypeOK
  <2>6. /\ itemKeys' \in [Ids -> SUBSET Items] /\ gaps' \subseteq Ids \X Items
        /\ shareMishaps' \in 0..MaxShareMishaps
    BY <1>6, MishapOK DEF AddShareKeys, AddKeysFails, SharesTypeOK
  <2> QED
    BY <1>6, <2>5, <2>6 DEF AddShareKeys, AddKeysFails, SharesTypeOK
<1>7. CASE SentSharesFail(i)
  <2>1. job' \in [Items -> Job] /\ gaps' \subseteq Ids \X Items
    BY <1>3, <1>7 DEF SentSharesFail
  <2> QED
    BY <1>7, <2>1, MishapOK DEF SentSharesFail, SharesTypeOK
<1> QED
  BY <1>1, <1>4, <1>5, <1>6, <1>7

(* Rotation                                                                 *)
LEMMA RotatesOK ==
    ASSUME SharesTypeOK, HaveIds, NEW t \in Tabs,
           \/ RotateStart(t) \/ RotateUpdates(t) \/ RotateCompletes(t) \/ RotatePublish(t)
           \/ RotateFails(t)
           \/ \E s \in Ids : RotateFinds(t, s) \/ RotateMisses(t, s)
    PROVE  SharesTypeOK'
<1> USE StateParts, SharesParts DEF shareTables, shareHistory
<1>1. ASSUME NEW r, r \in Rotation, rotation' = [rotation EXCEPT ![t] = RotationStage(r)]
      PROVE  rotation' \in [Tabs -> Rotation]
  <2>1. RotationStage(r) \in Rotation
    BY <1>1, RotationParts
  <2> QED
    BY <1>1, <2>1 DEF SharesTypeOK
<1>2. ASSUME NEW l \in SUBSET Ids
      PROVE  /\ [rotation[t] EXCEPT !.left = l] \in Rotation
             /\ [rotation[t] EXCEPT !.revoked = l] \in Rotation
             /\ [rotation[t] EXCEPT !.left = l, !.failed = TRUE] \in Rotation
             /\ rotation[t].key \in Keys /\ rotation[t].left \subseteq Ids
             /\ rotation[t].revoked \subseteq Ids
  <2>1. rotation[t] \in Rotation
    OBVIOUS
  <2> QED
    BY <2>1, RotationParts DEF Rotation
<1>3. rotation' = [rotation EXCEPT ![t] = NoRotation] => rotation' \in [Tabs -> Rotation]
  BY DEF SharesTypeOK
<1>4. call' = [call EXCEPT ![t] = NoCall] => call' \in [Actors -> Call]
  BY DEF SharesTypeOK
<1>5. CASE RotateStart(t)
  <2>1. PICK list \in {Active} \cup {sentShares[o].known : o \in {t} \cap Fetched} :
          /\ newest < MaxKeys /\ newest' = newest + 1
          /\ rotation' = [rotation EXCEPT ![t] = RotationStage([step |-> "update", key |-> newest + 1,
                                                  left |-> list \ Revoked, revoked |-> Revoked,
                                                  failed |-> FALSE])]
          /\ sentShares' = [sentShares EXCEPT ![t] = [known |-> list, fetched |-> TRUE]]
          /\ raced' \in BOOLEAN
          /\ UNCHANGED <<shareTables, folder, sealed, dialog, call, job, given, gaps, shareMishaps>>
    BY <1>5 DEF RotateStart
  <2> DEFINE r == [step |-> "update", key |-> newest + 1, left |-> list \ Revoked, revoked |-> Revoked,
                   failed |-> FALSE]
             w == [known |-> list, fetched |-> TRUE]
  <2>2. list \subseteq Ids
    OBVIOUS
  <2>3. newest + 1 \in Keys
    BY <2>1, SharesAssumption DEF SharesTypeOK, Keys
  <2>4. r \in Rotation
    BY <2>2, <2>3 DEF Rotation
  <2>5. w \in [known : SUBSET Ids, fetched : BOOLEAN]
    BY <2>2
  <2>6. rotation' \in [Tabs -> Rotation]
    BY <1>1, <2>1, <2>4
  <2> HIDE DEF r, w
  <2>7. sentShares' \in [Tabs -> [known : SUBSET Ids, fetched : BOOLEAN]]
    BY <2>1, <2>5 DEF w, SharesTypeOK
  <2> QED
    BY <2>1, <2>3, <2>6, <2>7 DEF SharesTypeOK
<1>6. ASSUME NEW s \in Ids, RotateFinds(t, s) PROVE SharesTypeOK'
  <2>1. call' \in [Actors -> Call]
    BY <1>6, RowsOK DEF RotateFinds
  <2> QED
    BY <1>6, <2>1 DEF RotateFinds, SharesTypeOK
<1>7. CASE RotateUpdates(t)
  <2> DEFINE c == call[t]
             k == rotation[t].key
             r == [rotation[t] EXCEPT !.left = rotation[t].left \ {c.id}]
  <2>1. c.was \in Row /\ c.id \in Ids /\ k \in Keys /\ c.was.to \in Recipients \cup {Nobody}
    BY <1>2, <1>7 DEF RotateUpdates, HaveIds
  <2>2. shares' \in [Ids -> Row]
    BY <1>7, <2>1, RowParts, RowsOK DEF RotateUpdates
  <2>3. r \in Rotation
    BY <1>2
  <2>4. rotation' \in [Tabs -> Rotation] /\ call' \in [Actors -> Call]
    <3>1. rotation' = [rotation EXCEPT ![t] = RotationStage(r)]
      BY <1>7 DEF RotateUpdates, SharesTypeOK
    <3> QED
      BY <1>1, <1>4, <1>7, <2>3, <3>1 DEF RotateUpdates
  <2>5. gaps' \subseteq Ids \X Items /\ raced' \in BOOLEAN
        /\ given' \subseteq (Recipients \cup {Nobody}) \X Keys
    BY <1>7, <2>1 DEF RotateUpdates, Undone, SharesTypeOK
  <2> QED
    BY <1>7, <2>2, <2>4, <2>5 DEF RotateUpdates, SharesTypeOK
<1>8. CASE RotateCompletes(t)
  <2> DEFINE r == [rotation[t] EXCEPT !.revoked = rotation[t].revoked \ {call[t].id}]
  <2>1. r \in Rotation
    BY <1>2
  <2>2. rotation' \in [Tabs -> Rotation] /\ call' \in [Actors -> Call]
    <3>1. rotation' = [rotation EXCEPT ![t] = RotationStage(r)]
      BY <1>8 DEF RotateCompletes, SharesTypeOK
    <3> QED
      BY <1>1, <1>4, <1>8, <2>1, <3>1 DEF RotateCompletes
  <2>3. shares' \in [Ids -> Row] /\ itemKeys' \in [Ids -> SUBSET Items]
    BY <1>8, RowsOK DEF RotateCompletes
  <2> QED
    BY <1>8, <2>2, <2>3 DEF RotateCompletes, SharesTypeOK
<1>9. ASSUME NEW s \in Ids, RotateMisses(t, s) PROVE SharesTypeOK'
  <2> DEFINE p == [rotation[t] EXCEPT !.left = rotation[t].left \ {s}, !.failed = TRUE]
             r == [rotation[t] EXCEPT !.revoked = rotation[t].revoked \ {s}]
  <2>1. p \in Rotation /\ r \in Rotation
    BY <1>2
  <2>2. \/ rotation' = [rotation EXCEPT ![t] = RotationStage(p)]
        \/ rotation' = [rotation EXCEPT ![t] = RotationStage(r)]
    BY <1>9 DEF RotateMisses
  <2>3. rotation' \in [Tabs -> Rotation]
    BY <1>1, <2>1, <2>2
  <2>4. shareMishaps' \in 0..MaxShareMishaps
    BY <1>9, MishapOK DEF RotateMisses, SharesTypeOK
  <2> QED
    BY <1>9, <2>3, <2>4 DEF RotateMisses, SharesTypeOK
<1>10. CASE RotatePublish(t)
  <2> DEFINE w == [known |-> {}, fetched |-> TRUE]
  <2>1. w \in [known : SUBSET Ids, fetched : BOOLEAN]
    OBVIOUS
  <2>2. sentShares' = [sentShares EXCEPT ![t] = w] /\ sealed' \in Keys
    BY <1>2, <1>10 DEF RotatePublish
  <2> HIDE DEF w
  <2>3. sentShares' \in [Tabs -> [known : SUBSET Ids, fetched : BOOLEAN]]
    BY <2>1, <2>2 DEF SharesTypeOK
  <2> QED
    BY <1>3, <1>10, <2>2, <2>3 DEF RotatePublish, SharesTypeOK
<1>11. CASE RotateFails(t)
  BY <1>3, <1>11, MishapOK DEF RotateFails, SharesTypeOK
<1> QED
  BY <1>5, <1>6, <1>7, <1>8, <1>9, <1>10, <1>11

(* What an item's job becomes                                               *)
Took(i, st, l) ==
    /\ job'[i].step = st /\ job'[i].list = l /\ job'[i].tab = job[i].tab
    /\ \A k \in Items \ {i} : job'[k] = job[k]

LEMMA JobBecomes ==
    ASSUME SharesTypeOK, NEW i \in Items, NEW st, NEW l,
           job' = [job EXCEPT ![i].step = st, ![i].list = l]
    PROVE  Took(i, st, l)
<1> DEFINE e == [job[i] EXCEPT !.step = st]
           f == [e EXCEPT !.list = l]
<1>1. job[i] \in Job /\ job \in [Items -> Job]
  BY DEF SharesTypeOK
<1>2. job' = [job EXCEPT ![i] = f]
  BY <1>1
<1>3. e.step = st /\ e.tab = job[i].tab /\ DOMAIN e = {"step", "tab", "list"}
  BY <1>1 DEF Job
<1> HIDE DEF e
<1>4. f.step = st /\ f.tab = job[i].tab /\ f.list = l
  BY <1>3
<1> HIDE DEF f
<1> QED
  BY <1>1, <1>2, <1>4 DEF Took

LEMMA JobServed ==
    ASSUME SharesTypeOK, NEW i \in Items, NEW s, Served(i, s)
    PROVE  /\ job'[i].step = IF job[i].list = {s} THEN "none" ELSE job[i].step
           /\ job'[i].list = job[i].list \ {s}
           /\ \A k \in Items \ {i} : job'[k] = job[k]
<1> DEFINE st == IF job[i].list = {s} THEN "none" ELSE job[i].step
           e == [job[i] EXCEPT !.list = job[i].list \ {s}]
           f == [e EXCEPT !.step = st]
<1>1. job[i] \in Job /\ job \in [Items -> Job]
  BY DEF SharesTypeOK
<1>2. /\ e.step = job[i].step /\ e.list = job[i].list \ {s} /\ DOMAIN e = {"step", "tab", "list"}
  BY <1>1 DEF Job
<1>3. job' = [job EXCEPT ![i] = f]
  BY <1>1, <1>2 DEF Served
<1> HIDE DEF e, st
<1>4. f.step = st /\ f.list = job[i].list \ {s}
  BY <1>2
<1> HIDE DEF f
<1> QED
  BY <1>1, <1>3, <1>4 DEF st

LEMMA IdsKept ==
    ASSUME SharesTypeOK, HaveIds, SharesNext
    PROVE  HaveIds'
<1> USE StateParts, SharesParts DEF shareTables, shareHistory
<1>1. ASSUME UNCHANGED <<call, job>>, NEW t \in Tabs, NEW d, dialog' = [dialog EXCEPT ![t] = d],
             d.step = "saved" => d.id \in Ids
      PROVE  HaveIds'
  BY <1>1 DEF HaveIds, SharesTypeOK
<1>2. ASSUME UNCHANGED <<dialog, job>>, NEW a \in Actors, NEW c, call' = [call EXCEPT ![a] = c],
             c.kind # "none" => c.id \in Ids
      PROVE  HaveIds'
  BY <1>2 DEF HaveIds, SharesTypeOK
<1>3. ASSUME UNCHANGED <<dialog, call>>, NEW i \in Items,
             \A k \in Items \ {i} : job'[k] = job[k],
             job'[i].step \in {"find", "asked"} => job'[i].tab \in Tabs
      PROVE  HaveIds'
  BY <1>3 DEF HaveIds
<1>4. NoDialog.step # "saved" /\ NoCall.kind = "none"
  BY DEF NoDialog, NoCall
<1>5. ASSUME NEW t \in Tabs, NEW r \in Recipients, ShareStart(t, r) PROVE HaveIds'
  <2>1. [step |-> "traversed", to |-> r, items |-> Traversed, key |-> sealed, id |-> Nobody].step # "saved"
    OBVIOUS
  <2> QED
    BY <1>1, <1>5, <2>1 DEF ShareStart
<1>6. ASSUME NEW t \in Tabs, CreateCheck(t) \/ CreateClean(t) PROVE HaveIds'
  <2> DEFINE d == [dialog[t] EXCEPT !.step = "looked"]
             e == [dialog[t] EXCEPT !.step = "checked"]
  <2>1. d.step = "looked" /\ e.step = "checked"
    BY DEF Dialog
  <2>2. dialog' \in {[dialog EXCEPT ![t] = NoDialog], [dialog EXCEPT ![t] = d],
                     [dialog EXCEPT ![t] = e]}
    BY <1>6 DEF CreateCheck, CreateClean, Shut
  <2>3. UNCHANGED <<call, job>>
    BY <1>6 DEF CreateCheck, CreateClean
  <2> HIDE DEF d, e
  <2> QED
    BY <1>1, <1>4, <2>1, <2>2, <2>3
<1>7. ASSUME NEW t \in Tabs, CreateSave(t) PROVE HaveIds'
  <2> DEFINE d == [dialog[t] EXCEPT !.step = "saved", !.id = made + 1]
  <2>1. CASE dialog' = [dialog EXCEPT ![t] = d] /\ made < MaxShares
    <3>1. made + 1 \in Ids
      BY <2>1, SharesAssumption DEF SharesTypeOK, Ids
    <3>2. d.id = made + 1
      BY DEF Dialog
    <3> HIDE DEF d
    <3> QED
      BY <1>1, <1>7, <2>1, <3>1, <3>2 DEF CreateSave
  <2>2. CASE dialog' = [dialog EXCEPT ![t] = NoDialog]
    BY <1>1, <1>4, <1>7, <2>2 DEF CreateSave
  <2>3. \/ dialog' = [dialog EXCEPT ![t] = NoDialog]
        \/ /\ made < MaxShares
           /\ dialog' = [dialog EXCEPT ![t].step = "saved", ![t].id = made + 1]
    <3> HIDE DEF d
    <3>1. \/ Shut(t)
          \/ /\ made < MaxShares
             /\ \/ dialog' = [dialog EXCEPT ![t].step = "saved", ![t].id = made + 1]
                \/ Shut(t)
      BY <1>7 DEF CreateSave
    <3> QED
      BY <3>1 DEF Shut
  <2>4. [dialog EXCEPT ![t].step = "saved", ![t].id = made + 1] = [dialog EXCEPT ![t] = d]
    OBVIOUS
  <2> HIDE DEF d
  <2> QED
    BY <2>1, <2>2, <2>3, <2>4
<1>8. ASSUME NEW t \in Tabs, Created(t) \/ CreateFails(t) PROVE HaveIds'
  BY <1>1, <1>4, <1>8 DEF Created, CreateFails, Shut
<1>9. ASSUME NEW a \in Actors, NEW s \in Ids, NEW kind, Finds(a, kind, s), UNCHANGED <<dialog, job>>
      PROVE  HaveIds'
  <2>1. [kind |-> kind, id |-> s, was |-> shares[s]].id \in Ids
    OBVIOUS
  <2> QED
    BY <1>2, <1>9, <2>1 DEF Finds
<1>10. ASSUME NEW t \in Tabs, NEW s \in Ids, Revoke(t, s) \/ RotateFinds(t, s) PROVE HaveIds'
  BY <1>9, <1>10 DEF Revoke, RotateFinds
<1>11. ASSUME NEW r \in Recipients, NEW s \in Ids, HideRow(r, s) PROVE HaveIds'
  BY <1>9, <1>11 DEF HideRow, Actors
<1>12. ASSUME NEW a \in Actors,
              SaveRow(a) \/ (a \in Tabs /\ (RotateUpdates(a) \/ RotateCompletes(a)))
       PROVE  HaveIds'
  <2>1. call' = [call EXCEPT ![a] = NoCall] /\ UNCHANGED <<dialog, job>>
    BY <1>12 DEF SaveRow, RotateUpdates, RotateCompletes
  <2> QED
    BY <1>2, <1>4, <2>1
<1>13. ASSUME NEW t \in Tabs, NEW i \in Items, AddItem(t, i) PROVE HaveIds'
  <2>1. job'[i] = [step |-> "find", tab |-> t, list |-> {}]
        /\ \A k \in Items \ {i} : job'[k] = job[k]
    BY <1>13 DEF AddItem, SharesTypeOK
  <2> QED
    BY <1>3, <1>13, <2>1 DEF AddItem
<1>14. ASSUME NEW i \in Items,
              \/ JobFind(i) \/ SentShares(i) \/ SentSharesFail(i)
              \/ \E s \in Ids : AddShareKeys(i, s) \/ AddKeysFails(i, s)
       PROVE  HaveIds'
  <2>1. UNCHANGED <<dialog, call>>
    BY <1>14 DEF JobFind, SentShares, SentSharesFail, AddShareKeys, AddKeysFails
  <2>2. CASE JobFind(i) \/ SentShares(i) \/ SentSharesFail(i)
    <3>1. job[i].tab \in Tabs
      BY <2>2 DEF JobFind, SentShares, SentSharesFail, HaveIds
    <3>2. PICK st, l : job' = [job EXCEPT ![i].step = st, ![i].list = l]
      BY <2>2 DEF JobFind, SentShares, SentSharesFail, Serve
    <3>3. job'[i].tab = job[i].tab /\ \A k \in Items \ {i} : job'[k] = job[k]
      BY <3>2, JobBecomes DEF Took
    <3> QED
      BY <1>3, <2>1, <3>1, <3>3
  <2>3. ASSUME NEW s \in Ids, AddShareKeys(i, s) \/ AddKeysFails(i, s) PROVE HaveIds'
    <3>1. job[i].step = "serve" /\ Served(i, s)
      BY <2>3 DEF AddShareKeys, AddKeysFails
    <3> QED
      BY <1>3, <2>1, <3>1, JobServed
  <2> QED
    BY <1>14, <2>2, <2>3
<1>15. ASSUME NEW t \in Tabs,
              \/ RotateStart(t) \/ RotatePublish(t) \/ RotateFails(t)
              \/ \E s \in Ids : RotateMisses(t, s)
       PROVE  HaveIds'
  BY <1>15 DEF RotateStart, RotatePublish, RotateFails, RotateMisses, HaveIds
<1> QED
  BY <1>5, <1>6, <1>7, <1>8, <1>10, <1>11, <1>12, <1>13, <1>14, <1>15 DEF SharesNext, Actors

LEMMA SharesStart == SharesInit => SharesTypeOK /\ HaveIds
<1> SUFFICES ASSUME SharesInit PROVE SharesTypeOK /\ HaveIds
  OBVIOUS
<1>1. HaveIds
  BY DEF SharesInit, HaveIds, NoDialog, NoCall
<1>2. [step |-> "none", tab |-> Nobody, list |-> {}] \in Job
  BY DEF Job
<1>3. 0 \in 0..MaxShares /\ 0 \in 0..MaxShareMishaps
  BY SharesAssumption
<1> QED
  BY <1>1, <1>2, <1>3, SharesParts DEF SharesInit, SharesTypeOK

LEMMA SharesStep ==
    SharesTypeOK /\ HaveIds /\ [SharesNext]_sharesVars => (SharesTypeOK /\ HaveIds)'
<1> SUFFICES ASSUME SharesTypeOK, HaveIds, [SharesNext]_sharesVars
             PROVE  SharesTypeOK' /\ HaveIds'
  OBVIOUS
<1>1. CASE UNCHANGED sharesVars
  BY <1>1 DEF sharesVars, SharesTypeOK, HaveIds, Active
<1>2. CASE SharesNext
  BY <1>2, CreatesOK, RevokesOK, ItemsOK, RotatesOK, IdsKept DEF SharesNext
<1> QED
  BY <1>1, <1>2

(* Every variable keeps its type                                            *)
THEOREM SharesTypeCorrect == SharesSpec => []SharesTypeOK
BY SharesStart, SharesStep, PTL DEF SharesSpec

-----------------------------------------------------------------------------
(* Shares: every recipient gets the key of every item                       *)

(* While an item's job is under way, it is one that will look for the       *)
(* active shares, or the share is on its list                               *)
CoveredInv ==
    \A s \in Active, i \in folder :
        \/ i \in itemKeys[s] \/ <<s, i>> \in gaps
        \/ job[i].step \in {"find", "asked"}
        \/ job[i].step = "serve" /\ s \in job[i].list

(* A step after which each active share was active before and has kept what *)
(* it had, or is known to have missed something                             *)
KeysKept ==
    /\ UNCHANGED <<folder, job>> /\ gaps \subseteq gaps'
    /\ \A s \in Active' : \/ s \in Active /\ itemKeys[s] \subseteq itemKeys'[s]
                          \/ {s} \X Items \subseteq gaps'

LEMMA KeepsCovered ==
    ASSUME SharesTypeOK, CoveredInv, KeysKept
    PROVE  CoveredInv'
<1>1. folder \subseteq Items
  BY DEF SharesTypeOK
<1> QED
  BY <1>1 DEF CoveredInv, KeysKept

LEMMA WrittenKeeps ==
    ASSUME SharesTypeOK, NEW a \in Actors, NEW row \in Row, call[a].id \in Ids,
           row.state \in {call[a].was.state, "revoked"},
           Written(row, call[a].id), Undone(call[a]), UNCHANGED <<folder, job, itemKeys>>
    PROVE  KeysKept
<1> DEFINE c == call[a]
<1>1. CASE Overtaken(c)
  <2>1. \A s \in Ids \ {c.id} : shares'[s] = shares[s]
    BY DEF Written, SharesTypeOK
  <2> QED
    BY <1>1, <2>1 DEF Undone, KeysKept, Active
<1>2. CASE ~Overtaken(c)
  <2>1. \A s \in Ids : shares'[s].state = "active" => shares[s].state = "active"
    BY <1>2 DEF Written, Overtaken, SharesTypeOK
  <2> QED
    BY <1>2, <2>1 DEF Undone, KeysKept, Active
<1> QED
  BY <1>1, <1>2

LEMMA WithoutKeeps ==
    ASSUME SharesTypeOK, NEW gone, RowsWithout(gone), UNCHANGED <<folder, job, gaps>>
    PROVE  KeysKept
BY SharesParts DEF RowsWithout, NoRow, KeysKept, Active, SharesTypeOK

LEMMA ServeKeeps ==
    ASSUME SharesTypeOK, CoveredInv, NEW i \in Items, NEW l, Serve(i, l),
           UNCHANGED <<shares, itemKeys, folder>>
    PROVE  CoveredInv'
<1>1. Took(i, IF l = {} THEN "none" ELSE "serve", l)
  BY JobBecomes DEF Serve, Covering
<1>2. gaps' = gaps \cup ((Active \ l) \X {i}) /\ Active' = Active /\ folder \subseteq Items
  BY DEF Serve, Active, SharesTypeOK
<1>3. ASSUME NEW s \in Active, NEW k \in folder
      PROVE  \/ k \in itemKeys[s] \/ <<s, k>> \in gaps'
             \/ job'[k].step \in {"find", "asked"}
             \/ job'[k].step = "serve" /\ s \in job'[k].list
  <2>1. CASE k = i
    <3>1. CASE s \in l
      BY <1>1, <2>1, <3>1 DEF Took
    <3>2. CASE s \notin l
      BY <1>2, <2>1, <3>2
    <3> QED
      BY <3>1, <3>2
  <2>2. CASE k # i
    <3>1. job'[k] = job[k]
      BY <1>1, <1>2, <2>2 DEF Took
    <3>2. \/ k \in itemKeys[s] \/ <<s, k>> \in gaps
          \/ job[k].step \in {"find", "asked"}
          \/ job[k].step = "serve" /\ s \in job[k].list
      BY DEF CoveredInv
    <3> QED
      BY <1>2, <3>1, <3>2
  <2> QED
    BY <2>1, <2>2
<1>4. Active' = Active /\ itemKeys' = itemKeys /\ folder' = folder
  BY <1>2
<1> QED
  BY <1>3, <1>4 DEF CoveredInv

LEMMA CoveredStep ==
    ASSUME SharesTypeOK, HaveIds, CoveredInv, SharesNext
    PROVE  CoveredInv'
<1> USE StateParts, SharesParts DEF shareTables, shareHistory
<1>1. ASSUME NEW t \in Tabs,
             \/ \E r \in Recipients : ShareStart(t, r)
             \/ Created(t) \/ CreateFails(t) \/ RotateStart(t) \/ RotatePublish(t) \/ RotateFails(t)
             \/ \E s \in Ids : Revoke(t, s) \/ RotateFinds(t, s) \/ RotateMisses(t, s)
      PROVE  CoveredInv'
  <2>1. UNCHANGED <<shares, itemKeys, folder, job, gaps>>
    BY <1>1 DEF ShareStart, Created, CreateFails, RotateStart, RotatePublish, RotateFails, Revoke,
                RotateFinds, RotateMisses
  <2> QED
    BY <2>1 DEF CoveredInv, Active
<1>2. ASSUME NEW r \in Recipients, NEW s \in Ids, HideRow(r, s) PROVE CoveredInv'
  BY <1>2 DEF HideRow, CoveredInv, Active
<1>3. ASSUME NEW t \in Tabs, CreateCheck(t) \/ CreateClean(t) PROVE CoveredInv'
  <2>1. CASE CreateCheck(t)
    BY <2>1 DEF CreateCheck, CoveredInv, Active
  <2>2. CASE CreateClean(t)
    BY <2>2, WithoutKeeps, KeepsCovered DEF CreateClean
  <2> QED
    BY <1>3, <2>1, <2>2
<1>4. ASSUME NEW t \in Tabs, CreateSave(t) PROVE CoveredInv'
  <2> DEFINE d == dialog[t]
             s == made + 1
             row == [state |-> "active", to |-> d.to, key |-> d.key, hidden |-> FALSE]
  <2>1. CASE Taken(d.to, Nobody)
    BY <1>4, <2>1 DEF CreateSave, CoveredInv, Active
  <2>2. CASE ~Taken(d.to, Nobody)
    <3>1. s \in Ids
      BY <1>4, <2>2, SharesAssumption DEF CreateSave, SharesTypeOK, Ids
    <3>2. /\ shares' = [shares EXCEPT ![s] = row] /\ UNCHANGED <<folder, job>>
          /\ \/ /\ itemKeys' = [itemKeys EXCEPT ![s] = d.items]
                /\ gaps' = gaps \cup ({s} \X Overlooked(t))
             \/ gaps' = gaps \cup ({s} \X Items) /\ UNCHANGED itemKeys
      BY <1>4, <2>2 DEF CreateSave
    <3> HIDE DEF s, row
    <3>3. \A o \in Active' \ {s} : o \in Active
      BY <3>1, <3>2 DEF Active, SharesTypeOK
    <3>4. CASE gaps' = gaps \cup ({s} \X Items) /\ UNCHANGED itemKeys
      BY <3>2, <3>3, <3>4, KeepsCovered DEF KeysKept
    <3>5. CASE /\ itemKeys' = [itemKeys EXCEPT ![s] = d.items]
               /\ gaps' = gaps \cup ({s} \X Overlooked(t))
      <4>1. itemKeys'[s] = d.items /\ \A o \in Ids \ {s} : itemKeys'[o] = itemKeys[o]
        BY <3>1, <3>5 DEF SharesTypeOK
      <4>2. \A i \in folder : i \in d.items \/ job[i].step = "find" \/ i \in Overlooked(t)
        BY DEF Overlooked
      <4>3. \A o \in Active' : o \in Ids
        BY DEF Active
      <4> HIDE DEF d
      <4> QED
        BY <3>2, <3>3, <3>5, <4>1, <4>2, <4>3 DEF CoveredInv
    <3> QED
      BY <3>2, <3>4, <3>5
  <2> QED
    BY <2>1, <2>2
<1>5. ASSUME NEW a \in Actors, SaveRow(a) PROVE CoveredInv'
  <2> DEFINE c == call[a]
             u == [c.was EXCEPT !.state = "revoked"]
             v == [c.was EXCEPT !.hidden = TRUE]
  <2>1. c.was \in Row /\ c.id \in Ids
    BY <1>5 DEF SaveRow, HaveIds
  <2>2. u \in Row /\ v \in Row /\ u.state = "revoked" /\ v.state = c.was.state
    BY <2>1 DEF Row
  <2>3. /\ Written(u, c.id) \/ Written(v, c.id)
        /\ Undone(c) /\ UNCHANGED <<folder, job, itemKeys>>
    BY <1>5 DEF SaveRow
  <2> HIDE DEF u, v
  <2> QED
    BY <2>1, <2>2, <2>3, WrittenKeeps, KeepsCovered
<1>6. ASSUME NEW t \in Tabs, RotateUpdates(t) PROVE CoveredInv'
  <2> DEFINE c == call[t]
             w == [c.was EXCEPT !.key = rotation[t].key]
  <2>1. c.was \in Row /\ c.id \in Ids /\ t \in Actors /\ rotation[t].key \in Keys
    BY <1>6, RotationParts DEF RotateUpdates, HaveIds
  <2>2. w \in Row /\ w.state = c.was.state
    BY <2>1, RowParts
  <2>3. Written(w, c.id) /\ Undone(c) /\ UNCHANGED <<folder, job, itemKeys>>
    BY <1>6 DEF RotateUpdates
  <2> HIDE DEF w
  <2> QED
    BY <2>1, <2>2, <2>3, WrittenKeeps, KeepsCovered
<1>7. ASSUME NEW t \in Tabs, RotateCompletes(t) PROVE CoveredInv'
  BY <1>7, WithoutKeeps, KeepsCovered DEF RotateCompletes
<1>8. ASSUME NEW t \in Tabs, NEW i \in Items, AddItem(t, i) PROVE CoveredInv'
  <2>1. job'[i].step = "find" /\ \A k \in Items \ {i} : job'[k] = job[k]
    BY <1>8 DEF AddItem, SharesTypeOK
  <2>2. folder \subseteq Items /\ folder' = folder \cup {i} /\ UNCHANGED <<shares, itemKeys, gaps>>
    BY <1>8 DEF AddItem, SharesTypeOK
  <2>3. Active' = Active
    BY <2>2 DEF Active
  <2>4. ASSUME NEW s \in Active, NEW k \in folder'
        PROVE  \/ k \in itemKeys[s] \/ <<s, k>> \in gaps
               \/ job'[k].step \in {"find", "asked"}
               \/ job'[k].step = "serve" /\ s \in job'[k].list
    <3>1. CASE k = i
      BY <2>1, <3>1
    <3>2. CASE k # i
      <4>1. k \in folder /\ job'[k] = job[k]
        BY <2>1, <2>2, <3>2
      <4> QED
        BY <4>1 DEF CoveredInv
    <3> QED
      BY <3>1, <3>2
  <2> QED
    BY <2>2, <2>3, <2>4 DEF CoveredInv
<1>9. ASSUME NEW i \in Items, JobFind(i) PROVE CoveredInv'
  <2> DEFINE l == sentShares[job[i].tab].known
  <2>1. l \subseteq Ids /\ UNCHANGED <<shares, itemKeys, folder>>
    BY <1>9 DEF JobFind, HaveIds
  <2>2. CASE Serve(i, l)
    BY <2>1, <2>2, ServeKeeps
  <2>3. CASE job' = [job EXCEPT ![i].step = "asked", ![i].list = Active] /\ UNCHANGED gaps
    <3>1. job'[i].step = "asked" /\ \A k \in Items \ {i} : job'[k] = job[k]
      BY <2>3, JobBecomes DEF Took
    <3>2. folder \subseteq Items /\ Active' = Active /\ UNCHANGED <<itemKeys, folder, gaps>>
      BY <2>1, <2>3 DEF SharesTypeOK, Active
    <3>3. ASSUME NEW s \in Active, NEW k \in folder
          PROVE  \/ k \in itemKeys[s] \/ <<s, k>> \in gaps
                 \/ job'[k].step \in {"find", "asked"}
                 \/ job'[k].step = "serve" /\ s \in job'[k].list
      <4>1. k = i \/ job'[k] = job[k]
        BY <3>1, <3>2
      <4> QED
        BY <3>1, <4>1 DEF CoveredInv
    <3> QED
      BY <3>2, <3>3 DEF CoveredInv
  <2> QED
    BY <1>9, <2>2, <2>3 DEF JobFind
<1>10. ASSUME NEW i \in Items, SentShares(i) \/ SentSharesFail(i) PROVE CoveredInv'
  <2>1. job[i].list \subseteq Ids
    BY DEF Job
  <2> QED
    BY <1>10, <2>1, ServeKeeps DEF SentShares, SentSharesFail
<1>11. ASSUME NEW i \in Items, NEW s \in Ids, AddShareKeys(i, s) \/ AddKeysFails(i, s)
       PROVE  CoveredInv'
  <2>1. /\ job[i].step = "serve" /\ UNCHANGED <<shares, folder>> /\ folder \subseteq Items
        /\ job'[i].step = (IF job[i].list = {s} THEN "none" ELSE "serve")
        /\ job'[i].list = job[i].list \ {s} /\ \A k \in Items \ {i} : job'[k] = job[k]
    BY <1>11, JobServed DEF AddShareKeys, AddKeysFails, SharesTypeOK
  <2>2. /\ gaps \subseteq gaps' /\ \A o \in Ids : itemKeys[o] \subseteq itemKeys'[o]
        /\ s \in Active => i \in itemKeys'[s] \/ <<s, i>> \in gaps'
    BY <1>11 DEF AddShareKeys, AddKeysFails, Active, SharesTypeOK
  <2>3. Active' = Active
    BY <2>1 DEF Active
  <2>4. ASSUME NEW o \in Active, NEW k \in folder
        PROVE  \/ k \in itemKeys'[o] \/ <<o, k>> \in gaps'
               \/ job'[k].step \in {"find", "asked"}
               \/ job'[k].step = "serve" /\ o \in job'[k].list
    <3>1. CASE k # i
      BY <2>1, <2>2, <3>1 DEF CoveredInv
    <3>2. CASE k = i /\ o = s
      BY <2>2, <3>2
    <3>3. CASE k = i /\ o # s
      BY <2>1, <2>2, <3>3 DEF CoveredInv
    <3> QED
      BY <3>1, <3>2, <3>3
  <2> QED
    BY <2>1, <2>3, <2>4 DEF CoveredInv
<1> QED
  BY <1>1, <1>2, <1>3, <1>4, <1>5, <1>6, <1>7, <1>8, <1>9, <1>10, <1>11 DEF SharesNext

(* Every active share has the key of every item of the folder once the      *)
(* calls that bring it have ended, in whatever order shares are created,    *)
(* revoked and hidden, items added and keys rotated; but for the gaps that  *)
(* Covered names                                                            *)
THEOREM ItemsCovered == SharesSpec => []Covered
<1>1. SharesInit => SharesTypeOK /\ HaveIds /\ CoveredInv
  <2>1. SharesInit => CoveredInv
    BY DEF SharesInit, CoveredInv
  <2> QED
    BY <2>1, SharesStart
<1>2. SharesTypeOK /\ HaveIds /\ CoveredInv /\ [SharesNext]_sharesVars
        => (SharesTypeOK /\ HaveIds /\ CoveredInv)'
  <2> SUFFICES ASSUME SharesTypeOK, HaveIds, CoveredInv, [SharesNext]_sharesVars
               PROVE  CoveredInv'
    BY SharesStep
  <2>1. CASE UNCHANGED sharesVars
    BY <2>1 DEF sharesVars, CoveredInv, Active
  <2> QED
    BY <2>1, CoveredStep
<1>3. CoveredInv => Covered
  BY DEF CoveredInv, Covered
<1> QED
  BY <1>1, <1>2, <1>3, PTL DEF SharesSpec

-----------------------------------------------------------------------------
(* Shares: who holds the folder's key                                       *)

IsRotating(t) == rotation[t].step # "none"
Holds(r) == \E s \in Active : shares[s].to = r

(* Keys are numbered in order and rows inserted in order; an active row is  *)
(* the only one of its recipient                                            *)
Numbered ==
    /\ \A r \in Recipients \cup {Nobody}, k \in Keys : <<r, k>> \in given => k <= newest
    /\ sealed <= newest
    /\ \A t \in Tabs : dialog[t].key <= newest /\ rotation[t].key <= newest
    /\ \A s \in Ids : s > made => shares[s].state = "none"
    /\ \A s, o \in Active : shares[s].to = shares[o].to => s = o

(* What a call has found, until it saves: the row is as it was, or the save *)
(* is noted as a race                                                       *)
CallsFit ==
    \A a \in Actors :
        /\ call[a].kind \in {"update", "complete"} => a \in Tabs /\ rotation[a].step = call[a].kind
        /\ call[a].kind = "update" => call[a].was.state = "active"
        /\ call[a].kind = "complete" => call[a].id \notin Active
        /\ call[a].kind # "none" => call[a].was.state # "none"

(* The one rotation under way: the active shares, all of them, are still to *)
(* be changed or have its key, and only their recipients were given it      *)
RotationFits ==
    /\ \A t, u \in Tabs : IsRotating(t) /\ IsRotating(u) => t = u
    /\ \A t \in Tabs : IsRotating(t) =>
        /\ ~rotation[t].failed /\ rotation[t].left \subseteq Active
        /\ rotation[t].step # "update" => rotation[t].left = {}
        /\ \A s \in Active : s \in rotation[t].left \/ shares[s].key = rotation[t].key
        /\ \A r \in Recipients : <<r, rotation[t].key>> \in given => Holds(r)

HoldersInv ==
    raced \/ /\ Numbered /\ CallsFit /\ RotationFits
             /\ HoldersListed /\ KeysFit

KeysFitted == Rotating \/ \A s \in Active : shares[s].key = sealed
HasRow(r) == Listed(r) \/ \E t \in Tabs : dialog[t].step = "checked" /\ dialog[t].to = r
AllListed == Rotating \/ \A r \in Recipients : <<r, sealed>> \in given => HasRow(r)
HoldersFacts == Numbered /\ CallsFit /\ RotationFits /\ AllListed /\ KeysFitted

LEMMA HoldersInvIs == HoldersInv <=> (raced \/ HoldersFacts)
BY DEF HoldersInv, HoldersFacts, HoldersListed, KeysFit, KeysFitted, AllListed, HasRow, Active

(* The active rows are as they were                                         *)
ActiveSame ==
    /\ Active' = Active
    /\ \A s \in Active : shares'[s].to = shares[s].to /\ shares'[s].key = shares[s].key
    /\ \A s \in Ids : shares[s].state = "none" => shares'[s].state = "none"

LEMMA ActiveSameKeeps ==
    ASSUME SharesTypeOK, Numbered, RotationFits, KeysFitted, ActiveSame,
           UNCHANGED <<made, sealed, newest, given, rotation>>,
           \A t \in Tabs : dialog'[t].key \in {dialog[t].key, sealed, 0}
    PROVE  Numbered' /\ RotationFits' /\ KeysFitted'
<1>1. /\ newest \in Nat /\ sealed <= newest
      /\ \A t \in Tabs : dialog[t].key <= newest /\ rotation[t].key <= newest
  BY SharesAssumption DEF Numbered, SharesTypeOK, Keys
<1>2. Numbered'
  <2>1. \A t \in Tabs : dialog'[t].key <= newest /\ rotation'[t].key <= newest
    BY <1>1
  <2>2. \A s \in Ids : s > made => shares'[s].state = "none"
    BY DEF Numbered, ActiveSame
  <2>3. \A s, o \in Active' : shares'[s].to = shares'[o].to => s = o
    BY DEF Numbered, ActiveSame
  <2>4. \A r \in Recipients \cup {Nobody}, k \in Keys : <<r, k>> \in given' => k <= newest'
    BY DEF Numbered
  <2> QED
    BY <1>1, <2>1, <2>2, <2>3, <2>4 DEF Numbered
<1>3. \A r : Holds(r) => Holds(r)'
  BY DEF Holds, ActiveSame
<1>4. RotationFits'
  BY <1>3 DEF RotationFits, IsRotating, ActiveSame
<1>5. KeysFitted'
  BY DEF KeysFitted, Rotating, ActiveSame
<1> QED
  BY <1>2, <1>4, <1>5

LEMMA ActiveAre ==
    ASSUME SharesTypeOK
    PROVE  /\ \A s : s \in Active <=> s \in Ids /\ shares[s].state = "active"
           /\ \A s : s \in Active' <=> s \in Ids /\ shares'[s].state = "active"
BY DEF Active

LEMMA GoneKeeps ==
    ASSUME SharesTypeOK, NEW gone, gone \cap Active = {}, RowsWithout(gone)
    PROVE  /\ ActiveSame /\ \A s \in Ids : shares'[s] = IF s \in gone THEN NoRow ELSE shares[s]
BY ActiveAre DEF ActiveSame, RowsWithout, NoRow

LEMMA FindsKeeps ==
    ASSUME SharesTypeOK, CallsFit, NEW a \in Actors, NEW s \in Ids,
           NEW kind \in {"revoke", "hide", "update", "complete"}, Finds(a, kind, s),
           shares[s].state # "none",
           kind \in {"update", "complete"} => a \in Tabs /\ rotation[a].step = kind,
           kind = "update" => s \in Active, kind = "complete" => s \notin Active,
           UNCHANGED <<shares, rotation>>
    PROVE  CallsFit'
<1>1. call'[a] = [kind |-> kind, id |-> s, was |-> shares[s]] /\ \A b \in Actors \ {a} : call'[b] = call[b]
  BY DEF Finds, SharesTypeOK
<1>2. call'[a].kind = kind /\ call'[a].id = s /\ call'[a].was = shares[s] /\ Active' = Active
  BY <1>1 DEF Active
<1>3. s \in Active => shares[s].state = "active"
  BY DEF Active
<1> QED
  BY <1>1, <1>2, <1>3 DEF CallsFit

LEMMA SettleCalls ==
    ASSUME SharesTypeOK, CallsFit, NEW a \in Actors, call' = [call EXCEPT ![a] = NoCall],
           \A t \in Tabs \ {a} : rotation'[t] = rotation[t],
           \A b \in Actors : call[b].kind = "complete" => call[b].id \notin Active'
    PROVE  CallsFit'
<1>1. call'[a] = NoCall /\ \A b \in Actors \ {a} : call'[b] = call[b]
  BY DEF SharesTypeOK
<1> QED
  BY <1>1 DEF CallsFit, NoCall

LEMMA HoldersCreate ==
    ASSUME SharesTypeOK, HaveIds, HoldersFacts, NEW t \in Tabs, ~raced',
           CreateCheck(t) \/ CreateClean(t) \/ CreateSave(t)
    PROVE  HoldersFacts'
<1> USE StateParts, SharesParts DEF shareTables, shareHistory
<1>0. Numbered /\ CallsFit /\ RotationFits /\ AllListed /\ KeysFitted
  BY DEF HoldersFacts
<1>1. CASE CreateCheck(t)
  <2>1. /\ UNCHANGED <<shares, made, sealed, newest, given, rotation, call>>
        /\ dialog[t].step = "traversed"
        /\ Shut(t) \/ dialog' = [dialog EXCEPT ![t].step = "looked"]
    BY <1>1 DEF CreateCheck
  <2>2. \A u \in Tabs \ {t} : dialog'[u] = dialog[u]
    BY <2>1 DEF Shut, SharesTypeOK
  <2>3. dialog'[t].key \in {dialog[t].key, 0}
    BY <2>1 DEF Shut, SharesTypeOK, NoDialog, Dialog
  <2>4. ActiveSame /\ Active' = Active
    BY <2>1 DEF ActiveSame, Active
  <2>5. Numbered' /\ RotationFits' /\ KeysFitted'
    BY <1>0, <2>1, <2>2, <2>3, <2>4, ActiveSameKeeps
  <2>6. CallsFit'
    BY <1>0, <2>1, <2>4 DEF CallsFit
  <2>7. AllListed'
    BY <1>0, <2>1, <2>2 DEF AllListed, Rotating, HasRow, Listed
  <2> QED
    BY <2>5, <2>6, <2>7 DEF HoldersFacts
<1>3. CASE CreateClean(t)
  <2> DEFINE r == dialog[t].to
  <2>1. /\ UNCHANGED <<made, sealed, newest, given, rotation, call>> /\ dialog[t].step = "looked"
        /\ RowsWithout(Cleaned(r)) /\ dialog' = [dialog EXCEPT ![t].step = "checked"]
    BY <1>3 DEF CreateClean
  <2>2. \A u \in Tabs \ {t} : dialog'[u] = dialog[u]
    BY <2>1 DEF SharesTypeOK
  <2>3. dialog'[t].step = "checked" /\ dialog'[t].to = r /\ dialog'[t].key = dialog[t].key
    BY <2>1 DEF SharesTypeOK, Dialog
  <2>4. Cleaned(r) \cap Active = {} /\ \A s \in Cleaned(r) : shares[s].to = r
    BY DEF Cleaned, Revoked, Active
  <2>5. ActiveSame /\ \A s \in Ids : shares'[s] = IF s \in Cleaned(r) THEN NoRow ELSE shares[s]
    BY <2>1, <2>4, GoneKeeps
  <2>6. Numbered' /\ RotationFits' /\ KeysFitted'
    BY <1>0, <2>1, <2>2, <2>3, <2>5, ActiveSameKeeps
  <2>7. CallsFit'
    BY <1>0, <2>1, <2>5 DEF CallsFit, ActiveSame
  <2>8. ASSUME NEW q \in Recipients, HasRow(q) PROVE HasRow(q)'
    <3>1. CASE q = r
      BY <2>3, <3>1 DEF HasRow
    <3>2. CASE q # r
      <4>1. Listed(q) => Listed(q)'
        BY <2>4, <2>5, <3>2 DEF Listed
      <4> QED
        BY <2>1, <2>2, <2>8, <4>1 DEF HasRow
    <3> QED
      BY <3>1, <3>2
  <2>9. AllListed'
    BY <1>0, <2>1, <2>8 DEF AllListed, Rotating
  <2> QED
    BY <2>6, <2>7, <2>9 DEF HoldersFacts
<1>2. CASE CreateSave(t)
  <2> DEFINE d == dialog[t]
             s == made + 1
             row == [state |-> "active", to |-> d.to, key |-> d.key, hidden |-> FALSE]
  <2>1. CASE Taken(d.to, Nobody)
    <3>1. Shut(t) /\ UNCHANGED <<shares, made, sealed, newest, given, rotation, call>>
      BY <1>2, <2>1 DEF CreateSave
    <3>2. dialog'[t] = NoDialog /\ \A u \in Tabs \ {t} : dialog'[u] = dialog[u]
      BY <3>1 DEF Shut, SharesTypeOK
    <3>3. ActiveSame
      BY <3>1 DEF ActiveSame, Active
    <3>4. Numbered' /\ RotationFits' /\ KeysFitted'
      BY <1>0, <3>1, <3>2, <3>3, ActiveSameKeeps DEF NoDialog
    <3>5. CallsFit'
      BY <1>0, <3>1, <3>3 DEF CallsFit, ActiveSame
    <3>6. Listed(d.to)
      BY <2>1 DEF Taken, Listed, Active
    <3>7. \A q \in Recipients : HasRow(q) => HasRow(q)'
      BY <3>1, <3>2, <3>6 DEF HasRow, Listed
    <3>8. AllListed'
      BY <1>0, <3>1, <3>7 DEF AllListed, Rotating
    <3> QED
      BY <3>4, <3>5, <3>8 DEF HoldersFacts
  <2>2. CASE ~Taken(d.to, Nobody)
    <3>1. s \in Ids /\ made' = s /\ s > made /\ made \in Nat
      BY <1>2, <2>2, SharesAssumption DEF CreateSave, SharesTypeOK, Ids
    <3>2. /\ shares' = [shares EXCEPT ![s] = row] /\ given' = given \cup {<<d.to, d.key>>}
          /\ ~Rotating /\ d.key = sealed /\ UNCHANGED <<sealed, newest, call, rotation>>
          /\ \/ dialog' = [dialog EXCEPT ![t].step = "saved", ![t].id = s]
             \/ Shut(t)
      BY <1>2, <2>2 DEF CreateSave
    <3>3. \A u \in Tabs \ {t} : dialog'[u] = dialog[u]
      BY <3>2 DEF Shut, SharesTypeOK
    <3>4. dialog'[t].key \in {d.key, 0}
      <4> DEFINE e == [d EXCEPT !.step = "saved", !.id = s]
      <4>1. e.key = d.key
        BY DEF Dialog
      <4>2. dialog'[t] = NoDialog \/ dialog'[t] = e
        <5>1. CASE Shut(t)
          BY <5>1 DEF Shut, SharesTypeOK
        <5>2. CASE dialog' = [dialog EXCEPT ![t].step = "saved", ![t].id = s]
          BY <5>2 DEF SharesTypeOK
        <5> QED
          BY <3>2, <5>1, <5>2
      <4> HIDE DEF e, d, s
      <4> QED
        BY <4>1, <4>2 DEF NoDialog
    <3>5. row.state = "active" /\ row.to = d.to /\ row.key = d.key
      OBVIOUS
    <3> HIDE DEF s, row
    <3>6. shares'[s] = row /\ \A o \in Ids \ {s} : shares'[o] = shares[o]
      BY <3>1, <3>2 DEF SharesTypeOK
    <3>7. shares[s].state = "none" /\ Active' = Active \cup {s}
      BY <1>0, <3>1, <3>5, <3>6, ActiveAre DEF Numbered
    <3>8. d.to \in Recipients \cup {Nobody} /\ d.key \in Keys /\ newest \in Nat /\ d.key <= newest
      <4>1. d \in Dialog
        OBVIOUS
      <4>2. d.to \in Recipients \cup {Nobody} /\ d.key \in Keys
        BY <4>1 DEF Dialog
      <4> QED
        BY <1>0, <4>2, SharesAssumption DEF Numbered, SharesTypeOK, Keys
    <3>9. Numbered'
      <4>1. \A q \in Recipients \cup {Nobody}, k \in Keys : <<q, k>> \in given' => k <= newest'
        BY <1>0, <3>2, <3>8 DEF Numbered
      <4>2. \A u \in Tabs : dialog'[u].key <= newest /\ rotation'[u].key <= newest
        BY <1>0, <3>2, <3>3, <3>4, <3>8 DEF Numbered
      <4>3. \A o \in Ids : o > made' => shares'[o].state = "none"
        BY <1>0, <3>1, <3>6 DEF Numbered, Ids
      <4>4. \A o, p \in Active' : shares'[o].to = shares'[p].to => o = p
        <5>1. \A o \in Active : shares[o].to # d.to /\ o # s /\ o \in Ids
          BY <2>2, <3>7, SharesAssumption, ActiveAre DEF Taken, Ids, Nobody
        <5> QED
          BY <1>0, <3>5, <3>6, <3>7, <5>1 DEF Numbered
      <4> QED
        BY <1>0, <3>2, <4>1, <4>2, <4>3, <4>4 DEF Numbered
    <3>10. CallsFit'
      <4>1. \A a \in Actors : call[a].kind \notin {"update", "complete"}
        BY <1>0, <3>2 DEF CallsFit, Rotating
      <4> QED
        BY <1>0, <3>2, <4>1 DEF CallsFit
    <3>11. RotationFits' /\ KeysFitted'
      BY <1>0, <3>2, <3>5, <3>6, <3>7, ActiveAre DEF RotationFits, KeysFitted, Rotating, IsRotating
    <3>12. ASSUME NEW q \in Recipients, <<q, sealed>> \in given' PROVE HasRow(q)'
      <4>1. CASE q = d.to
        BY <3>1, <3>5, <3>6, <4>1 DEF HasRow, Listed
      <4>2. CASE q # d.to
        <5>1. HasRow(q)
          BY <1>0, <3>2, <3>12, <4>2 DEF AllListed
        <5>2. Listed(q) => Listed(q)'
          BY <3>6, <3>7 DEF Listed
        <5> QED
          BY <3>3, <4>2, <5>1, <5>2 DEF HasRow
      <4> QED
        BY <4>1, <4>2
    <3> QED
      BY <3>2, <3>9, <3>10, <3>11, <3>12 DEF HoldersFacts, AllListed
  <2> QED
    BY <2>1, <2>2
<1> QED
  BY <1>1, <1>2, <1>3

LEMMA HoldersSave ==
    ASSUME SharesTypeOK, HaveIds, HoldersFacts, NEW a \in Actors, SaveRow(a), ~raced'
    PROVE  HoldersFacts'
<1> USE StateParts, SharesParts DEF shareTables, shareHistory
<1>0. Numbered /\ CallsFit /\ RotationFits /\ AllListed /\ KeysFitted
  BY DEF HoldersFacts
<1> DEFINE c == call[a]
           u == [c.was EXCEPT !.state = "revoked"]
           v == [c.was EXCEPT !.hidden = TRUE]
<1>1. c.was \in Row /\ c.id \in Ids /\ c.kind \in {"revoke", "hide"}
  BY DEF SaveRow, HaveIds
<1>2. u \in Row /\ v \in Row /\ u.state = "revoked" /\ v.state = c.was.state
      /\ u.to = c.was.to /\ v.to = c.was.to /\ v.key = c.was.key
  BY <1>1 DEF Row
<1>3. /\ Written(u, c.id) \/ Written(v, c.id)
      /\ Undone(c) /\ call' = [call EXCEPT ![a] = NoCall]
      /\ UNCHANGED <<made, sealed, newest, dialog, rotation, given>>
  BY DEF SaveRow
<1>4. shares[c.id] = c.was /\ ~Rotating /\ c.was.state # "none"
  BY <1>0, <1>1, <1>3 DEF Undone, Overtaken, CallsFit
<1> HIDE DEF u, v
<1>5. \E row \in Row :
          /\ row.to = c.was.to /\ row.state # "none"
          /\ row.state = "active" => c.was.state = "active" /\ row.key = c.was.key
          /\ shares' = [shares EXCEPT ![c.id] = row]
  <2>1. CASE shares' = shares
    BY <1>1, <1>4, <2>1 DEF SharesTypeOK
  <2>2. CASE shares' # shares
    BY <1>2, <1>3, <1>4, <2>2 DEF Written
  <2> QED
    BY <2>1, <2>2
<1>6. PICK row \in Row :
          /\ row.to = c.was.to /\ row.state # "none"
          /\ row.state = "active" => c.was.state = "active" /\ row.key = c.was.key
          /\ shares' = [shares EXCEPT ![c.id] = row]
  BY <1>5
<1>7. shares'[c.id] = row /\ \A s \in Ids \ {c.id} : shares'[s] = shares[s]
  BY <1>1, <1>6 DEF SharesTypeOK
<1>8. /\ Active' \subseteq Active
      /\ \A s \in Ids : shares'[s].to = shares[s].to /\ (shares[s].state = "none" <=> shares'[s].state = "none")
      /\ \A s \in Active' : shares'[s].key = shares[s].key
  <2> SUFFICES ASSUME NEW s \in Ids
               PROVE  /\ s \in Active' => s \in Active /\ shares'[s].key = shares[s].key
                      /\ shares'[s].to = shares[s].to
                      /\ shares[s].state = "none" <=> shares'[s].state = "none"
    BY ActiveAre
  <2>1. CASE s = c.id
    BY <1>4, <1>6, <1>7, <2>1, ActiveAre
  <2>2. CASE s # c.id
    BY <1>7, <2>2, ActiveAre
  <2> QED
    BY <2>1, <2>2
<1>9. Numbered'
  <2>1. \A s, o \in Active' : shares'[s].to = shares'[o].to => s = o
    BY <1>0, <1>8, ActiveAre DEF Numbered
  <2> QED
    BY <1>0, <1>3, <1>8, <2>1 DEF Numbered
<1>10. CallsFit'
  BY <1>0, <1>3, <1>8, SettleCalls DEF CallsFit
<1>11. RotationFits' /\ KeysFitted'
  BY <1>0, <1>3, <1>4, <1>8 DEF RotationFits, KeysFitted, Rotating, IsRotating
<1>12. AllListed'
  <2>1. \A q : Listed(q) => Listed(q)'
    BY <1>8 DEF Listed
  <2> QED
    BY <1>0, <1>3, <1>4, <2>1 DEF AllListed, HasRow, Rotating
<1> QED
  BY <1>9, <1>10, <1>11, <1>12 DEF HoldersFacts

LEMMA HoldersFind ==
    ASSUME SharesTypeOK, HaveIds, HoldersFacts, ~raced',
           \/ \E t \in Tabs, s \in Ids : Revoke(t, s) \/ RotateFinds(t, s)
           \/ \E r \in Recipients, s \in Ids : HideRow(r, s)
    PROVE  HoldersFacts'
<1> USE StateParts, SharesParts DEF shareTables, shareHistory
<1>0. Numbered /\ CallsFit /\ RotationFits /\ AllListed /\ KeysFitted
  BY DEF HoldersFacts
<1>1. UNCHANGED <<shares, made, sealed, newest, given, rotation, dialog>>
  BY DEF Revoke, RotateFinds, HideRow
<1>2. ActiveSame
  BY <1>1 DEF ActiveSame, Active
<1>3. Numbered' /\ RotationFits' /\ KeysFitted'
  BY <1>0, <1>1, <1>2, ActiveSameKeeps
<1>4. AllListed'
  BY <1>0, <1>1 DEF AllListed, HasRow, Rotating, Listed
<1>5. CallsFit'
  <2>1. ASSUME NEW t \in Tabs, NEW s \in Ids, Revoke(t, s) PROVE CallsFit'
    BY <1>0, <1>1, <2>1, FindsKeeps DEF Revoke
  <2>2. ASSUME NEW r \in Recipients, NEW s \in Ids, HideRow(r, s) PROVE CallsFit'
    <3>1. r \in Actors
      BY DEF Actors
    <3> QED
      BY <1>0, <1>1, <2>2, <3>1, FindsKeeps DEF HideRow
  <2>3. ASSUME NEW t \in Tabs, NEW s \in Ids, RotateFinds(t, s) PROVE CallsFit'
    <3> DEFINE r == rotation[t]
    <3>1. CASE r.step = "update" /\ s \in r.left /\ shares[s].state # "none" /\ Finds(t, "update", s)
      <4>1. s \in Active
        BY <1>0, <3>1 DEF RotationFits, IsRotating
      <4> QED
        BY <1>0, <1>1, <3>1, <4>1, FindsKeeps
    <3>2. CASE r.step = "complete" /\ s \in r.revoked /\ shares[s].state = "revoked" /\ Finds(t, "complete", s)
      <4>1. s \notin Active
        BY <3>2 DEF Active
      <4> QED
        BY <1>0, <1>1, <3>2, <4>1, FindsKeeps
    <3> QED
      BY <2>3, <3>1, <3>2 DEF RotateFinds
  <2> QED
    BY <2>1, <2>2, <2>3
<1> QED
  BY <1>3, <1>4, <1>5 DEF HoldersFacts

LEMMA HoldersElse ==
    ASSUME SharesTypeOK, HaveIds, HoldersFacts, ~raced',
           \/ \E t \in Tabs : Created(t) \/ \E r \in Recipients : ShareStart(t, r)
           \/ \E t \in Tabs, i \in Items : AddItem(t, i)
           \/ \E i \in Items : JobFind(i) \/ SentShares(i) \/ SentSharesFail(i)
           \/ \E i \in Items, s \in Ids : AddShareKeys(i, s) \/ AddKeysFails(i, s)
    PROVE  HoldersFacts'
<1> USE StateParts, SharesParts DEF shareTables, shareHistory
<1>0. Numbered /\ CallsFit /\ RotationFits /\ AllListed /\ KeysFitted
  BY DEF HoldersFacts
<1>1. UNCHANGED <<shares, made, sealed, newest, given, rotation, call>>
  BY DEF Created, ShareStart, AddItem, JobFind, SentShares, SentSharesFail, AddShareKeys, AddKeysFails
<1>2. ActiveSame /\ Active' = Active
  BY <1>1 DEF ActiveSame, Active
<1>3. \A t \in Tabs : /\ dialog'[t].key \in {dialog[t].key, sealed, 0}
                      /\ dialog[t].step = "checked" => dialog'[t] = dialog[t]
  <2>1. ASSUME NEW t \in Tabs, Created(t)
        PROVE  dialog[t].step = "saved" /\ dialog' = [dialog EXCEPT ![t] = NoDialog]
    BY <2>1 DEF Created, Shut
  <2>2. ASSUME NEW t \in Tabs, NEW r \in Recipients, ShareStart(t, r)
        PROVE  /\ dialog[t].step = "closed"
               /\ dialog' = [dialog EXCEPT ![t] = [step |-> "traversed", to |-> r, items |-> Traversed,
                                        key |-> sealed, id |-> Nobody]]
    BY <2>2 DEF ShareStart
  <2>3. ASSUME NEW t \in Tabs, Created(t) \/ \E r \in Recipients : ShareStart(t, r), NEW u \in Tabs
        PROVE  /\ dialog'[u].key \in {dialog[u].key, sealed, 0}
               /\ dialog[u].step = "checked" => dialog'[u] = dialog[u]
    BY <2>1, <2>2, <2>3 DEF NoDialog, SharesTypeOK
  <2>4. CASE UNCHANGED dialog
    BY <2>4
  <2>5. UNCHANGED dialog \/ \E t \in Tabs : Created(t) \/ \E r \in Recipients : ShareStart(t, r)
    BY DEF AddItem, JobFind, SentShares, SentSharesFail, AddShareKeys, AddKeysFails
  <2> QED
    BY <2>3, <2>4, <2>5
<1>4. Numbered' /\ RotationFits' /\ KeysFitted'
  BY <1>0, <1>1, <1>2, <1>3, ActiveSameKeeps
<1>5. CallsFit'
  BY <1>0, <1>1, <1>2 DEF CallsFit
<1>6. \A r : HasRow(r) => HasRow(r)'
  BY <1>1, <1>3 DEF HasRow, Listed
<1>7. AllListed'
  BY <1>0, <1>1, <1>6 DEF AllListed, Rotating
<1> QED
  BY <1>4, <1>5, <1>7 DEF HoldersFacts

LEMMA StageParts ==
    ASSUME NEW r \in Rotation, ~r.failed
    PROVE  /\ RotationStage(r).key = r.key /\ ~RotationStage(r).failed /\ RotationStage(r).left = r.left
           /\ RotationStage(r).revoked = r.revoked /\ RotationStage(r).step # "none"
           /\ RotationStage(r).step # "update" => r.left = {}
           /\ RotationStage(r).step = "update" <=> r.left # {}
BY DEF RotationStage, Rotation

LEMMA HoldersRotate ==
    ASSUME SharesTypeOK, HaveIds, HoldersFacts, NEW t \in Tabs, RotateStart(t), ~raced'
    PROVE  HoldersFacts'
<1> USE StateParts, SharesParts DEF shareTables, shareHistory
<1>0. Numbered /\ CallsFit /\ RotationFits /\ AllListed /\ KeysFitted
  BY DEF HoldersFacts
<1>1. PICK list \in {Active} \cup {sentShares[o].known : o \in {t} \cap Fetched} :
          /\ newest < MaxKeys /\ newest' = newest + 1
          /\ rotation' = [rotation EXCEPT ![t] = RotationStage([step |-> "update", key |-> newest + 1,
                                                  left |-> list \ Revoked, revoked |-> Revoked,
                                                  failed |-> FALSE])]
          /\ ~Rotating /\ Active = list /\ call[t] = NoCall
          /\ UNCHANGED <<shares, made, sealed, dialog, call, given>>
  BY DEF RotateStart
<1> DEFINE r == [step |-> "update", key |-> newest + 1, left |-> list \ Revoked, revoked |-> Revoked,
                   failed |-> FALSE]
           q == RotationStage(r)
<1>2. newest \in Nat /\ newest + 1 \in Keys /\ newest + 1 > newest
  BY <1>1, SharesAssumption DEF SharesTypeOK, Keys
<1>3. r \in Rotation /\ ~r.failed /\ r.left \subseteq Active /\ Active \subseteq r.left
  <2>1. Active \cap Revoked = {} /\ Active \subseteq Ids /\ Revoked \subseteq Ids
    BY DEF Active, Revoked
  <2> QED
    BY <1>1, <1>2, <2>1 DEF Rotation
<1>4. /\ q.key = newest + 1 /\ q.left = r.left /\ q.step # "none" /\ ~q.failed
      /\ q.step # "update" => q.left = {}
  <2>1. r.key = newest + 1
    OBVIOUS
  <2> HIDE DEF r
  <2> QED
    BY <1>3, <2>1, StageParts
<1> HIDE DEF r, q
<1>5. rotation'[t] = q /\ \A u \in Tabs \ {t} : rotation'[u] = rotation[u]
  BY <1>1 DEF r, q, SharesTypeOK
<1>6. \A u \in Tabs \ {t} : rotation'[u].step = "none"
  BY <1>1, <1>5 DEF Rotating
<1>7. Active' = Active
  BY <1>1 DEF Active
<1>8. \A p \in Recipients : <<p, newest + 1>> \notin given
  BY <1>0, <1>2 DEF Numbered
<1>9. RotationFits'
  <2>1. \A u \in Tabs : IsRotating(u)' => u = t
    BY <1>6 DEF IsRotating
  <2>2. \A p \in Recipients : <<p, q.key>> \notin given'
    BY <1>1, <1>4, <1>8
  <2>3. /\ q.left \subseteq Active' /\ Active' \subseteq q.left
        /\ ~q.failed /\ (q.step # "update" => q.left = {})
    BY <1>3, <1>4, <1>7
  <2> QED
    BY <1>5, <2>1, <2>2, <2>3 DEF RotationFits
<1>10. Numbered'
  <2>1. \A u \in Tabs : rotation'[u].key <= newest + 1
    <3>1. \A u \in Tabs : rotation[u].key \in Nat /\ rotation[u].key <= newest
      <4>1. \A u \in Tabs : rotation[u].key \in Keys
        BY DEF Rotation
      <4> QED
        BY <1>0, <4>1, SharesAssumption DEF Numbered, Keys
    <3> QED
      BY <1>2, <1>4, <1>5, <3>1
  <2>2. sealed \in Nat /\ \A u \in Tabs : dialog[u].key \in Nat
    <3>1. \A u \in Tabs : dialog[u].key \in Keys
      BY DEF Dialog
    <3> QED
      BY <3>1, SharesAssumption DEF Keys, SharesTypeOK
  <2>3. sealed <= newest + 1 /\ \A u \in Tabs : dialog[u].key <= newest + 1
    BY <1>0, <1>2, <2>2 DEF Numbered
  <2>4. \A p \in Recipients \cup {Nobody}, k \in Keys : <<p, k>> \in given => k <= newest + 1
    BY <1>0, <1>2, SharesAssumption DEF Numbered, Keys
  <2> QED
    <3>1. \A s, o \in Active' : shares'[s].to = shares'[o].to => s = o
      BY <1>0, <1>1, <1>7 DEF Numbered
    <3>2. \A s \in Ids : s > made' => shares'[s].state = "none"
      BY <1>0, <1>1 DEF Numbered
    <3> QED
      BY <1>1, <2>1, <2>3, <2>4, <3>1, <3>2 DEF Numbered
<1>11. CallsFit'
  <2>1. \A a \in Actors : call[a].kind \notin {"update", "complete"}
    BY <1>0, <1>1 DEF CallsFit, Rotating
  <2> QED
    BY <1>0, <1>1, <2>1 DEF CallsFit
<1>12. Rotating'
  BY <1>4, <1>5 DEF Rotating
<1> QED
  BY <1>9, <1>10, <1>11, <1>12 DEF HoldersFacts, AllListed, KeysFitted

LEMMA HoldersUpdate ==
    ASSUME SharesTypeOK, HaveIds, HoldersFacts, NEW t \in Tabs, RotateUpdates(t), ~raced'
    PROVE  HoldersFacts'
<1> USE StateParts, SharesParts DEF shareTables, shareHistory
<1>0. Numbered /\ CallsFit /\ RotationFits /\ AllListed /\ KeysFitted
  BY DEF HoldersFacts
<1> DEFINE c == call[t] r == rotation[t] k == r.key
           w == [c.was EXCEPT !.key = k] l == r.left \ {c.id}
           q == RotationStage([r EXCEPT !.left = l])
<1>1. /\ c.kind = "update" /\ Written(w, c.id) /\ call' = [call EXCEPT ![t] = NoCall] /\ Undone(c)
      /\ rotation' = [rotation EXCEPT ![t] = q] /\ given' = given \cup {<<c.was.to, k>>}
      /\ UNCHANGED <<made, sealed, newest, dialog>>
  BY DEF RotateUpdates
<1>2. /\ c.was \in Row /\ c.id \in Ids /\ r \in Rotation /\ k \in Keys /\ l \subseteq Ids
      /\ c.was.state = "active" /\ r.step = "update" /\ c.was.to \in Recipients \cup {Nobody}
  <2>1. r \in Rotation /\ c.was \in Row /\ c.id \in Ids
    BY <1>1 DEF HaveIds
  <2> QED
    BY <1>0, <1>1, <2>1 DEF CallsFit, Row, Rotation
<1>3. w \in Row /\ w.state = "active" /\ w.to = c.was.to /\ w.key = k
  BY <1>2 DEF Row
<1>4. /\ [r EXCEPT !.left = l] \in Rotation /\ [r EXCEPT !.left = l].left = l
      /\ [r EXCEPT !.left = l].key = k /\ ~[r EXCEPT !.left = l].failed
  <2>1. ~r.failed
    BY <1>0, <1>2 DEF RotationFits, IsRotating
  <2> QED
    BY <1>2, <2>1 DEF Rotation
<1>5. q.key = k /\ q.left = l /\ q.step # "none" /\ ~q.failed /\ (q.step # "update" => q.left = {})
  BY <1>4, StageParts
<1> HIDE DEF w, l, q
<1>6. rotation'[t] = q /\ \A u \in Tabs \ {t} : rotation'[u] = rotation[u]
  BY <1>1 DEF SharesTypeOK
<1>7. shares[c.id] = c.was /\ c.id \in Active
  BY <1>1, <1>2, ActiveAre DEF Undone, Overtaken
<1>8. shares' = [shares EXCEPT ![c.id] = w]
  <2>1. ~Taken(w.to, c.id)
    BY <1>0, <1>3, <1>7 DEF Taken, Numbered
  <2> QED
    BY <1>1, <2>1 DEF Written, RowRefused
<1>9. shares'[c.id] = w /\ \A s \in Ids \ {c.id} : shares'[s] = shares[s]
  BY <1>2, <1>8 DEF SharesTypeOK
<1>10. /\ Active' = Active /\ \A s \in Ids : shares'[s].to = shares[s].to
       /\ \A s \in Ids : shares[s].state = "none" <=> shares'[s].state = "none"
  <2> SUFFICES ASSUME NEW s \in Ids
               PROVE  /\ s \in Active' <=> s \in Active
                      /\ shares'[s].to = shares[s].to
                      /\ shares[s].state = "none" <=> shares'[s].state = "none"
    BY ActiveAre
  <2>1. CASE s = c.id
    BY <1>2, <1>3, <1>7, <1>9, <2>1, ActiveAre
  <2>2. CASE s # c.id
    BY <1>9, <2>2, ActiveAre
  <2> QED
    BY <2>1, <2>2
<1>11. Numbered'
  <2>1. \A p \in Recipients \cup {Nobody}, j \in Keys : <<p, j>> \in given' => j <= newest
    BY <1>0, <1>1 DEF Numbered
  <2>2. \A u \in Tabs : rotation'[u].key <= newest
    BY <1>0, <1>5, <1>6 DEF Numbered
  <2>3. \A s, o \in Active' : shares'[s].to = shares'[o].to => s = o
    BY <1>0, <1>10, ActiveAre DEF Numbered
  <2> QED
    BY <1>0, <1>1, <1>10, <2>1, <2>2, <2>3 DEF Numbered
<1>12. CallsFit'
  BY <1>0, <1>1, <1>6, <1>10, SettleCalls DEF CallsFit
<1>13. \A u \in Tabs : IsRotating(u)' => u = t
  <2>1. \A u \in Tabs : IsRotating(u) => u = t
    BY <1>0, <1>2 DEF RotationFits, IsRotating
  <2> QED
    BY <1>6, <2>1 DEF IsRotating
<1>14. RotationFits'
  <2>1. ~q.failed /\ q.left \subseteq Active'
    BY <1>0, <1>2, <1>5, <1>10 DEF RotationFits, IsRotating, l
  <2>2. \A s \in Active' : s \in q.left \/ shares'[s].key = k
    <3> TAKE s \in Active'
    <3>1. s \in r.left \/ shares[s].key = k
      BY <1>0, <1>2, <1>10 DEF RotationFits, IsRotating
    <3>2. CASE s = c.id
      BY <1>3, <1>9, <3>2
    <3>3. CASE s # c.id
      BY <1>5, <1>9, <1>10, <3>1, <3>3, ActiveAre DEF l
    <3> QED
      BY <3>2, <3>3
  <2>3. \A p \in Recipients : <<p, k>> \in given' => Holds(p)'
    <3> SUFFICES ASSUME NEW p \in Recipients, <<p, k>> \in given' PROVE Holds(p)'
      OBVIOUS
    <3>1. CASE p = c.was.to
      BY <1>3, <1>7, <1>9, <1>10, <3>1 DEF Holds
    <3>2. CASE p # c.was.to
      <4>1. <<p, k>> \in given
        BY <1>1, <3>2
      <4>2. Holds(p)
        BY <1>0, <1>2, <4>1 DEF RotationFits, IsRotating
      <4> QED
        BY <1>10, <4>2, ActiveAre DEF Holds
    <3> QED
      BY <3>1, <3>2
  <2> QED
    BY <1>5, <1>6, <1>13, <2>1, <2>2, <2>3 DEF RotationFits
<1>15. Rotating'
  BY <1>5, <1>6 DEF Rotating
<1> QED
  BY <1>11, <1>12, <1>14, <1>15 DEF HoldersFacts, AllListed, KeysFitted

LEMMA HoldersComplete ==
    ASSUME SharesTypeOK, HaveIds, HoldersFacts, NEW t \in Tabs, RotateCompletes(t), ~raced'
    PROVE  HoldersFacts'
<1> USE StateParts, SharesParts DEF shareTables, shareHistory
<1>0. Numbered /\ CallsFit /\ RotationFits /\ AllListed /\ KeysFitted
  BY DEF HoldersFacts
<1> DEFINE c == call[t] r == rotation[t] l == r.revoked \ {c.id}
           p == [r EXCEPT !.revoked = l] q == RotationStage(p)
<1>1. /\ c.kind = "complete" /\ RowsWithout({c.id}) /\ call' = [call EXCEPT ![t] = NoCall]
      /\ rotation' = [rotation EXCEPT ![t] = q]
      /\ UNCHANGED <<made, sealed, newest, dialog, given>>
  BY DEF RotateCompletes
<1>2. c.id \notin Active /\ r.step = "complete" /\ r \in Rotation /\ r.left = {} /\ ~r.failed
  BY <1>0, <1>1 DEF CallsFit, RotationFits, IsRotating
<1>3. p \in Rotation /\ p.key = r.key /\ p.left = r.left /\ ~p.failed
  BY <1>2 DEF Rotation
<1> HIDE DEF p
<1>4. q.key = r.key /\ q.left = {} /\ q.step # "none" /\ ~q.failed
  BY <1>2, <1>3, StageParts
<1> HIDE DEF q
<1>5. rotation'[t] = q /\ \A u \in Tabs \ {t} : rotation'[u] = rotation[u]
  BY <1>1 DEF SharesTypeOK
<1>6. ActiveSame /\ Active' = Active
  <2>1. {c.id} \cap Active = {}
    BY <1>2
  <2> QED
    BY <1>1, <2>1, GoneKeeps DEF ActiveSame
<1>7. \A s \in Active : shares'[s].to = shares[s].to /\ shares'[s].key = shares[s].key
  BY <1>6 DEF ActiveSame
<1>8. Numbered'
  <2>1. \A u \in Tabs : rotation'[u].key <= newest
    BY <1>0, <1>4, <1>5 DEF Numbered
  <2>2. \A s \in Ids : s > made => shares'[s].state = "none"
    BY <1>0, <1>6 DEF Numbered, ActiveSame
  <2>3. \A s, o \in Active' : shares'[s].to = shares'[o].to => s = o
    BY <1>0, <1>6, <1>7 DEF Numbered
  <2> QED
    BY <1>0, <1>1, <2>1, <2>2, <2>3 DEF Numbered
<1>9. CallsFit'
  BY <1>0, <1>1, <1>5, <1>6, SettleCalls DEF CallsFit
<1>10. \A u \in Tabs : IsRotating(u)' => u = t
  BY <1>0, <1>2, <1>5 DEF RotationFits, IsRotating
<1>11. \A s \in Active : shares[s].key = r.key
  BY <1>0, <1>2 DEF RotationFits, IsRotating
<1>12. \A o \in Recipients : <<o, r.key>> \in given => Holds(o)'
  BY <1>0, <1>2, <1>6, <1>7 DEF RotationFits, IsRotating, Holds
<1>13. RotationFits'
  BY <1>1, <1>4, <1>5, <1>6, <1>7, <1>10, <1>11, <1>12 DEF RotationFits
<1>14. Rotating'
  BY <1>4, <1>5 DEF Rotating
<1> QED
  BY <1>8, <1>9, <1>13, <1>14 DEF HoldersFacts, AllListed, KeysFitted

LEMMA HoldersPublish ==
    ASSUME SharesTypeOK, HaveIds, HoldersFacts, NEW t \in Tabs, RotatePublish(t), ~raced'
    PROVE  HoldersFacts'
<1> USE StateParts, SharesParts DEF shareTables, shareHistory
<1>0. Numbered /\ CallsFit /\ RotationFits /\ AllListed /\ KeysFitted
  BY DEF HoldersFacts
<1> DEFINE r == rotation[t]
<1>1. /\ r.step = "publish" /\ sealed' = r.key /\ rotation' = [rotation EXCEPT ![t] = NoRotation]
      /\ UNCHANGED <<shares, made, newest, dialog, given, call>>
  BY DEF RotatePublish
<1>2. rotation'[t] = NoRotation /\ \A u \in Tabs \ {t} : rotation'[u] = rotation[u]
  BY <1>1 DEF SharesTypeOK
<1>3. \A u \in Tabs \ {t} : rotation[u].step = "none"
  BY <1>0, <1>1 DEF RotationFits, IsRotating
<1>4. \A u \in Tabs : ~IsRotating(u)'
  BY <1>2, <1>3 DEF IsRotating, NoRotation
<1>5. Active' = Active
  BY <1>1 DEF Active
<1>6. Numbered'
  <2>1. newest \in Nat /\ r.key <= newest /\ \A u \in Tabs : rotation'[u].key <= newest
    BY <1>0, <1>2, SharesAssumption DEF Numbered, NoRotation, SharesTypeOK, Keys
  <2> QED
    <3>1. \A s, o \in Active' : shares'[s].to = shares'[o].to => s = o
      BY <1>0, <1>1, <1>5 DEF Numbered
    <3>2. \A s \in Ids : s > made' => shares'[s].state = "none"
      BY <1>0, <1>1 DEF Numbered
    <3>3. \A p \in Recipients \cup {Nobody}, k \in Keys : <<p, k>> \in given' => k <= newest'
      BY <1>0, <1>1 DEF Numbered
    <3>4. sealed' <= newest' /\ \A u \in Tabs : dialog'[u].key <= newest' /\ rotation'[u].key <= newest'
      BY <1>0, <1>1, <2>1 DEF Numbered
    <3> QED
      BY <3>1, <3>2, <3>3, <3>4 DEF Numbered
<1>7. CallsFit'
  <2>1. \A a \in Actors : call[a].kind \notin {"update", "complete"}
    BY <1>0, <1>1, <1>3 DEF CallsFit
  <2> QED
    BY <1>0, <1>1, <1>5, <2>1 DEF CallsFit
<1>8. RotationFits'
  BY <1>4 DEF RotationFits
<1>9. \A s \in Active : shares[s].key = r.key
  BY <1>0, <1>1 DEF RotationFits, IsRotating
<1>10. KeysFitted'
  BY <1>1, <1>5, <1>9 DEF KeysFitted
<1>11. \A p \in Recipients : <<p, r.key>> \in given => Listed(p)
  <2>1. \A p \in Recipients : <<p, r.key>> \in given => Holds(p)
    BY <1>0, <1>1 DEF RotationFits, IsRotating
  <2> QED
    BY <2>1, ActiveAre DEF Holds, Listed
<1>12. AllListed'
  BY <1>1, <1>11 DEF AllListed, HasRow, Listed
<1> QED
  BY <1>6, <1>7, <1>8, <1>10, <1>12 DEF HoldersFacts

LEMMA HoldersStep ==
    ASSUME SharesTypeOK, HaveIds, HoldersInv, [SharesNext]_sharesVars
    PROVE  HoldersInv'
<1>1. CASE UNCHANGED sharesVars
  <2>1. /\ UNCHANGED <<shares, made, sealed, newest, dialog, call, rotation, given, raced>>
        /\ Active' = Active
    BY <1>1 DEF sharesVars, Active
  <2>2. raced' \/ HoldersFacts'
    <3> SUFFICES ASSUME HoldersFacts PROVE HoldersFacts'
      BY <2>1, HoldersInvIs
    <3> QED
      BY <2>1 DEF HoldersFacts, Numbered, CallsFit, RotationFits, IsRotating, Holds, AllListed, HasRow, Listed,
         KeysFitted, Rotating
  <2> QED
    BY <2>2 DEF HoldersInv, HoldersFacts, HoldersListed, KeysFit, KeysFitted, AllListed, HasRow, Active
<1>2. CASE SharesNext
  <2>1. ASSUME raced PROVE raced'
    BY <1>2, <2>1 DEF SharesNext, ShareStart, CreateCheck, CreateClean, CreateSave, Created, CreateFails, Revoke, HideRow,
       SaveRow, Undone, AddItem, JobFind, SentShares, SentSharesFail, AddShareKeys, AddKeysFails, RotateStart, RotateFinds,
       RotateUpdates, RotateCompletes, RotateMisses, RotatePublish, RotateFails, shareHistory
  <2>2. ASSUME ~raced' PROVE HoldersFacts'
    <3>1. HoldersFacts
      BY <2>1, <2>2, HoldersInvIs
    <3>2. ~(\E t \in Tabs : CreateFails(t) \/ RotateFails(t) \/ \E s \in Ids : RotateMisses(t, s))
      BY <2>2 DEF CreateFails, RotateFails, RotateMisses
    <3> QED
      BY <1>2, <2>2, <3>1, <3>2, HoldersCreate, HoldersSave, HoldersFind, HoldersElse, HoldersRotate,
         HoldersUpdate, HoldersComplete, HoldersPublish DEF SharesNext
  <2> QED
    BY <2>2 DEF HoldersInv, HoldersFacts, HoldersListed, KeysFit, KeysFitted, AllListed, HasRow, Active
<1> QED
  BY <1>1, <1>2

LEMMA HoldersInvariant == SharesSpec => [](SharesTypeOK /\ HaveIds /\ HoldersInv)
<1>1. SharesInit => SharesTypeOK /\ HaveIds /\ HoldersInv
  <2> SUFFICES ASSUME SharesInit PROVE HoldersInv
    BY SharesStart
  <2>1. /\ Active = {} /\ \A s \in Ids : shares[s] = NoRow
        /\ \A t \in Tabs : dialog[t] = NoDialog /\ rotation[t] = NoRotation
        /\ \A a \in Actors : call[a] = NoCall
        /\ given = {} /\ sealed = 0 /\ newest = 0
    BY DEF SharesInit, Active, NoRow
  <2>2. Numbered
    <3>1. \A t \in Tabs : dialog[t].key = 0 /\ rotation[t].key = 0
      BY <2>1 DEF NoDialog, NoRotation
    <3>2. \A s \in Ids : shares[s].state = "none"
      BY <2>1 DEF NoRow
    <3>3. newest = 0 /\ sealed = 0 /\ 0 <= 0 /\ given = {} /\ Active = {}
      BY <2>1
    <3> QED
      BY <3>1, <3>2, <3>3 DEF Numbered
  <2>3. CallsFit /\ RotationFits
    BY <2>1 DEF CallsFit, NoCall, RotationFits, IsRotating, NoRotation
  <2>4. HoldersListed /\ KeysFit
    BY <2>1 DEF HoldersListed, KeysFit, NoRow
  <2> QED
    BY <2>2, <2>3, <2>4 DEF HoldersInv
<1>2. SharesTypeOK /\ HaveIds /\ HoldersInv /\ [SharesNext]_sharesVars
        => (SharesTypeOK /\ HaveIds /\ HoldersInv)'
  BY SharesStep, HoldersStep
<1> QED
  BY <1>1, <1>2, PTL DEF SharesSpec

(* Whoever was given the key that the folder is encrypted with still has a  *)
(* row: however shares are created, revoked, hidden and rotated by any      *)
(* number of tabs and recipients, no row is removed whose holder nobody     *)
(* else remembers, unless a call failed or came between a rotation's steps. *)
THEOREM KeyHoldersListed == SharesSpec => []HoldersListed
<1>1. HoldersInv => HoldersListed
  BY DEF HoldersInv, HoldersListed
<1> QED
  BY <1>1, HoldersInvariant, PTL

(* And a rotation that nothing disturbs leaves every active share with the  *)
(* key that the folder is then encrypted with.                              *)
THEOREM ActiveSharesHaveTheKey == SharesSpec => []KeysFit
<1>1. HoldersInv => KeysFit
  BY DEF HoldersInv, KeysFit
<1> QED
  BY <1>1, HoldersInvariant, PTL

-----------------------------------------------------------------------------
(* Streaming: the parts of the state that its theorems rest on.  What the   *)
(* worker has fetched and what its cache holds play no part in them         *)

AnyVersion == Versions \cup {0, FirstVersion}
AnyPlayer == [st : State, name : Names, version : AnyVersion]

PlayersKept ==
    /\ current \in [Names -> AnyVersion] /\ registry \in [Names -> AnyVersion]
    /\ player \in [Players -> AnyPlayer]

(* Of two dialogs that play one file, the later one has been noted          *)
PairsNoted ==
    \A p, q \in Players :
        p # q /\ Plays(p, player[q].name) /\ player[q].st # "closed" =>
            player[q].name \in crossed

LEMMA MediaStart ==
    ASSUME MediaInit
    PROVE  PlayersKept /\ PairsNoted /\ KeysForgotten /\ StreamsRegistered
BY DEF MediaInit, PlayersKept, AnyVersion, AnyPlayer, State, PairsNoted, Plays, KeysForgotten,
       StreamsRegistered

(* One dialog's new state is in its place, and the others are as they were  *)
LEMMA PlayerSet ==
    ASSUME PlayersKept, NEW p \in Players, NEW st \in State, NEW v \in AnyVersion, Sets(p, st, v)
    PROVE  /\ player' \in [Players -> AnyPlayer]
           /\ player'[p].st = st /\ player'[p].name = player[p].name /\ player'[p].version = v
           /\ \A q \in Players \ {p} : player'[q] = player[q]
<1> DEFINE mid == [player EXCEPT ![p].st = st]
<1>1. player[p] \in AnyPlayer /\ player \in [Players -> AnyPlayer]
  BY DEF PlayersKept
<1>2. /\ mid \in [Players -> AnyPlayer] /\ mid[p].st = st /\ mid[p].name = player[p].name
      /\ \A q \in Players \ {p} : mid[q] = player[q]
  BY <1>1 DEF AnyPlayer
<1>3. player' = [mid EXCEPT ![p].version = v]
  BY <1>1 DEF Sets, AnyPlayer
<1> HIDE DEF mid
<1>4. mid[p] \in AnyPlayer
  BY <1>2
<1> QED
  BY <1>2, <1>3, <1>4 DEF AnyPlayer

-----------------------------------------------------------------------------
(* Streaming: every step                                                    *)

MediaInv == PlayersKept /\ PairsNoted /\ KeysForgotten /\ StreamsRegistered

LEMMA MediaOpens ==
    ASSUME MediaInv, NEW p \in Players, NEW n \in Names, Open(p, n)
    PROVE  MediaInv'
<1>1. PICK st \in {"checking", "loading"} :
        player' = [player EXCEPT ![p] = [st |-> st, name |-> n, version |-> 0]]
  BY DEF Open
<1>2. /\ player' \in [Players -> AnyPlayer]
      /\ player'[p].st = st /\ player'[p].name = n /\ st \notin {"closed", "streaming"}
      /\ \A q \in Players \ {p} : player'[q] = player[q]
  BY <1>1 DEF MediaInv, PlayersKept, AnyPlayer, AnyVersion, State
<1>3. /\ crossed \subseteq crossed'
      /\ (\E q \in Players \ {p} : Plays(q, n)) => n \in crossed'
      /\ player[p].st = "closed"
      /\ UNCHANGED <<current, registry, abandoned, stopped>>
  BY DEF Open, worker
<1>4. PlayersKept'
  BY <1>2, <1>3 DEF MediaInv, PlayersKept, AnyPlayer, AnyVersion
<1>5. PairsNoted'
  BY <1>2, <1>3 DEF MediaInv, PairsNoted, Plays
<1>6. KeysForgotten'
  BY <1>2, <1>3 DEF MediaInv, KeysForgotten
<1>7. StreamsRegistered'
  BY <1>2, <1>3 DEF MediaInv, StreamsRegistered
<1> QED
  BY <1>4, <1>5, <1>6, <1>7 DEF MediaInv

(* What a dialog that is not and will not be streaming learns changes none  *)
(* of it                                                                    *)
LEMMA MediaWaits ==
    ASSUME MediaInv, NEW p \in Players, Resolved(p) \/ Loaded(p) \/ SetUpFails(p)
    PROVE  MediaInv'
<1>1. current[player[p].name] \in AnyVersion /\ player[p] \in AnyPlayer
  BY DEF MediaInv, PlayersKept, AnyPlayer
<1>2. \E st \in State \ {"closed", "streaming"}, v \in AnyVersion : Sets(p, st, v)
  <2>1. CASE Resolved(p)
    BY <1>1, <2>1 DEF Resolved, State, AnyVersion
  <2>2. CASE Loaded(p)
    BY <1>1, <2>2 DEF Loaded, State, AnyVersion
  <2>3. CASE SetUpFails(p)
    BY <2>3 DEF SetUpFails, State, AnyVersion
  <2> QED
    BY <2>1, <2>2, <2>3
<1>3. PICK st \in State \ {"closed", "streaming"}, v \in AnyVersion : Sets(p, st, v)
  BY <1>2
<1>4. /\ player' \in [Players -> AnyPlayer]
      /\ player'[p].st = st /\ player'[p].name = player[p].name
      /\ \A q \in Players \ {p} : player'[q] = player[q]
  BY <1>3, PlayerSet DEF MediaInv
<1>5. /\ player[p].st \notin {"closed", "streaming"}
      /\ UNCHANGED <<current, registry, crossed, abandoned, stopped>>
  BY DEF Resolved, Loaded, SetUpFails, worker, mediaHistory
<1>6. PlayersKept'
  BY <1>4, <1>5 DEF MediaInv, PlayersKept, AnyPlayer, AnyVersion
<1>7. PairsNoted'
  BY <1>4, <1>5 DEF MediaInv, PairsNoted, Plays
<1>8. KeysForgotten'
  BY <1>4, <1>5 DEF MediaInv, KeysForgotten
<1>9. StreamsRegistered'
  BY <1>4, <1>5 DEF MediaInv, StreamsRegistered
<1> QED
  BY <1>6, <1>7, <1>8, <1>9 DEF MediaInv

LEMMA MediaStreams ==
    ASSUME MediaInv, NEW p \in Players, Unwrapped(p)
    PROVE  MediaInv'
<1>1. player[p] \in AnyPlayer /\ player[p].version \in AnyVersion /\ player[p].name \in Names
  BY DEF MediaInv, PlayersKept, AnyPlayer
<1>2. Sets(p, "streaming", player[p].version) /\ "streaming" \in State
  BY DEF Unwrapped, State
<1>3. /\ player' \in [Players -> AnyPlayer]
      /\ player'[p].st = "streaming" /\ player'[p].name = player[p].name
      /\ player'[p].version = player[p].version
      /\ \A q \in Players \ {p} : player'[q] = player[q]
  BY <1>1, <1>2, PlayerSet DEF MediaInv
<1>4. /\ player[p].st = "unwrapping" /\ UNCHANGED <<current, crossed, abandoned, stopped>>
      /\ registry' \in [Names -> AnyVersion] /\ registry'[player[p].name] = player[p].version
      /\ \A n \in Names \ {player[p].name} : registry'[n] = registry[n]
  BY <1>1 DEF Unwrapped, mediaHistory, MediaInv, PlayersKept
<1>5. PlayersKept'
  BY <1>3, <1>4 DEF MediaInv, PlayersKept, AnyPlayer, AnyVersion
<1>6. PairsNoted'
  BY <1>3, <1>4 DEF MediaInv, PairsNoted, Plays
<1>7. KeysForgotten'
  BY <1>3, <1>4 DEF MediaInv, KeysForgotten
<1>8. StreamsRegistered'
  <2> SUFFICES ASSUME ~ stopped', NEW q \in Players, player'[q].st = "streaming",
                      player'[q].name \notin crossed'
               PROVE  registry'[player'[q].name] = player'[q].version
    BY DEF StreamsRegistered
  <2>1. CASE q = p
    BY <1>3, <1>4, <2>1
  <2>2. CASE q # p
    <3>1. player'[q] = player[q] /\ player[q].name \in Names
      BY <1>3, <2>2 DEF MediaInv, PlayersKept, AnyPlayer
    <3>2. player[q].name # player[p].name
      BY <1>4, <2>2, <3>1 DEF MediaInv, PairsNoted, Plays
    <3> QED
      BY <1>4, <3>1, <3>2 DEF MediaInv, StreamsRegistered
  <2> QED
    BY <2>1, <2>2
<1> QED
  BY <1>5, <1>6, <1>7, <1>8 DEF MediaInv

LEMMA MediaCloses ==
    ASSUME MediaInv, NEW p \in Players, ClosePlayer(p)
    PROVE  MediaInv'
<1>1. player[p] \in AnyPlayer /\ player[p].name \in Names /\ 0 \in AnyVersion /\ "closed" \in State
  BY DEF MediaInv, PlayersKept, AnyPlayer, AnyVersion, State
<1>2. /\ player' \in [Players -> AnyPlayer]
      /\ player'[p].st = "closed" /\ player'[p].name = player[p].name
      /\ \A q \in Players \ {p} : player'[q] = player[q]
  BY <1>1, PlayerSet DEF MediaInv, ClosePlayer
<1>3. /\ UNCHANGED <<current, abandoned, stopped>> /\ crossed \subseteq crossed'
      /\ registry' \in [Names -> AnyVersion]
      /\ player[p].st = "streaming" => registry'[player[p].name] = 0
      /\ player[p].st # "streaming" => registry' = registry
      /\ \A n \in Names \ {player[p].name} : registry'[n] = registry[n]
  BY <1>1 DEF ClosePlayer, Unregister, MediaInv, PlayersKept
<1>4. PlayersKept'
  BY <1>2, <1>3 DEF MediaInv, PlayersKept, AnyPlayer, AnyVersion
<1>5. PairsNoted'
  BY <1>2, <1>3 DEF MediaInv, PairsNoted, Plays
<1>6. KeysForgotten'
  <2> SUFFICES ASSUME NEW n \in Names \ abandoned', registry'[n] # 0
               PROVE  \E q \in Players : player'[q].st = "streaming" /\ player'[q].name = n
    BY DEF KeysForgotten
  <2>1. registry[n] # 0 /\ n \notin abandoned /\ ~ (player[p].st = "streaming" /\ player[p].name = n)
    BY <1>3
  <2>2. PICK q \in Players : player[q].st = "streaming" /\ player[q].name = n
    BY <2>1 DEF MediaInv, KeysForgotten
  <2> QED
    BY <1>2, <2>1, <2>2
<1>7. StreamsRegistered'
  <2> SUFFICES ASSUME ~ stopped', NEW q \in Players, player'[q].st = "streaming",
                      player'[q].name \notin crossed'
               PROVE  registry'[player'[q].name] = player'[q].version
    BY DEF StreamsRegistered
  <2>1. q # p /\ player'[q] = player[q] /\ player[q].name \in Names /\ player[q].name \notin crossed
    BY <1>2, <1>3 DEF MediaInv, PlayersKept, AnyPlayer
  <2>2. player[p].st # "streaming" \/ player[q].name # player[p].name
    BY <2>1 DEF MediaInv, PairsNoted, Plays
  <2> QED
    BY <1>3, <2>1, <2>2 DEF MediaInv, StreamsRegistered
<1> QED
  BY <1>4, <1>5, <1>6, <1>7 DEF MediaInv

LEMMA MediaAbandons ==
    ASSUME MediaInv, NEW p \in Players, Abandon(p)
    PROVE  MediaInv'
<1>1. player[p] \in AnyPlayer /\ player[p].name \in Names /\ 0 \in AnyVersion /\ "closed" \in State
  BY DEF MediaInv, PlayersKept, AnyPlayer, AnyVersion, State
<1>2. /\ player' \in [Players -> AnyPlayer]
      /\ player'[p].st = "closed" /\ player'[p].name = player[p].name
      /\ \A q \in Players \ {p} : player'[q] = player[q]
  BY <1>1, PlayerSet DEF MediaInv, Abandon
<1>3. /\ UNCHANGED <<current, registry, crossed, stopped>>
      /\ abandoned' = abandoned \cup {player[p].name}
  BY DEF Abandon
<1>4. PlayersKept'
  BY <1>2, <1>3 DEF MediaInv, PlayersKept, AnyPlayer, AnyVersion
<1>5. PairsNoted'
  BY <1>2, <1>3 DEF MediaInv, PairsNoted, Plays
<1>6. KeysForgotten'
  BY <1>2, <1>3 DEF MediaInv, KeysForgotten
<1>7. StreamsRegistered'
  BY <1>2, <1>3 DEF MediaInv, StreamsRegistered
<1> QED
  BY <1>4, <1>5, <1>6, <1>7 DEF MediaInv

(* The worker's own steps, and another device's                             *)
LEMMA MediaServes ==
    ASSUME MediaInv,
           \/ \E p \in Players : RangeRequest(p)
           \/ FetchArrives \/ FetchFails \/ WorkerStops
           \/ \E n \in Names, v \in Versions : Replace(n, v)
    PROVE  MediaInv'
<1>1. UNCHANGED <<player, crossed, abandoned>>
  BY DEF RangeRequest, FetchArrives, FetchFails, WorkerStops, Replace, worker, mediaHistory
<1>2. \/ UNCHANGED <<current, registry, stopped>>
      \/ registry' = [n \in Names |-> 0] /\ stopped' /\ UNCHANGED current
      \/ /\ UNCHANGED <<registry, stopped>>
         /\ \E n \in Names, v \in Versions : current' = [current EXCEPT ![n] = v]
  BY DEF RangeRequest, FetchArrives, FetchFails, WorkerStops, Replace, worker, mediaHistory
<1>3. current' \in [Names -> AnyVersion] /\ registry' \in [Names -> AnyVersion]
  BY <1>2 DEF MediaInv, PlayersKept, AnyVersion
<1>4. PlayersKept' /\ PairsNoted'
  BY <1>1, <1>3 DEF MediaInv, PlayersKept, AnyPlayer, AnyVersion, PairsNoted, Plays
<1>5. KeysForgotten'
  BY <1>1, <1>2 DEF MediaInv, KeysForgotten
<1>6. StreamsRegistered'
  BY <1>1, <1>2 DEF MediaInv, StreamsRegistered
<1> QED
  BY <1>4, <1>5, <1>6 DEF MediaInv

LEMMA MediaStep ==
    ASSUME MediaInv, [MediaNext]_mediaVars
    PROVE  MediaInv'
<1>1. CASE UNCHANGED mediaVars
  BY <1>1 DEF mediaVars, worker, mediaHistory, MediaInv, PlayersKept, AnyPlayer, AnyVersion,
              PairsNoted, Plays, KeysForgotten, StreamsRegistered
<1>2. CASE MediaNext
  BY <1>2, MediaOpens, MediaWaits, MediaStreams, MediaCloses, MediaAbandons, MediaServes
     DEF MediaNext
<1> QED
  BY <1>1, <1>2

(* However many tabs play however many files, a key that the worker holds   *)
(* is one a dialog plays now: closing a dialog at any point of its set-up,  *)
(* a set-up that fails, a stopped worker and lost fetches leave none        *)
THEOREM KeysDoNotStay == MediaSpec => []KeysForgotten
<1>1. MediaInit => MediaInv
  BY MediaStart DEF MediaInv
<1>2. MediaInv /\ [MediaNext]_mediaVars => MediaInv'
  BY MediaStep
<1>3. MediaInv => KeysForgotten
  BY DEF MediaInv
<1> QED
  BY <1>1, <1>2, <1>3, PTL DEF MediaSpec

(* A dialog that streams finds the key of its version in the worker as long *)
(* as no second dialog plays the same file and the browser has not stopped  *)
(* the worker                                                               *)
THEOREM StreamsHaveKeys == MediaSpec => []StreamsRegistered
<1>1. MediaInit => MediaInv
  BY MediaStart DEF MediaInv
<1>2. MediaInv /\ [MediaNext]_mediaVars => MediaInv'
  BY MediaStep
<1>3. MediaInv => StreamsRegistered
  BY DEF MediaInv
<1> QED
  BY <1>1, <1>2, <1>3, PTL DEF MediaSpec

-----------------------------------------------------------------------------
(* Quotients and remainders                                                 *)

LEMMA DivParts == \A a \in Nat, b \in Nat \ {0} :
                     /\ a \div b \in Nat /\ a % b \in 0..(b - 1) /\ a = b * (a \div b) + (a % b)
BY SMT
LEMMA DivUnique == ASSUME NEW a \in Nat, NEW b \in Nat \ {0}, NEW q \in Nat, NEW r \in 0..(b - 1), a = b * q + r
                   PROVE  a \div b = q /\ a % b = r
<1>1. /\ a \div b \in Nat /\ a % b \in 0..(b - 1) /\ a = b * (a \div b) + (a % b)
  BY DivParts
<1> DEFINE p == a \div b
           s == a % b
<1>2. p \in Nat /\ s \in 0..(b-1) /\ a = b * p + s
  BY <1>1
<1> HIDE DEF p, s
<1>3. b * (p - q) = r - s
  BY <1>2
<1>4. p - q < 1
  <2>1. SUFFICES ASSUME p - q >= 1 PROVE FALSE
    BY <1>2
  <2>2. b * (p - q) >= b
    BY <2>1, <1>2
  <2> QED BY <2>2, <1>2, <1>3
<1>5. q - p < 1
  <2>1. SUFFICES ASSUME q - p >= 1 PROVE FALSE
    BY <1>2
  <2>2. b * (q - p) >= b
    BY <2>1, <1>2
  <2>3. b * (q - p) = s - r
    BY <1>2
  <2> QED BY <2>2, <1>2, <2>3
<1>6. p = q
  BY <1>2, <1>4, <1>5
<1> QED BY <1>2, <1>3, <1>6 DEF p, s
LEMMA DivShift == ASSUME NEW m \in Nat, NEW j \in Nat, NEW b \in Nat \ {0}
                  PROVE  (m * b + j) \div b = m + j \div b /\ (m * b + j) % b = j % b
<1>1. /\ j \div b \in Nat /\ j % b \in 0..(b - 1) /\ j = b * (j \div b) + (j % b)
  BY DivParts
<1> DEFINE q == j \div b
           r == j % b
<1>2. q \in Nat /\ r \in 0..(b-1) /\ j = b * q + r
  BY <1>1
<1> HIDE DEF q, r
<1>3. m * b + j = b * (m + q) + r /\ m * b + j \in Nat /\ m + q \in Nat
  BY <1>2
<1>4. (m * b + j) \div b = m + q /\ (m * b + j) % b = r
  BY <1>2, <1>3, DivUnique
<1> QED BY <1>4 DEF q, r

-----------------------------------------------------------------------------
(* Streaming: the worker's cache                                            *)

OneEach(s) == \A i, j \in 1..Len(s) : s[i].name = s[j].name => i = j
Cache(s) == s \in Seq(Entry) /\ OneEach(s) /\ Len(s) <= CacheSize

LEMMA EntryRemoved ==
    ASSUME NEW s, Cache(s), NEW i \in 1..Len(s)
    PROVE  /\ Cache(RemoveAt(s, i))
           /\ \A j \in 1..Len(RemoveAt(s, i)) :
                \E k \in 1..Len(s) : RemoveAt(s, i)[j] = s[k] /\ k # i
<1> DEFINE a == SubSeq(s, 1, i - 1)
           b == SubSeq(s, i + 1, Len(s))
           t == a \o b
<1>1. s \in Seq(Entry) /\ Len(s) \in Nat /\ i \in Nat \ {0} /\ i <= Len(s)
  BY LenProperties DEF Cache
<1>2. /\ a \in Seq(Entry) /\ Len(a) = i - 1
      /\ \A j \in 1..Len(a) : a[j] = s[1 + j - 1]
  BY <1>1, SubSeqProperties, ElementOfSeq
<1>3. /\ b \in Seq(Entry) /\ Len(b) = Len(s) - i
      /\ \A j \in 1..Len(b) : b[j] = s[i + 1 + j - 1]
  BY <1>1, SubSeqProperties, ElementOfSeq
<1> HIDE DEF a, b
<1>4. /\ t \in Seq(Entry) /\ Len(t) = Len(a) + Len(b)
      /\ \A j \in 1..Len(a) + Len(b) : t[j] = IF j <= Len(a) THEN a[j] ELSE b[j - Len(a)]
  BY <1>2, <1>3, ConcatProperties
<1>5. Len(t) = Len(s) - 1
  BY <1>1, <1>2, <1>3, <1>4
<1>6. ASSUME NEW j \in 1..Len(t) PROVE t[j] = s[IF j < i THEN j ELSE j + 1]
  <2>1. CASE j < i
    BY <1>1, <1>2, <1>3, <1>4, <1>5, <2>1
  <2>2. CASE ~(j < i)
    <3>1. j - Len(a) \in 1..Len(b) /\ j \in 1..Len(a) + Len(b) /\ ~(j <= Len(a))
      BY <1>1, <1>2, <1>3, <1>5, <2>2
    <3>2. b[j - Len(a)] = s[i + 1 + (j - Len(a)) - 1]
      BY <1>3, <3>1
    <3>3. i + 1 + (j - Len(a)) - 1 = j + 1
      BY <1>1, <1>2
    <3> QED
      BY <1>4, <2>2, <3>1, <3>2, <3>3
  <2> QED
    BY <2>1, <2>2
<1> DEFINE at(j) == IF j < i THEN j ELSE j + 1
<1>7. \A j \in 1..Len(t) : at(j) \in 1..Len(s) /\ at(j) # i
  BY <1>1, <1>5
<1>8. \A j, k \in 1..Len(t) : at(j) = at(k) => j = k
  BY <1>1, <1>5
<1>9. \A j \in 1..Len(t) : t[j] = s[at(j)]
  BY <1>6
<1> HIDE DEF t, at
<1>10. OneEach(t)
  <2> SUFFICES ASSUME NEW j \in 1..Len(t), NEW k \in 1..Len(t), t[j].name = t[k].name PROVE j = k
    BY DEF OneEach
  <2>1. at(j) = at(k)
    BY <1>7, <1>9 DEF Cache, OneEach
  <2> QED
    BY <1>8, <2>1
<1>11. \A j \in 1..Len(t) : \E k \in 1..Len(s) : t[j] = s[k] /\ k # i
  BY <1>7, <1>9
<1>12. Cache(t)
  BY <1>1, <1>4, <1>5, <1>10, StreamAssumption DEF Cache
<1> QED
  BY <1>11, <1>12 DEF RemoveAt, t, a, b

LEMMA RoomMade ==
    ASSUME Cache(swCache)
    PROVE  /\ Cache(Room) /\ Len(Room) < CacheSize
           /\ \A j \in 1..Len(Room) : \E k \in 1..Len(swCache) : Room[j] = swCache[k]
<1>1. swCache \in Seq(Entry) /\ Len(swCache) \in Nat /\ CacheSize \in Nat \ {0}
  BY LenProperties, StreamAssumption DEF Cache
<1>2. CASE Len(swCache) >= CacheSize
  <2>1. Room = Tail(swCache) /\ swCache # <<>>
    BY <1>1, <1>2, EmptySeq DEF Room
  <2>2. /\ Room \in Seq(Entry) /\ Len(Room) = Len(swCache) - 1
        /\ \A j \in 1..Len(Room) : Room[j] = swCache[j + 1]
    BY <1>1, <2>1, HeadTailProperties
  <2> HIDE DEF Room
  <2>3. OneEach(Room)
    BY <1>1, <2>2 DEF Cache, OneEach
  <2> QED
    BY <1>1, <2>2, <2>3 DEF Cache
<1>3. CASE ~(Len(swCache) >= CacheSize)
  BY <1>1, <1>3 DEF Room
<1> QED
  BY <1>2, <1>3

LEMMA EntrySet ==
    ASSUME Cache(swCache), NEW e \in Entry, CacheSet(e)
    PROVE  /\ Cache(swCache')
           /\ \A j \in 1..Len(swCache') :
                swCache'[j] = e \/ \E k \in 1..Len(swCache) : swCache'[j] = swCache[k]
<1>1. /\ Cache(Room) /\ Len(Room) < CacheSize /\ CacheSize \in Nat
      /\ \A j \in 1..Len(Room) : \E k \in 1..Len(swCache) : Room[j] = swCache[k]
  BY RoomMade, StreamAssumption
<1>2. PICK r : r = Room
  OBVIOUS
<1>3. /\ r \in Seq(Entry) /\ OneEach(r) /\ Len(r) < CacheSize /\ Len(r) \in Nat /\ DOMAIN r = 1..Len(r)
      /\ \A j \in 1..Len(r) : r[j] \in Entry
      /\ \A j \in 1..Len(r) : \E k \in 1..Len(swCache) : r[j] = swCache[k]
  BY <1>1, <1>2, LenProperties, ElementOfSeq DEF Cache
<1>4. CASE \E i \in 1..Len(r) : r[i].name = e.name
  <2>1. swCache' = [i \in 1..Len(r) |-> IF r[i].name = e.name THEN e ELSE r[i]]
    BY <1>2, <1>3, <1>4 DEF CacheSet
  <2>2. /\ swCache' \in Seq(Entry) /\ Len(swCache') = Len(r)
        /\ \A j \in 1..Len(swCache') : swCache'[j] = IF r[j].name = e.name THEN e ELSE r[j]
    BY <1>3, <2>1, IsASeq
  <2>3. OneEach(swCache')
    BY <1>3, <2>2 DEF OneEach
  <2> QED
    BY <1>1, <1>3, <2>2, <2>3 DEF Cache
<1>5. CASE ~\E i \in 1..Len(r) : r[i].name = e.name
  <2>1. swCache' = Append(r, e)
    BY <1>2, <1>3, <1>5 DEF CacheSet
  <2>2. /\ swCache' \in Seq(Entry) /\ Len(swCache') = Len(r) + 1 /\ swCache'[Len(r) + 1] = e
        /\ \A j \in 1..Len(r) : swCache'[j] = r[j]
    BY <1>3, <2>1, AppendProperties
  <2>3. \A j \in 1..Len(swCache') : j \in 1..Len(r) \/ j = Len(r) + 1
    BY <1>3, <2>2
  <2>4. OneEach(swCache')
    BY <1>3, <1>5, <2>2, <2>3 DEF OneEach
  <2>5. Cache(swCache')
    BY <1>1, <1>3, <2>2, <2>4 DEF Cache
  <2>6. \A j \in 1..Len(swCache') : swCache'[j] = e \/ \E k \in 1..Len(swCache) : swCache'[j] = swCache[k]
    BY <1>3, <2>2, <2>3
  <2> QED
    BY <2>5, <2>6
<1> QED
  BY <1>4, <1>5

-----------------------------------------------------------------------------
(* Streaming: what is fetched and cached belongs to the key registered      *)

HasEntry(n, v) ==
    \/ \E i \in 1..Len(swCache) : swCache[i].name = n /\ swCache[i].version = v
    \/ \E q \in fetches : q.name = n /\ q.version = v

CacheFits ==
    /\ Cache(swCache) /\ fetches \subseteq Entry
    /\ registry \in [Names -> Ctr \cup {0}] /\ current \in [Names -> Versions]
    /\ \A p \in Players :
        /\ player[p].version \in Versions \cup {0}
        /\ player[p].st \in {"unwrapping", "streaming"} => player[p].version \in Ctr
    /\ \A n \in Names \ (crossed \cup abandoned), v \in Versions :
        HasEntry(n, v) => registry[n] = v

LEMMA CacheStart == ASSUME MediaInit PROVE CacheFits
<1>1. FirstVersion \in Versions
  BY StreamAssumption DEF FirstVersion
<1>2. swCache = <<>> /\ fetches = {} /\ Cache(swCache)
  BY StreamAssumption, EmptySeq DEF MediaInit, Cache, OneEach
<1> QED
  BY <1>1, <1>2, EmptySeq DEF MediaInit, CacheFits, HasEntry

(* Steps that leave the worker alone                                        *)
LEMMA CacheWaits ==
    ASSUME MediaInv, CacheFits, UNCHANGED worker, crossed \subseteq crossed', abandoned \subseteq abandoned',
           current' \in [Names -> Versions],
           \A p \in Players :
              /\ player'[p].version \in Versions \cup {0}
              /\ player'[p].st \in {"unwrapping", "streaming"} => player'[p].version \in Ctr
    PROVE  CacheFits'
BY DEF CacheFits, worker, HasEntry

LEMMA CachePlayer ==
    ASSUME MediaInv, CacheFits, NEW p \in Players, NEW st \in State, NEW v \in Versions \cup {0},
           Sets(p, st, v), st \in {"unwrapping", "streaming"} => v \in Ctr
    PROVE  \A q \in Players :
              /\ player'[q].version \in Versions \cup {0}
              /\ player'[q].st \in {"unwrapping", "streaming"} => player'[q].version \in Ctr
<1>1. v \in AnyVersion
  BY DEF AnyVersion
<1> QED
  BY <1>1, PlayerSet DEF MediaInv, CacheFits

LEMMA CacheStep ==
    ASSUME MediaInv, CacheFits, [MediaNext]_mediaVars
    PROVE  CacheFits'
<1>0. player \in [Players -> AnyPlayer] /\ \A p \in Players : player[p] \in AnyPlayer /\ player[p].name \in Names
  BY DEF MediaInv, PlayersKept, AnyPlayer
<1>1. ASSUME NEW p \in Players, NEW n \in Names, Open(p, n) PROVE CacheFits'
  <2>1. PICK st \in {"checking", "loading"} :
          player' = [player EXCEPT ![p] = [st |-> st, name |-> n, version |-> 0]]
    BY <1>1 DEF Open
  <2>2. \A q \in Players :
              /\ player'[q].version \in Versions \cup {0}
              /\ player'[q].st \in {"unwrapping", "streaming"} => player'[q].version \in Ctr
    BY <1>0, <2>1 DEF CacheFits
  <2> QED
    BY <1>1, <2>2, CacheWaits DEF Open, CacheFits
<1>2. ASSUME NEW p \in Players, Resolved(p) \/ Loaded(p) \/ SetUpFails(p) PROVE CacheFits'
  <2>1. current[player[p].name] \in Versions
    BY <1>0 DEF CacheFits
  <2>2. \E st \in State, v \in Versions \cup {0} :
          Sets(p, st, v) /\ (st \in {"unwrapping", "streaming"} => v \in Ctr)
    <3>1. CASE Resolved(p)
      BY <2>1, <3>1 DEF Resolved, State
    <3>2. CASE Loaded(p)
      BY <2>1, <3>2 DEF Loaded, State
    <3>3. CASE SetUpFails(p)
      BY <3>3 DEF SetUpFails, State
    <3> QED
      BY <1>2, <3>1, <3>2, <3>3
  <2>3. \A q \in Players :
              /\ player'[q].version \in Versions \cup {0}
              /\ player'[q].st \in {"unwrapping", "streaming"} => player'[q].version \in Ctr
    BY <2>2, CachePlayer
  <2>4. UNCHANGED <<worker, crossed, abandoned, current>>
    BY <1>2 DEF Resolved, Loaded, SetUpFails, mediaHistory
  <2> QED
    BY <2>3, <2>4, CacheWaits DEF CacheFits
<1>3. ASSUME NEW p \in Players, Unwrapped(p) PROVE CacheFits'
  <2> DEFINE m == player[p].name
  <2>1. /\ player[p].st = "unwrapping" /\ player[p].version \in Ctr /\ player[p].version \in Versions \cup {0} /\ m \in Names
        /\ Sets(p, "streaming", player[p].version) /\ "streaming" \in State
        /\ registry' = [registry EXCEPT ![m] = player[p].version]
        /\ UNCHANGED <<swCache, fetches, crossed, abandoned, current>>
    BY <1>0, <1>3 DEF Unwrapped, mediaHistory, CacheFits, State
  <2>2. \A q \in Players :
              /\ player'[q].version \in Versions \cup {0}
              /\ player'[q].st \in {"unwrapping", "streaming"} => player'[q].version \in Ctr
    BY <2>1, CachePlayer
  <2>3. ASSUME m \notin crossed \cup abandoned, NEW v \in Versions, HasEntry(m, v) PROVE FALSE
    <3>1. registry[m] = v /\ v # 0
      BY <2>1, <2>3, StreamAssumption DEF CacheFits
    <3>2. PICK q \in Players : player[q].st = "streaming" /\ player[q].name = m
      BY <2>1, <2>3, <3>1 DEF MediaInv, KeysForgotten
    <3> QED
      BY <2>1, <2>3, <3>2 DEF MediaInv, PairsNoted, Plays
  <2>4. registry' \in [Names -> Ctr \cup {0}] /\ \A n \in Names \ {m} : registry'[n] = registry[n]
    BY <2>1 DEF CacheFits
  <2>5. \A n, v : HasEntry(n, v)' <=> HasEntry(n, v)
    BY <2>1 DEF HasEntry
  <2> QED
    BY <2>1, <2>2, <2>3, <2>4, <2>5 DEF CacheFits
<1>4. ASSUME NEW p \in Players, ClosePlayer(p) PROVE CacheFits'
  <2> DEFINE m == player[p].name
  <2>1. \A q \in Players :
              /\ player'[q].version \in Versions \cup {0}
              /\ player'[q].st \in {"unwrapping", "streaming"} => player'[q].version \in Ctr
    BY <1>4, CachePlayer DEF ClosePlayer, State
  <2>2. CASE player[p].st # "streaming"
    BY <1>4, <2>1, <2>2, CacheWaits DEF ClosePlayer, worker, CacheFits
  <2>3. CASE player[p].st = "streaming"
    <3>1. Unregister(m) /\ UNCHANGED <<current, fetches, based, abandoned>> /\ m \in Names
      BY <1>0, <1>4, <2>3 DEF ClosePlayer
    <3>2. /\ registry' \in [Names -> Ctr \cup {0}] /\ \A n \in Names \ {m} : registry'[n] = registry[n]
          /\ crossed \subseteq crossed' /\ (m \in crossed' \/ ~Fetching(m))
      BY <3>1 DEF Unregister, CacheFits
    <3>3. /\ Cache(swCache')
          /\ \A j \in 1..Len(swCache') : \E k \in 1..Len(swCache) :
                swCache'[j] = swCache[k] /\ swCache[k].name # m
      <4>0. Cache(swCache) /\ DOMAIN swCache = 1..Len(swCache)
        BY LenProperties DEF CacheFits, Cache
      <4>1. CASE Slots(m) = {}
        BY <3>1, <4>0, <4>1 DEF Unregister, Slots
      <4>2. CASE Slots(m) # {}
        <5>1. PICK i \in 1..Len(swCache) : swCache' = RemoveAt(swCache, i) /\ swCache[i].name = m
          BY <3>1, <4>0, <4>2 DEF Unregister, Slots
        <5>2. \A k \in 1..Len(swCache) : k # i => swCache[k].name # m
          BY <4>0, <5>1 DEF Cache, OneEach
        <5>3. /\ Cache(RemoveAt(swCache, i))
              /\ \A j \in 1..Len(RemoveAt(swCache, i)) :
                    \E k \in 1..Len(swCache) : RemoveAt(swCache, i)[j] = swCache[k] /\ k # i
          BY <4>0, EntryRemoved
        <5> HIDE DEF m
        <5> QED
          BY <5>1, <5>2, <5>3
      <4> QED
        BY <4>1, <4>2
    <3>4. \A n \in Names, v \in Versions : HasEntry(n, v)' => HasEntry(n, v) /\ (n = m => Fetching(m))
      BY <3>1, <3>3 DEF HasEntry, Fetching
    <3> QED
      BY <2>1, <3>1, <3>2, <3>3, <3>4 DEF CacheFits
  <2> QED
    BY <2>2, <2>3
<1>5. ASSUME NEW p \in Players, Abandon(p) PROVE CacheFits'
  <2>1. \A q \in Players :
              /\ player'[q].version \in Versions \cup {0}
              /\ player'[q].st \in {"unwrapping", "streaming"} => player'[q].version \in Ctr
    BY <1>5, CachePlayer DEF Abandon, State
  <2>2. \A n, v : HasEntry(n, v)' <=> HasEntry(n, v)
    BY <1>5 DEF HasEntry, Abandon
  <2> QED
    BY <1>5, <2>1, <2>2 DEF Abandon, CacheFits
<1>6. ASSUME NEW p \in Players, RangeRequest(p) PROVE CacheFits'
  <2> DEFINE m == player[p].name
             q == [name |-> m, version |-> registry[m]]
  <2>1. /\ m \in Names /\ registry[m] \in Versions
        /\ fetches' = fetches \cup {q} /\ UNCHANGED <<current, player, registry, swCache, crossed, abandoned>>
    BY <1>0, <1>6, StreamAssumption DEF RangeRequest, mediaHistory, CacheFits
  <2>2. q \in Entry /\ q.name = m /\ q.version = registry[m]
    BY <2>1 DEF Entry
  <2> HIDE DEF q
  <2>3. \A n, v : HasEntry(n, v)' => HasEntry(n, v) \/ (n = m /\ v = registry[m])
    BY <2>1, <2>2 DEF HasEntry
  <2> QED
    BY <2>1, <2>2, <2>3 DEF CacheFits
<1>7. ASSUME FetchArrives PROVE CacheFits'
  <2>1. PICK q \in fetches : CacheSet(q) /\ fetches' = fetches \ {q}
    BY <1>7 DEF FetchArrives
  <2>2. /\ q \in Entry /\ Cache(swCache) /\ UNCHANGED <<current, player, registry, crossed, abandoned>>
    BY <1>7 DEF FetchArrives, mediaHistory, CacheFits
  <2>3. /\ Cache(swCache')
        /\ \A j \in 1..Len(swCache') : swCache'[j] = q \/ \E k \in 1..Len(swCache) : swCache'[j] = swCache[k]
    BY <2>1, <2>2, EntrySet
  <2>4. \A n, v : HasEntry(n, v)' => HasEntry(n, v)
    BY <2>1, <2>3 DEF HasEntry
  <2> QED
    BY <2>1, <2>2, <2>3, <2>4 DEF CacheFits
<1>8. ASSUME FetchFails PROVE CacheFits'
  <2>1. fetches' \subseteq fetches /\ UNCHANGED <<current, player, registry, swCache, crossed, abandoned>>
    BY <1>8 DEF FetchFails, mediaHistory
  <2>2. \A n, v : HasEntry(n, v)' => HasEntry(n, v)
    BY <2>1 DEF HasEntry
  <2> QED
    BY <2>1, <2>2 DEF CacheFits
<1>9. ASSUME WorkerStops PROVE CacheFits'
  <2>1. /\ fetches' = {} /\ swCache' = <<>> /\ registry' = [n \in Names |-> 0]
        /\ UNCHANGED <<current, player, crossed, abandoned>>
    BY <1>9 DEF WorkerStops
  <2>2. Cache(swCache') /\ \A n, v : ~HasEntry(n, v)'
    BY <2>1, StreamAssumption, EmptySeq DEF Cache, OneEach, HasEntry
  <2> QED
    BY <2>1, <2>2 DEF CacheFits
<1>10. ASSUME NEW n \in Names, NEW v \in Versions, Replace(n, v) PROVE CacheFits'
  BY <1>10, CacheWaits DEF Replace, CacheFits
<1>11. CASE UNCHANGED mediaVars
  <2>1. UNCHANGED <<current, player, worker, crossed, abandoned>>
    BY <1>11 DEF mediaVars, mediaHistory
  <2> QED
    BY <2>1, CacheWaits DEF CacheFits
<1> QED
  BY <1>1, <1>2, <1>3, <1>4, <1>5, <1>6, <1>7, <1>8, <1>9, <1>10, <1>11 DEF MediaNext

-----------------------------------------------------------------------------
(* Streaming: ranges of a counter mode file                                 *)

(* A chunk starts at the counter its offset has in the whole file, so that  *)
(* the chunks leave no trace                                                *)
LEMMA CountersAgree ==
    ASSUME NEW i \in Nat
    PROVE  CounterAt(i) = i \div Block /\ (i % Chunk) % Block = i % Block
<1>1. Block \in Nat \ {0} /\ Chunk \in Nat \ {0} /\ Chunk % Block = 0
  BY StreamAssumption
<1>2. /\ Chunk \div Block \in Nat /\ Chunk = Block * (Chunk \div Block) + (Chunk % Block)
      /\ i \div Chunk \in Nat /\ i % Chunk \in 0..(Chunk - 1) /\ i = Chunk * (i \div Chunk) + (i % Chunk)
  BY <1>1, DivParts
<1>3. PICK k, q, r : k = Chunk \div Block /\ q = i \div Chunk /\ r = i % Chunk
  OBVIOUS
<1>4. k \in Nat /\ q \in Nat /\ r \in Nat /\ Chunk = Block * k /\ i = Chunk * q + r
  BY <1>1, <1>2, <1>3
<1>5. q * Chunk = (q * k) * Block + 0 /\ i = (q * k) * Block + r /\ i - q * Chunk = r /\ q * k \in Nat
  BY <1>1, <1>4
<1>6. (q * Chunk) \div Block = q * k + 0 \div Block
  BY <1>1, <1>5, DivShift
<1>7. 0 \div Block = 0
  BY <1>1, DivUnique
<1>8. i \div Block = q * k + r \div Block /\ i % Block = r % Block
  <2> DEFINE m == q * k
  <2>1. m \in Nat /\ i = m * Block + r
    BY <1>5
  <2> HIDE DEF m
  <2>2. (m * Block + r) \div Block = m + r \div Block /\ (m * Block + r) % Block = r % Block
    BY <1>1, <1>4, <2>1, DivShift
  <2>3. i \div Block = m + r \div Block /\ i % Block = r % Block
    BY <2>1, <2>2
  <2> QED
    BY <2>3 DEF m
<1>9. CounterAt(i) = (q * Chunk) \div Block + (i - q * Chunk) \div Block
  BY <1>3 DEF CounterAt
<1>10. r \div Block \in Nat
  BY <1>1, <1>4, DivParts
<1> QED
  BY <1>3, <1>5, <1>6, <1>7, <1>8, <1>9, <1>10

LEMMA ByteDecrypted ==
    ASSUME NEW v \in Versions, NEW i \in 0 .. SizeOf[v] - 1,
           NEW counter, counter = i \div Block, NEW at, at = i % Block
    PROVE  Decrypted(Encrypted(v)[i], v, counter, at) = i
<1>1. i \in Nat
  BY StreamAssumption
<1>2. Encrypted(v)[i] = [key |-> v, counter |-> CounterAt(i), at |-> (i % Chunk) % Block, plain |-> i]
  BY DEF Encrypted, Bytes
<1>3. CounterAt(i) = i \div Block /\ (i % Chunk) % Block = i % Block
  BY <1>1, CountersAgree
<1> QED
  BY <1>2, <1>3 DEF Decrypted

Plain(start, end) == [n \in 1 .. end - start + 1 |-> start + n - 1]

LEMMA RangeDecrypted ==
    ASSUME NEW v \in Versions, NEW start \in Nat, NEW end \in Nat, start <= end, end < SizeOf[v]
    PROVE  DecryptRange(Encrypted(v), SizeOf[v], v, start, end) = Plain(start, end)
<1> DEFINE sb == start \div Block
           from == sb * Block
           to == AlignedEnd(end, SizeOf[v])
           slice == [j \in 0 .. to - from - 1 |->
                       Decrypted(Encrypted(v)[from + j], v, sb + j \div Block, j % Block)]
           many == IF end - start + 1 < to - start THEN end - start + 1 ELSE to - start
<1>1. SizeOf[v] \in Nat \ {0} /\ Block \in Nat \ {0}
  BY StreamAssumption
<1>2. /\ sb \in Nat /\ start % Block \in 0 .. (Block - 1) /\ start = Block * sb + (start % Block)
      /\ end \div Block \in Nat /\ end % Block \in 0 .. (Block - 1)
      /\ end = Block * (end \div Block) + (end % Block)
  BY <1>1, DivParts
<1>3. from \in Nat /\ from <= start
  BY <1>1, <1>2
<1>4. to \in Nat /\ end < to /\ to <= SizeOf[v]
  <2>1. PICK q, r : q = end \div Block /\ r = end % Block
    OBVIOUS
  <2>2. q \in Nat /\ r \in 0 .. (Block - 1) /\ end = Block * q + r
    BY <1>2, <2>1
  <2>3. (q + 1) * Block \in Nat /\ (q + 1) * Block = Block * q + Block
    BY <1>1, <2>2
  <2>4. to = IF (q + 1) * Block < SizeOf[v] THEN (q + 1) * Block ELSE SizeOf[v]
    BY <2>1 DEF AlignedEnd
  <2> QED
    BY <1>1, <2>2, <2>3, <2>4
<1>5. many = end - start + 1
  BY <1>4
<1>6. ASSUME NEW j \in 0 .. to - from - 1 PROVE slice[j] = from + j
  <2>1. j \in Nat /\ from + j \in 0 .. SizeOf[v] - 1
    BY <1>1, <1>3, <1>4
  <2>2. (from + j) \div Block = sb + j \div Block /\ (from + j) % Block = j % Block
    BY <1>1, <1>2, <2>1, DivShift
  <2>3. Decrypted(Encrypted(v)[from + j], v, sb + j \div Block, j % Block) = from + j
    BY <2>1, <2>2, ByteDecrypted
  <2> QED
    BY <2>3
<1>7. DecryptRange(Encrypted(v), SizeOf[v], v, start, end) = [n \in 1 .. many |-> slice[start - from + n - 1]]
  BY DEF DecryptRange
<1> HIDE DEF slice, to, from, many
<1>8. ASSUME NEW n \in 1 .. end - start + 1 PROVE slice[start - from + n - 1] = start + n - 1
  <2>1. start - from + n - 1 \in 0 .. to - from - 1
    BY <1>3, <1>4
  <2> QED
    BY <1>3, <1>6, <2>1
<1> QED
  BY <1>5, <1>7, <1>8 DEF Plain

LEMMA FileDecrypted ==
    ASSUME NEW v \in Versions
    PROVE  DecryptAll(Encrypted(v), SizeOf[v], v) = Plain(0, SizeOf[v] - 1)
<1>1. SizeOf[v] \in Nat \ {0}
  BY StreamAssumption
<1>2. ASSUME NEW n \in 1 .. SizeOf[v]
      PROVE  Decrypted(Encrypted(v)[n - 1], v, (n - 1) \div Block, (n - 1) % Block) = n - 1
  BY <1>1, <1>2, ByteDecrypted
<1>3. (SizeOf[v] - 1) - 0 + 1 = SizeOf[v] /\ \A n \in 1 .. SizeOf[v] : 0 + n - 1 = n - 1
  BY <1>1
<1> QED
  BY <1>2, <1>3 DEF DecryptAll, Plain

-----------------------------------------------------------------------------
(* Streaming: range headers                                                 *)

LEMMA RangeCases ==
    ASSUME NEW limit \in Nat, NEW range \in Ranges(limit)
    PROVE  \/ range.kind = "none"
           \/ range.kind = "suffix" /\ range.length \in Nat
           \/ range.kind = "from" /\ range.start \in Nat /\ range.end \in {NoEnd} \cup Nat
BY DEF Ranges

LEMMA RangeNamed ==
    ASSUME NEW limit \in Nat, NEW range \in Ranges(limit), NEW total \in Nat \ {0}
    PROVE  /\ Start(range, total) \in Nat /\ End(range, total) \in Int /\ End(range, total) < total
           /\ Named(range, total) = Start(range, total) .. End(range, total)
<1>1. CASE range.kind = "none"
  <2>1. Start(range, total) = 0 /\ End(range, total) = total - 1
    BY <1>1 DEF Start, End
  <2>2. Named(range, total) = {i \in 0 .. total - 1 : TRUE}
    BY <1>1 DEF Named
  <2> QED
    BY <2>1, <2>2
<1>2. CASE range.kind = "suffix"
  <2>1. range.length \in Nat
    BY <1>2, RangeCases
  <2>2. /\ Start(range, total) = IF range.length < total THEN total - range.length ELSE 0
        /\ End(range, total) = total - 1
    BY <1>2 DEF Start, End
  <2>3. Named(range, total) = {i \in 0 .. total - 1 : i >= total - range.length}
    BY <1>2 DEF Named
  <2> QED
    BY <2>1, <2>2, <2>3
<1>3. CASE range.kind = "from"
  <2>1. range.start \in Nat /\ range.end \in {NoEnd} \cup Nat
    BY <1>3, RangeCases
  <2>2. /\ Start(range, total) = range.start
        /\ End(range, total) = IF range.end # NoEnd /\ range.end < total THEN range.end ELSE total - 1
    BY <1>3 DEF Start, End
  <2>3. Named(range, total) =
          {i \in 0 .. total - 1 : range.start <= i /\ (range.end = NoEnd \/ i <= range.end)}
    BY <1>3 DEF Named
  <2>4. End(range, total) \in Int /\ End(range, total) < total
    BY <2>1, <2>2 DEF NoEnd
  <2>5. \A i \in 0 .. total - 1 :
          (range.end = NoEnd \/ i <= range.end) <=> i <= End(range, total)
    BY <2>1, <2>2 DEF NoEnd
  <2> QED
    BY <2>1, <2>2, <2>3, <2>4, <2>5
<1> QED
  BY <1>1, <1>2, <1>3, RangeCases

(* The bytes of a range, in order                                           *)
LEMMA PlainIs ==
    ASSUME NEW start \in Nat, NEW end \in Nat, start <= end
    PROVE  /\ ToSet(Plain(start, end)) = start .. end
           /\ \A i, j \in DOMAIN Plain(start, end) : i < j => Plain(start, end)[i] < Plain(start, end)[j]
<1>1. DOMAIN Plain(start, end) = 1 .. end - start + 1
      /\ \A n \in 1 .. end - start + 1 : Plain(start, end)[n] = start + n - 1
  BY DEF Plain
<1>2. ToSet(Plain(start, end)) = {Plain(start, end)[n] : n \in 1 .. end - start + 1}
  BY <1>1 DEF ToSet
<1>3. \A i \in start .. end : i - start + 1 \in 1 .. end - start + 1 /\ start + (i - start + 1) - 1 = i
  OBVIOUS
<1>4. \A n \in 1 .. end - start + 1 : start + n - 1 \in start .. end
  OBVIOUS
<1>5. ToSet(Plain(start, end)) \subseteq start .. end
  BY <1>1, <1>2, <1>4
<1>6. start .. end \subseteq ToSet(Plain(start, end))
  BY <1>1, <1>2, <1>3
<1>7. \A i, j \in 1 .. end - start + 1 : i < j => Plain(start, end)[i] < Plain(start, end)[j]
  BY <1>1
<1>8. ToSet(Plain(start, end)) = start .. end
  BY <1>5, <1>6, Zenon
<1> QED
  BY <1>1, <1>7, <1>8

(* With a version's own key every answer is right                           *)
LEMMA AnswerRight ==
    ASSUME NEW v \in Versions, NEW limit \in Nat, NEW range \in Ranges(limit)
    PROVE  /\ Right(Answer(range, v, v), range, SizeOf[v])
           /\ range.kind = "from" /\ range.end >= range.start =>
                DecryptAesCtrRange(Encrypted(v), SizeOf[v], v, range.start, range.end)
                    = Answer(range, v, v).body
           /\ range.kind = "none" =>
                DecryptAll(Encrypted(v), SizeOf[v], v) = Answer(range, v, v).body
<1>1. PICK start, end, total : /\ start = Start(range, total) /\ end = End(range, total)
                               /\ total = SizeOf[v]
  OBVIOUS
<1>2. total \in Nat \ {0}
  BY <1>1, StreamAssumption
<1>3. /\ start \in Nat /\ end \in Int /\ end < total
      /\ Named(range, total) = start .. end
  BY <1>1, <1>2, RangeNamed
<1>4. CASE start > end
  <2>1. Answer(range, v, v) = [status |-> 416, body |-> <<>>]
    BY <1>1, <1>4 DEF Answer
  <2>2. Named(range, total) = {}
    BY <1>3, <1>4
  <2>3. ASSUME range.kind = "from", range.end >= range.start
        PROVE  DecryptAesCtrRange(Encrypted(v), SizeOf[v], v, range.start, range.end) = <<>>
    <3>1. range.start \in Nat /\ range.end \in Nat
      BY <2>3, RangeCases DEF NoEnd
    <3>2. start = range.start /\ end = IF range.end < total THEN range.end ELSE total - 1
      BY <1>1, <2>3, <3>1 DEF Start, End, NoEnd
    <3> QED
      BY <1>1, <1>4, <3>1, <3>2 DEF DecryptAesCtrRange
  <2>4. range.kind # "none"
    BY <1>1, <1>2, <1>4 DEF Start, End
  <2> QED
    BY <1>1, <2>1, <2>2, <2>3, <2>4 DEF Right
<1>5. CASE ~(start > end)
  <2>0. end \in Nat /\ start <= end
    BY <1>3, <1>5
  <2>1. Answer(range, v, v) = [status |-> RangeStatus(range),
                               body |-> DecryptRange(Encrypted(v), SizeOf[v], v, start, end)]
    BY <1>1, <1>5 DEF Answer
  <2>2. DecryptRange(Encrypted(v), SizeOf[v], v, start, end) = Plain(start, end)
    BY <1>1, <1>3, <2>0, RangeDecrypted
  <2>3. Answer(range, v, v).status = RangeStatus(range) /\ Answer(range, v, v).body = Plain(start, end)
    BY <2>1, <2>2
  <2>4. Named(range, total) # {}
    <3>1. start \in start .. end
      BY <1>3, <2>0
    <3> QED
      BY <1>3, <3>1, Zenon
  <2>5. Right(Answer(range, v, v), range, SizeOf[v])
    BY <1>1, <1>3, <2>0, <2>3, <2>4, PlainIs DEF Right
  <2>6. ASSUME range.kind = "from", range.end >= range.start
        PROVE  DecryptAesCtrRange(Encrypted(v), SizeOf[v], v, range.start, range.end) = Plain(start, end)
    <3>1. range.start \in Nat /\ range.end \in Nat
      BY <2>6, RangeCases DEF NoEnd
    <3>2. start = range.start /\ end = IF range.end < total THEN range.end ELSE total - 1
      BY <1>1, <2>6, <3>1 DEF Start, End, NoEnd
    <3>3. DecryptAesCtrRange(Encrypted(v), SizeOf[v], v, range.start, range.end)
            = DecryptRange(Encrypted(v), SizeOf[v], v, start, end)
      BY <1>1, <2>0, <3>1, <3>2 DEF DecryptAesCtrRange
    <3> QED
      BY <2>2, <3>3
  <2>7. range.kind = "none" => start = 0 /\ end = SizeOf[v] - 1
    BY <1>1 DEF Start, End
  <2>8. range.kind = "none" => DecryptAll(Encrypted(v), SizeOf[v], v) = Plain(start, end)
    BY <2>7, FileDecrypted
  <2> QED
    BY <2>3, <2>5, <2>6, <2>8
<1> QED
  BY <1>4, <1>5

(* Whatever the sizes of chunks, blocks and files, and however many tabs    *)
(* play, every byte range the worker cuts out of its cache is the range of  *)
(* the registered version's plaintext that the header names                 *)
THEOREM RangesAreRight == MediaSpec => []RangesRight
<1>1. MediaInit => MediaInv /\ CacheFits
  BY MediaStart, CacheStart DEF MediaInv
<1>2. MediaInv /\ CacheFits /\ [MediaNext]_mediaVars => (MediaInv /\ CacheFits)'
  BY MediaStep, CacheStep
<1>3. CacheFits => RangesRight
  <2> SUFFICES ASSUME CacheFits, NEW e \in ToSet(swCache), registry[e.name] # 0,
                      e.name \notin crossed \cup abandoned,
                      NEW range \in Ranges(SizeOf[e.version] + 1)
               PROVE  LET v == registry[e.name]
                          answer == Answer(range, v, e.version)
                      IN  /\ Right(answer, range, SizeOf[v])
                          /\ range.kind = "from" /\ range.end >= range.start =>
                              DecryptAesCtrRange(Encrypted(v), SizeOf[v], v, range.start, range.end)
                                  = answer.body
                          /\ range.kind = "none" =>
                              DecryptAll(Encrypted(v), SizeOf[v], v) = answer.body
    BY DEF RangesRight
  <2>1. PICK i \in 1..Len(swCache) : e = swCache[i]
    BY LenProperties DEF ToSet, CacheFits, Cache
  <2>2. e \in Entry
    BY <2>1, ElementOfSeq DEF CacheFits, Cache
  <2>3. e.name \in Names /\ e.version \in Versions
    BY <2>2 DEF Entry
  <2>4. registry[e.name] = e.version
    BY <2>1, <2>3 DEF CacheFits, HasEntry
  <2>5. SizeOf[e.version] + 1 \in Nat
    BY <2>3, StreamAssumption
  <2> QED
    BY <2>3, <2>4, <2>5, AnswerRight
<1> QED
  BY <1>1, <1>2, <1>3, PTL DEF MediaSpec

-----------------------------------------------------------------------------
(* FileVersions: what each operation makes of a list of versions            *)

NoRepeats(s) == \A i, j \in 1..Len(s) : s[i] = s[j] => i = j
ProperRecord(c, s) == NoRepeats(s) /\ c \notin ToSet(s)
ContentsOf(c, s) == {c} \cup ToSet(s)
Excused == past.deleted \cup past.overwritten \cup past.outdated

(* Only one dialog is at work; what it will publish lists nothing twice,    *)
(* can be fetched also after the unpinning, and has what must be kept       *)
Pending(e) ==
    LET w == editor[e] IN
    /\ w.st = "reading" /\ w.op = "save" => w.new \in kept \ InRecord
    /\ w.st \in {"resolving", "publishing"} =>
        /\ ProperRecord(w.next.cur, w.next.versions)
        /\ ContentsOf(w.next.cur, w.next.versions) \subseteq kept \ w.drop
        /\ past.ever \ Excused \subseteq ContentsOf(w.next.cur, w.next.versions)
    /\ w.st = "publishing" => w.next.seq = record.seq + 1
VersionsInv ==
    past.raced \/
        /\ \A d, e \in Editors : Busy(d) /\ Busy(e) => d = e
        /\ ProperRecord(record.cur, record.versions)
        /\ InRecord \subseteq kept /\ past.ever \ Excused \subseteq InRecord
        /\ \A e \in Editors : Pending(e)
Fitting ==
    \A e \in Editors :
        /\ Len(editor[e].next.versions) <= MaxVersions
        /\ Busy(e) /\ editor[e].op # "save" => editor[e].index >= 1

LEMMA ToSetIs ==
    ASSUME NEW S, NEW s \in Seq(S)
    PROVE  /\ ToSet(s) = {s[i] : i \in 1..Len(s)} /\ ToSet(s) \subseteq S
           /\ Len(s) \in Nat /\ \A i \in 1..Len(s) : s[i] \in S
BY LenProperties, ElementOfSeq DEF ToSet

LEMMA WithoutParts ==
    ASSUME NEW s \in Seq(Contents), NEW i \in 1..Len(s)
    PROVE  /\ Without(s, i) \in Seq(Contents) /\ Len(Without(s, i)) = Len(s) - 1
           /\ \A j \in 1..Len(s) - 1 : Without(s, i)[j] = IF j < i THEN s[j] ELSE s[j + 1]
<1> DEFINE p == SubSeq(s, 1, i - 1) q == SubSeq(s, i + 1, Len(s))
<1>1. Len(s) \in Nat /\ \A j \in 1..Len(s) : s[j] \in Contents
  BY ToSetIs
<1>2. p \in Seq(Contents) /\ Len(p) = i - 1 /\ \A j \in 1..i - 1 : p[j] = s[j]
  <2>1. \A j \in 1..i - 1 : s[j] \in Contents
    BY <1>1
  <2>2. /\ p \in Seq(Contents) /\ Len(p) = IF 1 <= i - 1 THEN (i - 1) - 1 + 1 ELSE 0
        /\ \A j \in 1..(i - 1) - 1 + 1 : p[j] = s[1 + j - 1]
    BY <1>1, <2>1, SubSeqProperties
  <2>3. \A j \in 1..i - 1 : j \in 1..(i - 1) - 1 + 1 /\ 1 + j - 1 = j
    BY <1>1
  <2> HIDE DEF p
  <2> QED
    BY <1>1, <2>2, <2>3
<1>3. q \in Seq(Contents) /\ Len(q) = Len(s) - i /\ \A j \in 1..Len(s) - i : q[j] = s[i + j]
  <2>1. \A j \in i + 1..Len(s) : s[j] \in Contents
    BY <1>1
  <2>2. /\ q \in Seq(Contents) /\ Len(q) = IF i + 1 <= Len(s) THEN Len(s) - (i + 1) + 1 ELSE 0
        /\ \A j \in 1..Len(s) - (i + 1) + 1 : q[j] = s[(i + 1) + j - 1]
    BY <1>1, <2>1, SubSeqProperties
  <2>3. \A j \in 1..Len(s) - i : j \in 1..Len(s) - (i + 1) + 1 /\ (i + 1) + j - 1 = i + j
    BY <1>1
  <2> HIDE DEF q
  <2> QED
    BY <1>1, <2>2, <2>3
<1>4. Without(s, i) = p \o q
  BY DEF Without
<1> HIDE DEF p, q
<1>5. /\ p \o q \in Seq(Contents) /\ Len(p \o q) = Len(p) + Len(q)
      /\ \A j \in 1..Len(p) + Len(q) : (p \o q)[j] = IF j <= Len(p) THEN p[j] ELSE q[j - Len(p)]
  BY <1>2, <1>3, ConcatProperties
<1>6. \A j \in 1..Len(s) - 1 : (p \o q)[j] = IF j < i THEN s[j] ELSE s[j + 1]
  <2> TAKE j \in 1..Len(s) - 1
  <2>1. CASE j < i
    BY <1>1, <1>2, <1>3, <1>5, <2>1
  <2>2. CASE ~(j < i)
    <3>1. j - (i - 1) \in 1..Len(s) - i /\ i + (j - (i - 1)) = j + 1
      BY <1>1, <2>2
    <3>2. (p \o q)[j] = q[j - (i - 1)]
      BY <1>1, <1>2, <1>3, <1>5, <2>2
    <3> QED
      BY <1>3, <2>2, <3>1, <3>2
  <2> QED
    BY <2>1, <2>2
<1> QED
  BY <1>1, <1>2, <1>3, <1>4, <1>5, <1>6

LEMMA ConsParts ==
    ASSUME NEW c \in Contents, NEW s \in Seq(Contents)
    PROVE  /\ <<c>> \o s \in Seq(Contents) /\ Len(<<c>> \o s) = Len(s) + 1
           /\ (<<c>> \o s)[1] = c
           /\ \A j \in 2..Len(s) + 1 : (<<c>> \o s)[j] = s[j - 1]
<1>1. <<c>> \in Seq(Contents) /\ Len(<<c>>) = 1 /\ <<c>>[1] = c /\ Len(s) \in Nat
  BY LenProperties
<1> DEFINE h == <<c>>
<1> HIDE DEF h
<1>2. /\ h \o s \in Seq(Contents) /\ Len(h \o s) = Len(h) + Len(s)
      /\ \A j \in 1..Len(h) + Len(s) : (h \o s)[j] = IF j <= Len(h) THEN h[j] ELSE s[j - Len(h)]
  BY <1>1, ConcatProperties DEF h
<1> QED
  BY <1>1, <1>2 DEF h

LEMMA UptoParts ==
    ASSUME NEW s \in Seq(Contents)
    PROVE  /\ Upto(s) \in Seq(Contents) /\ Len(Upto(s)) <= Len(s) /\ Len(Upto(s)) <= MaxVersions
           /\ Len(Upto(s)) = IF Len(s) < MaxVersions THEN Len(s) ELSE MaxVersions
           /\ \A j \in 1..Len(Upto(s)) : Upto(s)[j] = s[j]
           /\ Beyond(s) = {s[j] : j \in MaxVersions + 1..Len(s)}
<1> DEFINE n == IF Len(s) < MaxVersions THEN Len(s) ELSE MaxVersions
           b == SubSeq(s, MaxVersions + 1, Len(s)) u == SubSeq(s, 1, n)
<1>1. /\ Len(s) \in Nat /\ MaxVersions \in Nat /\ n \in Nat /\ n <= Len(s) /\ n <= MaxVersions
      /\ \A j \in 1..Len(s) : s[j] \in Contents
  BY ToSetIs, VersionsAssumption
<1>2. Upto(s) = u /\ Beyond(s) = ToSet(b)
  BY DEF Upto, Beyond
<1>3. u \in Seq(Contents) /\ Len(u) = n /\ \A j \in 1..n : u[j] = s[j]
  <2> HIDE DEF n
  <2>1. \A j \in 1..n : s[j] \in Contents
    BY <1>1
  <2>2. /\ u \in Seq(Contents) /\ Len(u) = IF 1 <= n THEN n - 1 + 1 ELSE 0
        /\ \A j \in 1..n - 1 + 1 : u[j] = s[1 + j - 1]
    BY <1>1, <2>1, SubSeqProperties
  <2>3. \A j \in 1..n : j \in 1..n - 1 + 1 /\ 1 + j - 1 = j
    BY <1>1
  <2> HIDE DEF u
  <2> QED
    BY <1>1, <2>2, <2>3
<1>4. ToSet(b) = {s[j] : j \in MaxVersions + 1..Len(s)}
  <2>1. \A j \in MaxVersions + 1..Len(s) : s[j] \in Contents
    BY <1>1
  <2>2. /\ b \in Seq(Contents)
        /\ Len(b) = IF MaxVersions + 1 <= Len(s) THEN Len(s) - (MaxVersions + 1) + 1 ELSE 0
        /\ \A j \in 1..Len(s) - (MaxVersions + 1) + 1 : b[j] = s[(MaxVersions + 1) + j - 1]
    BY <1>1, <2>1, SubSeqProperties
  <2> HIDE DEF b
  <2>3. ToSet(b) = {b[j] : j \in 1..Len(b)}
    BY <2>2, ToSetIs
  <2>4. \A j \in 1..Len(b) : (MaxVersions + 1) + j - 1 \in MaxVersions + 1..Len(s)
                               /\ b[j] = s[(MaxVersions + 1) + j - 1]
    BY <1>1, <2>2
  <2>5. \A j \in MaxVersions + 1..Len(s) : j - MaxVersions \in 1..Len(b) /\ b[j - MaxVersions] = s[j]
    BY <1>1, <2>2
  <2>6. ASSUME NEW x \in ToSet(b) PROVE x \in {s[j] : j \in MaxVersions + 1..Len(s)}
    BY <2>3, <2>4
  <2>7. ASSUME NEW j \in MaxVersions + 1..Len(s) PROVE s[j] \in ToSet(b)
    BY <2>3, <2>5
  <2> QED
    BY <2>6, <2>7
<1> HIDE DEF n, u, b
<1> QED
  BY <1>1, <1>2, <1>3, <1>4 DEF n

(* A list in which nothing is twice is parted in what is kept and what goes *)
LEMMA Parted ==
    ASSUME NEW s \in Seq(Contents), NoRepeats(s)
    PROVE  /\ NoRepeats(Upto(s)) /\ ToSet(Upto(s)) \cap Beyond(s) = {}
           /\ ToSet(s) = ToSet(Upto(s)) \cup Beyond(s)
<1> DEFINE u == Upto(s) b == Beyond(s)
<1>1. /\ u \in Seq(Contents) /\ Len(u) <= Len(s) /\ Len(u) <= MaxVersions
      /\ Len(u) = IF Len(s) < MaxVersions THEN Len(s) ELSE MaxVersions
      /\ \A j \in 1..Len(u) : u[j] = s[j]
      /\ b = {s[j] : j \in MaxVersions + 1..Len(s)}
      /\ Len(s) \in Nat /\ Len(u) \in Nat /\ MaxVersions \in Nat
      /\ ToSet(u) = {u[j] : j \in 1..Len(u)} /\ ToSet(s) = {s[j] : j \in 1..Len(s)}
  BY UptoParts, ToSetIs, VersionsAssumption
<1> HIDE DEF u, b
<1>2. NoRepeats(u)
  BY <1>1 DEF NoRepeats
<1>3. ASSUME NEW x \in ToSet(u), x \in b PROVE FALSE
  <2>1. PICK j \in 1..Len(u) : x = s[j]
    BY <1>1, <1>3
  <2>2. PICK k \in MaxVersions + 1..Len(s) : x = s[k]
    BY <1>1, <1>3
  <2> QED
    BY <1>1, <2>1, <2>2 DEF NoRepeats
<1>4. ASSUME NEW x \in ToSet(s) PROVE x \in ToSet(u) \cup b
  <2>1. PICK j \in 1..Len(s) : x = s[j]
    BY <1>1
  <2>2. CASE j \in 1..Len(u)
    BY <1>1, <2>1, <2>2
  <2>3. CASE j \in MaxVersions + 1..Len(s)
    BY <1>1, <2>1, <2>3
  <2> QED
    BY <1>1, <2>1, <2>2, <2>3
<1>5. ASSUME NEW x \in ToSet(u) \cup b PROVE x \in ToSet(s)
  <2>1. CASE x \in ToSet(u)
    BY <1>1, <2>1
  <2>2. CASE x \in b
    <3>1. PICK k \in MaxVersions + 1..Len(s) : x = s[k]
      BY <1>1, <2>2
    <3>2. k \in 1..Len(s)
      BY <1>1
    <3> QED
      BY <1>1, <3>1, <3>2
  <2> QED
    BY <1>5, <2>1, <2>2
<1> QED
  BY <1>2, <1>3, <1>4, <1>5 DEF u, b

LEMMA ConsProper ==
    ASSUME NEW c \in Contents, NEW s \in Seq(Contents), ProperRecord(c, s)
    PROVE  NoRepeats(<<c>> \o s) /\ ToSet(<<c>> \o s) = ContentsOf(c, s)
<1> DEFINE t == <<c>> \o s
<1>1. /\ t \in Seq(Contents) /\ Len(t) = Len(s) + 1 /\ t[1] = c
      /\ \A j \in 2..Len(s) + 1 : t[j] = s[j - 1]
      /\ Len(s) \in Nat /\ ToSet(s) = {s[j] : j \in 1..Len(s)} /\ ToSet(t) = {t[j] : j \in 1..Len(t)}
  BY ConsParts, ToSetIs
<1> HIDE DEF t
<1>2. \A j \in 1..Len(s) : t[j + 1] = s[j] /\ j + 1 \in 1..Len(t)
  BY <1>1
<1>3. \A j \in 1..Len(t) : j = 1 \/ (j - 1 \in 1..Len(s) /\ t[j] = s[j - 1])
  BY <1>1
<1>4. NoRepeats(t)
  <2> SUFFICES ASSUME NEW i \in 1..Len(t), NEW j \in 1..Len(t), t[i] = t[j] PROVE i = j
    BY DEF NoRepeats
  <2>1. CASE i = 1 /\ j = 1
    BY <2>1
  <2>2. CASE i = 1 /\ j # 1
    BY <1>1, <1>3, <2>2 DEF ProperRecord
  <2>3. CASE i # 1 /\ j = 1
    BY <1>1, <1>3, <2>3 DEF ProperRecord
  <2>4. CASE i # 1 /\ j # 1
    <3>1. i - 1 = j - 1
      BY <1>3, <2>4 DEF ProperRecord, NoRepeats
    <3> QED
      BY <1>1, <3>1
  <2> QED
    BY <2>1, <2>2, <2>3, <2>4
<1>5. ToSet(t) = ContentsOf(c, s)
  <2>1. \A x \in ToSet(t) : x \in ContentsOf(c, s)
    BY <1>1, <1>3 DEF ContentsOf
  <2>2. 1 \in 1..Len(t)
    BY <1>1
  <2>3. c \in ToSet(t) /\ \A x \in ToSet(s) : x \in ToSet(t)
    BY <1>1, <1>2, <2>2
  <2> QED
    BY <2>1, <2>3 DEF ContentsOf
<1> QED
  BY <1>4, <1>5 DEF t

LEMMA WithoutProper ==
    ASSUME NEW s \in Seq(Contents), NEW i \in 1..Len(s), NoRepeats(s)
    PROVE  NoRepeats(Without(s, i)) /\ ToSet(Without(s, i)) = ToSet(s) \ {s[i]}
<1> DEFINE t == Without(s, i)
<1>1. /\ t \in Seq(Contents) /\ Len(t) = Len(s) - 1
      /\ \A j \in 1..Len(s) - 1 : t[j] = IF j < i THEN s[j] ELSE s[j + 1]
      /\ Len(s) \in Nat /\ ToSet(s) = {s[j] : j \in 1..Len(s)} /\ ToSet(t) = {t[j] : j \in 1..Len(t)}
  BY WithoutParts, ToSetIs
<1> HIDE DEF t
<1> DEFINE pos(j) == IF j < i THEN j ELSE j + 1
<1>2. \A j \in 1..Len(t) : pos(j) \in 1..Len(s) /\ pos(j) # i /\ t[j] = s[pos(j)]
  <2> TAKE j \in 1..Len(t)
  <2>1. j \in 1..Len(s) - 1 /\ j + 1 \in 1..Len(s) /\ j \in 1..Len(s)
    BY <1>1
  <2>2. t[j] = IF j < i THEN s[j] ELSE s[j + 1]
    BY <1>1, <2>1
  <2>3. CASE j < i
    BY <2>1, <2>2, <2>3
  <2>4. CASE ~(j < i)
    BY <2>1, <2>2, <2>4
  <2> QED
    BY <2>3, <2>4
<1>3. \A j, k \in 1..Len(t) : pos(j) = pos(k) => j = k
  BY <1>1
<1>4. \A j \in 1..Len(s) : j = i \/ \E k \in 1..Len(t) : pos(k) = j
  <2> SUFFICES ASSUME NEW j \in 1..Len(s), j # i PROVE \E k \in 1..Len(t) : pos(k) = j
    OBVIOUS
  <2>1. CASE j < i
    <3>1. j \in 1..Len(t) /\ pos(j) = j
      BY <1>1, <2>1
    <3> QED
      BY <3>1
  <2>2. CASE ~(j < i)
    <3>1. j - 1 \in 1..Len(t) /\ pos(j - 1) = j
      BY <1>1, <2>2
    <3> QED
      BY <3>1
  <2> QED
    BY <2>1, <2>2
<1> HIDE DEF pos
<1>5. NoRepeats(t)
  BY <1>2, <1>3 DEF NoRepeats
<1>6. ToSet(t) = ToSet(s) \ {s[i]}
  <2>1. ASSUME NEW x \in ToSet(t) PROVE x \in ToSet(s) \ {s[i]}
    <3>1. PICK j \in 1..Len(t) : x = t[j]
      BY <1>1
    <3> QED
      BY <1>1, <1>2, <3>1 DEF NoRepeats
  <2>2. ASSUME NEW x \in ToSet(s), x # s[i] PROVE x \in ToSet(t)
    <3>1. PICK j \in 1..Len(s) : x = s[j]
      BY <1>1
    <3>2. PICK k \in 1..Len(t) : pos(k) = j
      BY <1>4, <2>2, <3>1
    <3> QED
      BY <1>1, <1>2, <3>1, <3>2
  <2> QED
    BY <2>1, <2>2
<1> QED
  BY <1>5, <1>6 DEF t

(* The record the code starts from, and the parts of a dialog               *)
LEMMA FirstIs == First \in Contents /\ FirstRecord \in VersionRecord /\ Len(FirstRecord.versions) = 0
<1>1. First \in Contents
  BY VersionsAssumption DEF First
<1>2. <<>> \in Seq(Contents) /\ Len(<<>>) = 0
  BY EmptySeq
<1> QED
  BY <1>1, <1>2 DEF FirstRecord, VersionRecord

LEMMA EditorParts ==
    ASSUME NEW w \in Editor
    PROVE  /\ w.st \in {"closed", "shown", "reading", "resolving", "publishing"} /\ w.op \in Op
           /\ w.shown \in VersionRecord /\ w.meta \in VersionRecord /\ w.next \in VersionRecord
           /\ w.index \in Nat /\ w.new \in Contents /\ w.drop \subseteq Contents
BY DEF Editor

LEMMA EditorIdle ==
    ASSUME NEW w \in Editor
    PROVE  LET n == [w EXCEPT !.st = "shown", !.op = "none", !.drop = {}] IN
           n \in Editor /\ n.st = "shown" /\ n.next = w.next
<1> DEFINE a == [w EXCEPT !.st = "shown"] b == [a EXCEPT !.op = "none"]
<1>1. a \in Editor /\ a.st = "shown" /\ a.next = w.next
  BY DEF Editor
<1>2. [w EXCEPT !.st = "shown", !.op = "none", !.drop = {}] = [b EXCEPT !.drop = {}]
  BY DEF Editor
<1> HIDE DEF a
<1>3. b \in Editor /\ b.st = "shown" /\ b.next = w.next
  BY <1>1 DEF Editor, Op
<1> HIDE DEF b
<1>4. [b EXCEPT !.drop = {}] \in Editor /\ [b EXCEPT !.drop = {}].st = "shown"
      /\ [b EXCEPT !.drop = {}].next = w.next
  BY <1>3 DEF Editor
<1> QED
  BY <1>2, <1>4

LEMMA EditorShows ==
    ASSUME NEW w \in Editor, NEW m \in VersionRecord
    PROVE  LET n == [w EXCEPT !.shown = m] IN n \in Editor /\ n.st = w.st /\ n.next = w.next
BY DEF Editor

Closes(w, m, st, n) == n \in Editor /\ n.st = st /\ n.next = w.next
LEMMA EditorCloses ==
    ASSUME NEW w \in Editor, NEW m \in VersionRecord, NEW st \in {"closed", "shown"}
    PROVE  Closes(w, m, st, [w EXCEPT !.st = st, !.shown = m])
<1> DEFINE a == [w EXCEPT !.st = st]
<1>1. a \in Editor /\ a.st = st /\ a.next = w.next /\ [w EXCEPT !.st = st, !.shown = m] = [a EXCEPT !.shown = m]
  BY DEF Editor
<1> HIDE DEF a
<1> QED
  BY <1>1, EditorShows DEF Closes

LEMMA EditorSaves ==
    ASSUME NEW w \in Editor, NEW c \in Contents
    PROVE  LET n == [w EXCEPT !.st = "reading", !.op = "save", !.new = c] IN
           n \in Editor /\ n.st = "reading" /\ n.op = "save" /\ n.new = c /\ n.next = w.next
<1> DEFINE a == [w EXCEPT !.st = "reading"] b == [a EXCEPT !.op = "save"]
<1>1. a \in Editor /\ a.st = "reading" /\ a.next = w.next
  BY DEF Editor
<1>2. [w EXCEPT !.st = "reading", !.op = "save", !.new = c] = [b EXCEPT !.new = c]
  BY DEF Editor
<1> HIDE DEF a
<1>3. b \in Editor /\ b.st = "reading" /\ b.op = "save" /\ b.next = w.next
  BY <1>1 DEF Editor, Op
<1> HIDE DEF b
<1>4. LET n == [b EXCEPT !.new = c] IN
      n \in Editor /\ n.st = "reading" /\ n.op = "save" /\ n.new = c /\ n.next = w.next
  BY <1>3 DEF Editor
<1> QED
  BY <1>2, <1>4

Confirms(w, op, i, n) ==
    n \in Editor /\ n.st = "reading" /\ n.op = op /\ n.index = i /\ n.next = w.next
LEMMA EditorConfirms ==
    ASSUME NEW w \in Editor, NEW op \in {"restore", "delete"}, NEW i \in Nat
    PROVE  Confirms(w, op, i, [w EXCEPT !.st = "reading", !.op = op, !.index = i])
<1> DEFINE a == [w EXCEPT !.st = "reading"] b == [a EXCEPT !.op = op]
<1>1. a \in Editor /\ a.st = "reading" /\ a.next = w.next
  BY DEF Editor
<1>2. [w EXCEPT !.st = "reading", !.op = op, !.index = i] = [b EXCEPT !.index = i]
  BY DEF Editor
<1> HIDE DEF a
<1>3. b \in Editor /\ b.st = "reading" /\ b.op = op /\ b.next = w.next
  BY <1>1 DEF Editor, Op
<1> HIDE DEF b
<1>4. LET n == [b EXCEPT !.index = i] IN
      n \in Editor /\ n.st = "reading" /\ n.op = op /\ n.index = i /\ n.next = w.next
  BY <1>3 DEF Editor
<1> QED
  BY <1>2, <1>4 DEF Confirms

HasRead(w, m, d, x, n) ==
    /\ n \in Editor /\ n.st = "resolving" /\ n.op = w.op /\ n.drop = d /\ n.next = x
    /\ n.index = w.index
LEMMA EditorReads ==
    ASSUME NEW w \in Editor, NEW m \in VersionRecord, NEW x \in VersionRecord, NEW d \in SUBSET Contents
    PROVE  HasRead(w, m, d, x, [w EXCEPT !.st = "resolving", !.meta = m, !.drop = d, !.next = x])
<1> DEFINE a == [w EXCEPT !.st = "resolving"] b == [a EXCEPT !.meta = m] f == [b EXCEPT !.drop = d]
<1>1. a \in Editor /\ a.st = "resolving" /\ a.op = w.op /\ a.index = w.index
  BY DEF Editor
<1>2. [w EXCEPT !.st = "resolving", !.meta = m, !.drop = d, !.next = x] = [f EXCEPT !.next = x]
  BY DEF Editor
<1> HIDE DEF a
<1>3. b \in Editor /\ b.st = "resolving" /\ b.op = w.op /\ b.index = w.index
  BY <1>1 DEF Editor
<1> HIDE DEF b
<1>4. f \in Editor /\ f.st = "resolving" /\ f.op = w.op /\ f.index = w.index /\ f.drop = d
  BY <1>3 DEF Editor
<1> HIDE DEF f
<1>5. LET n == [f EXCEPT !.next = x] IN
      n \in Editor /\ n.st = "resolving" /\ n.op = w.op /\ n.drop = d /\ n.next = x /\ n.index = w.index
  BY <1>4 DEF Editor
<1> QED
  BY <1>2, <1>5 DEF HasRead

LEMMA EditorResolves ==
    ASSUME NEW w \in Editor, NEW k \in Nat
    PROVE  LET n == [w EXCEPT !.st = "publishing", !.next.seq = k] IN
           /\ n \in Editor /\ n.st = "publishing" /\ n.op = w.op /\ n.drop = w.drop /\ n.index = w.index
           /\ n.next.seq = k /\ n.next.cur = w.next.cur /\ n.next.versions = w.next.versions
<1> DEFINE a == [w EXCEPT !.st = "publishing"] x == [w.next EXCEPT !.seq = k]
<1>1. /\ a \in Editor /\ a.st = "publishing" /\ a.op = w.op /\ a.drop = w.drop /\ a.index = w.index
      /\ a.next = w.next
  BY DEF Editor
<1>2. x \in VersionRecord /\ x.seq = k /\ x.cur = w.next.cur /\ x.versions = w.next.versions
  BY EditorParts DEF VersionRecord
<1>3. [w EXCEPT !.st = "publishing", !.next.seq = k] = [a EXCEPT !.next = x]
  BY DEF Editor
<1> HIDE DEF a, x
<1>4. LET n == [a EXCEPT !.next = x] IN
      n \in Editor /\ n.st = a.st /\ n.op = a.op /\ n.drop = a.drop /\ n.index = a.index /\ n.next = x
  BY <1>1, <1>2 DEF Editor
<1> QED
  BY <1>1, <1>2, <1>3, <1>4

-----------------------------------------------------------------------------
(* What each operation makes of a record                                    *)
Made(x, r) == [seq |-> x, cur |-> r.cur, versions |-> r.versions]
ResultOK(r) ==
    /\ Made(0, r) \in VersionRecord /\ Made(0, r).cur = r.cur /\ Made(0, r).versions = r.versions
    /\ Len(r.versions) <= MaxVersions /\ r.drop \subseteq Contents

LEMMA BeyondIn ==
    ASSUME NEW s \in Seq(Contents)
    PROVE  Beyond(s) \subseteq ToSet(s) /\ Beyond(s) \subseteq Contents
<1>1. Beyond(s) = {s[j] : j \in MaxVersions + 1..Len(s)}
  BY UptoParts
<1>2. Len(s) \in Nat /\ MaxVersions \in Nat /\ ToSet(s) = {s[j] : j \in 1..Len(s)} /\ ToSet(s) \subseteq Contents
  BY ToSetIs, VersionsAssumption
<1>3. \A j \in MaxVersions + 1..Len(s) : j \in 1..Len(s)
  BY <1>2
<1>4. ASSUME NEW x \in Beyond(s) PROVE x \in ToSet(s)
  <2>1. PICK j \in MaxVersions + 1..Len(s) : x = s[j]
    BY <1>1, <1>4
  <2> QED
    BY <1>2, <1>3, <2>1
<1> QED
  BY <1>2, <1>4

LEMMA ResultFrom ==
    ASSUME NEW c \in Contents, NEW v \in Seq(Contents), Len(v) <= MaxVersions, NEW d \in SUBSET Contents
    PROVE  ResultOK([cur |-> c, versions |-> v, drop |-> d])
BY DEF ResultOK, Made, VersionRecord

LEMMA SavedType ==
    ASSUME NEW m \in VersionRecord, Len(m.versions) <= MaxVersions, NEW c \in Contents, NEW v \in BOOLEAN
    PROVE  ResultOK(Saved(m, c, v))
<1>1. m.cur \in Contents /\ m.versions \in Seq(Contents)
  BY DEF VersionRecord
<1>2. WithCurrent(m) \in Seq(Contents)
  BY <1>1, ConsParts DEF WithCurrent
<1>3. /\ Upto(WithCurrent(m)) \in Seq(Contents) /\ Len(Upto(WithCurrent(m))) <= MaxVersions
      /\ Beyond(WithCurrent(m)) \in SUBSET Contents
  BY <1>2, UptoParts, BeyondIn
<1>4. CASE v
  BY <1>3, <1>4, ResultFrom DEF Saved
<1>5. CASE ~v
  BY <1>1, <1>5, ResultFrom DEF Saved
<1> QED
  BY <1>4, <1>5

LEMMA RestoredType ==
    ASSUME NEW m \in VersionRecord, Len(m.versions) <= MaxVersions, NEW i \in 1..Len(m.versions)
    PROVE  ResultOK(Restored(m, i))
<1>1. m.cur \in Contents /\ m.versions \in Seq(Contents) /\ m.versions[i] \in Contents
  BY ElementOfSeq DEF VersionRecord
<1>2. Without(m.versions, i) \in Seq(Contents)
  BY <1>1, WithoutParts
<1>3. Exchanged(m, i) \in Seq(Contents)
  BY <1>1, <1>2, ConsParts DEF Exchanged
<1>4. /\ Upto(Exchanged(m, i)) \in Seq(Contents) /\ Len(Upto(Exchanged(m, i))) <= MaxVersions
      /\ Beyond(Exchanged(m, i)) \in SUBSET Contents
  BY <1>3, UptoParts, BeyondIn
<1> QED
  BY <1>1, <1>4, ResultFrom DEF Restored

LEMMA DeletedType ==
    ASSUME NEW m \in VersionRecord, Len(m.versions) <= MaxVersions, NEW i \in 1..Len(m.versions)
    PROVE  ResultOK(Deleted(m, i))
<1>1. m.cur \in Contents /\ m.versions \in Seq(Contents) /\ m.versions[i] \in Contents /\ Len(m.versions) \in Nat
  BY ElementOfSeq, LenProperties DEF VersionRecord
<1>2. Without(m.versions, i) \in Seq(Contents) /\ Len(Without(m.versions, i)) = Len(m.versions) - 1
  BY <1>1, WithoutParts
<1>3. Len(Without(m.versions, i)) <= MaxVersions /\ {m.versions[i]} \in SUBSET Contents
  BY <1>1, <1>2, VersionsAssumption
<1> QED
  BY <1>1, <1>2, <1>3, ResultFrom DEF Deleted

(* Of a record that lists nothing twice and all of which can be fetched, an *)
(* operation makes another, without what it then unpins; lost is all that   *)
(* is no longer listed                                                      *)
Sound(m, r, K, lost) ==
    /\ ProperRecord(r.cur, r.versions)
    /\ ContentsOf(r.cur, r.versions) \subseteq K \ r.drop
    /\ ContentsOf(m.cur, m.versions) \ lost \subseteq ContentsOf(r.cur, r.versions)

(* A list that is cut to its length, with one content that is not in it     *)
LEMMA CutSound ==
    ASSUME NEW K, NEW c \in Contents, c \in K, NEW s \in Seq(Contents), NoRepeats(s),
           ToSet(s) \subseteq K, c \notin ToSet(s)
    PROVE  /\ ProperRecord(c, Upto(s)) /\ ContentsOf(c, Upto(s)) \subseteq K \ Beyond(s)
           /\ ToSet(s) \ Beyond(s) \subseteq ContentsOf(c, Upto(s))
<1>1. NoRepeats(Upto(s)) /\ ToSet(Upto(s)) \cap Beyond(s) = {} /\ ToSet(s) = ToSet(Upto(s)) \cup Beyond(s)
  BY Parted
<1> QED
  BY <1>1 DEF ProperRecord, ContentsOf

LEMMA SavedSound ==
    ASSUME NEW m \in VersionRecord, Len(m.versions) <= MaxVersions, NEW K, NEW c \in Contents,
           ProperRecord(m.cur, m.versions), ContentsOf(m.cur, m.versions) \subseteq K,
           c \in K, c \notin ContentsOf(m.cur, m.versions), NEW v \in BOOLEAN
    PROVE  Sound(m, Saved(m, c, v), K, IF v THEN Pruned(m) ELSE {m.cur})
<1>1. m.cur \in Contents /\ m.versions \in Seq(Contents) /\ Len(m.versions) \in Nat /\ MaxVersions \in Nat
  BY LenProperties, VersionsAssumption DEF VersionRecord
<1>2. CASE ~v
  BY <1>1, <1>2 DEF Sound, Saved, ProperRecord, ContentsOf
<1>3. CASE v
  <2> DEFINE s == WithCurrent(m)
  <2>1. s \in Seq(Contents) /\ NoRepeats(s) /\ ToSet(s) = ContentsOf(m.cur, m.versions)
    BY <1>1, ConsParts, ConsProper DEF WithCurrent
  <2>2. /\ Len(s) = Len(m.versions) + 1
        /\ \A j \in 2..Len(m.versions) + 1 : s[j] = m.versions[j - 1]
    BY <1>1, ConsParts DEF WithCurrent
  <2>3. Beyond(s) = {s[j] : j \in MaxVersions + 1..Len(s)}
    BY <2>1, UptoParts
  <2>4. Beyond(s) \subseteq Pruned(m)
    <3> SUFFICES ASSUME NEW j \in MaxVersions + 1..Len(s) PROVE s[j] \in Pruned(m)
      BY <2>3
    <3>1. j = MaxVersions + 1 /\ Len(m.versions) = MaxVersions /\ j \in 2..Len(m.versions) + 1
      BY <1>1, <2>2, VersionsAssumption
    <3>2. s[j] = m.versions[Len(m.versions)]
      BY <1>1, <2>2, <3>1
    <3> QED
      BY <3>1, <3>2 DEF Pruned, Last
  <2>5. Saved(m, c, v) = [cur |-> c, versions |-> Upto(s), drop |-> Beyond(s)]
    BY <1>3 DEF Saved
  <2> HIDE DEF s
  <2>6. /\ ProperRecord(c, Upto(s)) /\ ContentsOf(c, Upto(s)) \subseteq K \ Beyond(s)
        /\ ToSet(s) \ Beyond(s) \subseteq ContentsOf(c, Upto(s))
    BY <2>1, CutSound
  <2>7. ContentsOf(m.cur, m.versions) \ Pruned(m) \subseteq ContentsOf(c, Upto(s))
    BY <2>1, <2>4, <2>6
  <2>8. Sound(m, Saved(m, c, v), K, Pruned(m))
    BY <2>5, <2>6, <2>7 DEF Sound
  <2> QED
    BY <1>3, <2>8
<1> QED
  BY <1>2, <1>3

LEMMA RestoredSound ==
    ASSUME NEW m \in VersionRecord, Len(m.versions) <= MaxVersions, NEW K, NEW i \in 1..Len(m.versions),
           ProperRecord(m.cur, m.versions), ContentsOf(m.cur, m.versions) \subseteq K
    PROVE  Sound(m, Restored(m, i), K, {})
<1> DEFINE w == Without(m.versions, i) s == Exchanged(m, i) x == m.versions[i]
<1>1. /\ m.cur \in Contents /\ m.versions \in Seq(Contents) /\ Len(m.versions) \in Nat /\ MaxVersions \in Nat
      /\ ToSet(m.versions) = {m.versions[j] : j \in 1..Len(m.versions)} /\ x \in Contents
  BY ToSetIs, VersionsAssumption DEF VersionRecord
<1>2. x \in ToSet(m.versions)
  BY <1>1
<1>3. w \in Seq(Contents) /\ Len(w) = Len(m.versions) - 1 /\ NoRepeats(w) /\ ToSet(w) = ToSet(m.versions) \ {x}
  BY <1>1, WithoutParts, WithoutProper DEF ProperRecord
<1>4. s = <<m.cur>> \o w /\ Restored(m, i) = [cur |-> x, versions |-> Upto(s), drop |-> Beyond(s)]
  BY DEF Exchanged, Restored
<1> HIDE DEF w, s, x
<1>5. ProperRecord(m.cur, w)
  BY <1>3 DEF ProperRecord
<1>6. s \in Seq(Contents) /\ Len(s) = Len(w) + 1 /\ NoRepeats(s) /\ ToSet(s) = ContentsOf(m.cur, w)
  BY <1>1, <1>3, <1>4, <1>5, ConsParts, ConsProper
<1>7. x \notin ToSet(s) /\ ToSet(s) \subseteq K /\ x \in K
  BY <1>2, <1>3, <1>6 DEF ContentsOf, ProperRecord
<1>8. /\ ProperRecord(x, Upto(s)) /\ ContentsOf(x, Upto(s)) \subseteq K \ Beyond(s)
      /\ ToSet(s) \ Beyond(s) \subseteq ContentsOf(x, Upto(s))
  BY <1>1, <1>6, <1>7, CutSound
<1>9. Beyond(s) = {}
  <2>1. Beyond(s) = {s[j] : j \in MaxVersions + 1..Len(s)}
    BY <1>6, UptoParts
  <2>2. MaxVersions + 1..Len(s) = {}
    BY <1>1, <1>3, <1>6
  <2> QED
    BY <2>1, <2>2
<1>10. ContentsOf(m.cur, m.versions) \subseteq ToSet(s) \cup {x} /\ x \in ContentsOf(x, Upto(s))
  BY <1>3, <1>6 DEF ContentsOf
<1> QED
  BY <1>4, <1>8, <1>9, <1>10 DEF Sound

LEMMA DeletedSound ==
    ASSUME NEW m \in VersionRecord, NEW K, NEW i \in 1..Len(m.versions),
           ProperRecord(m.cur, m.versions), ContentsOf(m.cur, m.versions) \subseteq K
    PROVE  Sound(m, Deleted(m, i), K, {m.versions[i]})
<1> DEFINE w == Without(m.versions, i) x == m.versions[i]
<1>1. /\ m.cur \in Contents /\ m.versions \in Seq(Contents)
      /\ ToSet(m.versions) = {m.versions[j] : j \in 1..Len(m.versions)}
  BY ToSetIs DEF VersionRecord
<1>2. x \in ToSet(m.versions)
  BY <1>1
<1>3. NoRepeats(w) /\ ToSet(w) = ToSet(m.versions) \ {x}
  BY <1>1, WithoutProper DEF ProperRecord
<1>4. Deleted(m, i) = [cur |-> m.cur, versions |-> w, drop |-> {x}]
  BY DEF Deleted
<1> HIDE DEF w, x
<1> QED
  BY <1>2, <1>3, <1>4 DEF Sound, ContentsOf, ProperRecord, x

-----------------------------------------------------------------------------
(* FileVersions: the invariant                                              *)

VersionsIndInv == VersionsTypeOK /\ Fitting /\ VersionsInv

LEMMA VersionsInitHolds == VersionsInit => VersionsIndInv
<1> SUFFICES ASSUME VersionsInit PROVE VersionsIndInv
  OBVIOUS
<1>1. First \in Contents /\ FirstRecord \in VersionRecord /\ Len(FirstRecord.versions) = 0
  BY FirstIs
<1>2. FirstRecord.cur = First /\ FirstRecord.versions = <<>>
  BY DEF FirstRecord
<1>3. ToSet(<<>>) = {} /\ NoRepeats(<<>>)
  BY DEF ToSet, NoRepeats
<1>4. \A e \in Editors : editor[e].st = "closed" /\ editor[e].next = FirstRecord
  BY DEF VersionsInit
<1>5. editor \in [Editors -> Editor]
  BY <1>1 DEF VersionsInit, Editor, Op
<1>6. counts \in [ops : 0..MaxOps, failures : 0..MaxFailures] /\ past \in VersionHistory
  BY <1>1, VersionsAssumption DEF VersionsInit, VersionHistory
<1>7. VersionsTypeOK /\ Fitting
  <2>1. MaxVersions \in Nat /\ 0 <= MaxVersions
    BY VersionsAssumption
  <2>2. record \in VersionRecord /\ Len(record.versions) <= MaxVersions /\ kept \subseteq Contents
    BY <1>1, <2>1 DEF VersionsInit
  <2>3. Fitting
    BY <1>1, <1>4, <2>1 DEF Fitting, Busy
  <2> QED
    BY <1>5, <1>6, <2>2, <2>3 DEF VersionsTypeOK
<1>8. InRecord = {First} /\ kept = {First} /\ past.ever = {First} /\ ProperRecord(record.cur, record.versions)
  BY <1>2, <1>3 DEF VersionsInit, InRecord, ProperRecord
<1>9. \A e \in Editors : Pending(e) /\ ~Busy(e)
  BY <1>4 DEF Pending, Busy
<1>10. VersionsInv
  BY <1>8, <1>9 DEF VersionsInv
<1> QED
  BY <1>7, <1>10 DEF VersionsIndInv

(* The step of one dialog *)
VersionsStep(e) ==
    \/ Show(e) \/ Save(e) \/ Resolve(e) \/ Publish(e) \/ Fails(e)
    \/ ReadForSave(e) \/ ReadForRestore(e) \/ ReadForDelete(e) \/ NoSuchVersion(e)
    \/ \E op \in {"restore", "delete"}, i \in 1..MaxVersions : Confirm(e, op, i)

(* What of a dialog's new state its step must show                          *)
Stepped(e, n) ==
    /\ editor' = [editor EXCEPT ![e] = n] /\ n \in Editor
    /\ Len(n.next.versions) <= MaxVersions
    /\ n.st \in {"reading", "resolving", "publishing"} /\ n.op # "save" => n.index >= 1

LEMMA SteppedKeeps ==
    ASSUME VersionsTypeOK, Fitting, NEW e \in Editors, NEW n, Stepped(e, n)
    PROVE  /\ editor' \in [Editors -> Editor] /\ Fitting'
           /\ editor'[e] = n /\ \A d \in Editors \ {e} : editor'[d] = editor[d]
<1> DEFINE f == [editor EXCEPT ![e] = n]
<1>0. editor \in [Editors -> Editor] /\ editor' = f /\ n \in Editor
  BY DEF VersionsTypeOK, Stepped
<1>1. editor'[e] = n /\ \A d \in Editors \ {e} : editor'[d] = editor[d]
  BY <1>0
<1>2. editor' \in [Editors -> Editor]
  BY <1>0
<1>3. ASSUME NEW d \in Editors
      PROVE  /\ Len(editor'[d].next.versions) <= MaxVersions
             /\ editor'[d].st \in {"reading", "resolving", "publishing"} /\ editor'[d].op # "save"
                    => editor'[d].index >= 1
  <2>1. CASE d = e
    BY <1>1, <2>1 DEF Stepped
  <2>2. CASE d # e
    BY <1>1, <2>2 DEF Fitting, Busy
  <2> QED
    BY <2>1, <2>2
<1> QED
  BY <1>1, <1>2, <1>3 DEF Fitting, Busy

LEMMA HistoryParts ==
    ASSUME NEW h \in VersionHistory, NEW X \in SUBSET Contents
    PROVE  /\ h.raced \in BOOLEAN /\ h.deleted \subseteq Contents /\ h.overwritten \subseteq Contents
           /\ h.outdated \subseteq Contents /\ h.ever \subseteq Contents
           /\ [h EXCEPT !.deleted = @ \cup X] \in VersionHistory
           /\ [h EXCEPT !.overwritten = @ \cup X] \in VersionHistory
           /\ [h EXCEPT !.outdated = @ \cup X] \in VersionHistory
           /\ [h EXCEPT !.ever = @ \cup X] \in VersionHistory
BY DEF VersionHistory

(* The history after an operation read the record: it differs in what is    *)
(* excused from being kept                                                  *)
Excuses(lost) ==
    /\ past' \in VersionHistory /\ past'.raced = past.raced /\ past'.ever = past.ever
    /\ Excused' = Excused \cup lost

LEMMA ExcusesDeleted ==
    ASSUME VersionsTypeOK, NEW X \in SUBSET Contents, past' = [past EXCEPT !.deleted = @ \cup X]
    PROVE  Excuses(X)
BY HistoryParts DEF Excuses, Excused, VersionsTypeOK, VersionHistory
LEMMA ExcusesOverwritten ==
    ASSUME VersionsTypeOK, NEW X \in SUBSET Contents, past' = [past EXCEPT !.overwritten = @ \cup X]
    PROVE  Excuses(X)
BY HistoryParts DEF Excuses, Excused, VersionsTypeOK, VersionHistory
LEMMA ExcusesOutdated ==
    ASSUME VersionsTypeOK, NEW X \in SUBSET Contents, past' = [past EXCEPT !.outdated = @ \cup X]
    PROVE  Excuses(X)
BY HistoryParts DEF Excuses, Excused, VersionsTypeOK, VersionHistory

(* A step that leaves the record, the pinned contents and the history       *)
LEMMA IdleStep ==
    ASSUME VersionsIndInv, NEW e \in Editors, NEW n, Stepped(e, n), n.st \in {"closed", "shown"},
           UNCHANGED <<record, kept, past>>, counts' \in [ops : 0..MaxOps, failures : 0..MaxFailures]
    PROVE  VersionsIndInv'
<1>0. VersionsTypeOK /\ Fitting /\ VersionsInv
  BY DEF VersionsIndInv
<1>1. /\ editor' \in [Editors -> Editor] /\ Fitting'
      /\ editor'[e] = n /\ \A d \in Editors \ {e} : editor'[d] = editor[d]
  BY <1>0, SteppedKeeps
<1>2. VersionsTypeOK'
  BY <1>0, <1>1 DEF VersionsTypeOK
<1>3. InRecord' = InRecord /\ Excused' = Excused
  BY DEF InRecord, Excused
<1>4. VersionsInv'
  <2> SUFFICES ASSUME ~past.raced PROVE VersionsInv'
    BY DEF VersionsInv
  <2>1. /\ \A d, f \in Editors : Busy(d) /\ Busy(f) => d = f
        /\ ProperRecord(record.cur, record.versions)
        /\ InRecord \subseteq kept /\ past.ever \ Excused \subseteq InRecord
        /\ \A d \in Editors : Pending(d)
    BY <1>0 DEF VersionsInv
  <2>2. ~Busy(e)' /\ \A d \in Editors \ {e} : Busy(d)' <=> Busy(d)
    BY <1>1 DEF Busy
  <2>3. Pending(e)'
    BY <1>1 DEF Pending
  <2>4. ASSUME NEW d \in Editors \ {e} PROVE Pending(d)'
    BY <1>1, <1>3, <2>1 DEF Pending
  <2> QED
    BY <1>3, <2>1, <2>2, <2>3, <2>4 DEF VersionsInv
<1> QED
  BY <1>1, <1>2, <1>4 DEF VersionsIndInv

(* A dialog goes to work: the others are idle, or the operations race       *)
LEMMA StartStep ==
    ASSUME VersionsIndInv, NEW e \in Editors, NEW n, Stepped(e, n), n.st = "reading",
           editor[e].st = "shown", record' = record, kept \subseteq kept', kept' \subseteq Contents,
           n.op = "save" => n.new \in kept' /\ n.new \notin kept,
           past' = [past EXCEPT !.raced = @ \/ \E d \in Editors \ {e} : Busy(d)],
           counts' \in [ops : 0..MaxOps, failures : 0..MaxFailures]
    PROVE  VersionsIndInv'
<1>0. VersionsTypeOK /\ Fitting /\ VersionsInv
  BY DEF VersionsIndInv
<1>1. /\ editor' \in [Editors -> Editor] /\ Fitting'
      /\ editor'[e] = n /\ \A d \in Editors \ {e} : editor'[d] = editor[d]
  BY <1>0, SteppedKeeps
<1>2. /\ past' \in VersionHistory /\ past'.ever = past.ever /\ Excused' = Excused /\ InRecord' = InRecord
      /\ past'.raced <=> (past.raced \/ \E d \in Editors \ {e} : Busy(d))
  <2> DEFINE r == past.raced \/ \E d \in Editors \ {e} : Busy(d)
  <2>1. past \in VersionHistory /\ past' = [past EXCEPT !.raced = r] /\ r \in BOOLEAN
    BY <1>0 DEF VersionsTypeOK
  <2> HIDE DEF r
  <2>2. /\ past' \in VersionHistory /\ past'.ever = past.ever /\ past'.raced = r
        /\ past'.deleted = past.deleted /\ past'.overwritten = past.overwritten
        /\ past'.outdated = past.outdated
    BY <2>1 DEF VersionHistory
  <2> QED
    BY <2>2 DEF r, Excused, InRecord
<1>3. VersionsTypeOK'
  BY <1>0, <1>1, <1>2 DEF VersionsTypeOK
<1>4. VersionsInv'
  <2> SUFFICES ASSUME ~past'.raced PROVE VersionsInv'
    BY DEF VersionsInv
  <2>0. ~past.raced /\ \A d \in Editors \ {e} : ~Busy(d)
    BY <1>2
  <2>1. /\ ProperRecord(record.cur, record.versions)
        /\ InRecord \subseteq kept /\ past.ever \ Excused \subseteq InRecord
    BY <1>0, <2>0 DEF VersionsInv
  <2>2. \A d \in Editors \ {e} : ~Busy(d)'
    BY <1>1, <2>0 DEF Busy
  <2>3. Pending(e)'
    BY <1>1, <1>2, <2>1 DEF Pending
  <2>4. ASSUME NEW d \in Editors \ {e} PROVE Pending(d)'
    BY <2>2 DEF Pending, Busy
  <2> QED
    BY <1>2, <2>1, <2>2, <2>3, <2>4 DEF VersionsInv
<1> QED
  BY <1>1, <1>3, <1>4 DEF VersionsIndInv

(* An operation has read the record and made its next one of it             *)
LEMMA ReadStep ==
    ASSUME VersionsIndInv, NEW e \in Editors, NEW r, NEW lost \in SUBSET Contents, Busy(e),
           NEW h, Proceeds(e, record, r, h), Excuses(lost), ResultOK(r),
           VersionsInv /\ ~past.raced => Sound(record, r, kept, lost)
    PROVE  VersionsIndInv'
<1>0. VersionsTypeOK /\ Fitting /\ VersionsInv
  BY DEF VersionsIndInv
<1> DEFINE x == [seq |-> 0, cur |-> r.cur, versions |-> r.versions]
           n == [editor[e] EXCEPT !.st = "resolving", !.meta = record, !.drop = r.drop, !.next = x]
<1>1. /\ editor[e] \in Editor /\ record \in VersionRecord /\ r.drop \in SUBSET Contents
      /\ x \in VersionRecord /\ x.cur = r.cur /\ x.versions = r.versions
      /\ Len(r.versions) <= MaxVersions
  BY <1>0 DEF VersionsTypeOK, ResultOK, Made
<1>3. UNCHANGED <<record, kept, counts>> /\ editor' = [editor EXCEPT ![e] = n]
  BY DEF Proceeds, Edits
<1> HIDE DEF x
<1>2. /\ n \in Editor /\ n.st = "resolving" /\ n.op = editor[e].op /\ n.drop = r.drop
      /\ n.index = editor[e].index /\ n.next.cur = r.cur /\ n.next.versions = r.versions
  <2>1. HasRead(editor[e], record, r.drop, x, n)
    BY <1>1, EditorReads
  <2> HIDE DEF n
  <2> QED
    BY <1>1, <2>1 DEF HasRead
<1> HIDE DEF n
<1>4. Stepped(e, n)
  BY <1>0, <1>1, <1>2, <1>3 DEF Stepped, Fitting
<1>5. /\ editor' \in [Editors -> Editor] /\ Fitting'
      /\ editor'[e] = n /\ \A d \in Editors \ {e} : editor'[d] = editor[d]
  BY <1>0, <1>4, SteppedKeeps
<1>6. VersionsTypeOK' /\ InRecord' = InRecord
  BY <1>0, <1>3, <1>5 DEF VersionsTypeOK, Excuses, InRecord
<1>7. VersionsInv'
  <2> SUFFICES ASSUME ~past'.raced PROVE VersionsInv'
    BY DEF VersionsInv
  <2>0. ~past.raced /\ past'.ever = past.ever /\ Excused' = Excused \cup lost
    BY DEF Excuses
  <2>1. /\ \A d, f \in Editors : Busy(d) /\ Busy(f) => d = f
        /\ ProperRecord(record.cur, record.versions)
        /\ InRecord \subseteq kept /\ past.ever \ Excused \subseteq InRecord
    BY <1>0, <2>0 DEF VersionsInv
  <2>2. \A d \in Editors \ {e} : ~Busy(d)'
    BY <1>5, <2>1 DEF Busy
  <2>3. Sound(record, r, kept, lost)
    BY <1>0, <2>0
  <2>4. past.ever \ (Excused \cup lost) \subseteq ContentsOf(r.cur, r.versions)
    BY <2>1, <2>3 DEF Sound, InRecord, ContentsOf
  <2>5. Pending(e)'
    BY <1>2, <1>3, <1>5, <2>0, <2>3, <2>4 DEF Pending, Sound
  <2>6. ASSUME NEW d \in Editors \ {e} PROVE Pending(d)'
    BY <2>2 DEF Pending, Busy
  <2>7. past'.ever \ Excused' \subseteq InRecord'
    BY <1>6, <2>0, <2>1
  <2> QED
    BY <1>3, <1>6, <2>1, <2>2, <2>5, <2>6, <2>7 DEF VersionsInv
<1> QED
  BY <1>5, <1>6, <1>7 DEF VersionsIndInv

LEMMA VersionsStepKeeps ==
    ASSUME VersionsIndInv, NEW e \in Editors, VersionsStep(e)
    PROVE  VersionsIndInv'
<1>0. VersionsTypeOK /\ Fitting /\ VersionsInv
  BY DEF VersionsIndInv
<1> DEFINE w == editor[e] idle == NotBusy(e)
<1>1. /\ w \in Editor /\ record \in VersionRecord /\ kept \subseteq Contents /\ past \in VersionHistory
      /\ counts \in [ops : 0..MaxOps, failures : 0..MaxFailures] /\ Len(record.versions) <= MaxVersions
      /\ Len(w.next.versions) <= MaxVersions
  BY <1>0 DEF VersionsTypeOK, Fitting
<1>2. /\ w.new \in Contents /\ w.next \in VersionRecord /\ w.index \in Nat /\ w.drop \subseteq Contents
  BY <1>1, EditorParts
<1>3. idle \in Editor /\ idle.st = "shown" /\ idle.next = w.next
  BY <1>1, EditorIdle DEF NotBusy
<1>4. /\ record.cur \in Contents /\ record.versions \in Seq(Contents) /\ Len(record.versions) \in Nat
      /\ MaxOps \in Nat /\ MaxFailures \in Nat
  BY <1>1, LenProperties, VersionsAssumption DEF VersionRecord
<1>5. /\ counts.failures < MaxFailures => [counts EXCEPT !.failures = @ + 1] \in [ops : 0..MaxOps, failures : 0..MaxFailures]
      /\ counts.ops < MaxOps => [counts EXCEPT !.ops = @ + 1] \in [ops : 0..MaxOps, failures : 0..MaxFailures]
  BY <1>1, <1>4
<1>6. ~past.raced => /\ ProperRecord(record.cur, record.versions)
                     /\ ContentsOf(record.cur, record.versions) \subseteq kept
                     /\ InRecord = ContentsOf(record.cur, record.versions)
  BY <1>0 DEF VersionsInv, InRecord, ContentsOf
<1> HIDE DEF w, idle
<1>7. CASE Show(e)
  <2> DEFINE n == [idle EXCEPT !.shown = record]
  <2>1. n \in Editor /\ n.st = idle.st /\ n.next = idle.next
    BY <1>1, <1>3, EditorShows
  <2>2. editor' = [editor EXCEPT ![e] = n] /\ UNCHANGED <<record, kept, counts, past>>
    BY <1>7 DEF Show, Edits, idle
  <2> HIDE DEF n
  <2>3. Stepped(e, n)
    BY <1>1, <1>3, <2>1, <2>2 DEF Stepped
  <2> QED
    BY <1>1, <1>3, <2>1, <2>2, <2>3, IdleStep
<1>8. CASE Fails(e)
  <2>1. /\ editor' = [editor EXCEPT ![e] = idle] /\ UNCHANGED <<record, kept, past>>
        /\ counts' \in [ops : 0..MaxOps, failures : 0..MaxFailures]
    BY <1>5, <1>8 DEF Fails, Edits, idle
  <2>2. Stepped(e, idle)
    BY <1>1, <1>3, <2>1 DEF Stepped
  <2> QED
    BY <1>3, <2>1, <2>2, IdleStep
<1>9. CASE NoSuchVersion(e)
  <2>1. /\ editor' = [editor EXCEPT ![e] = idle] /\ UNCHANGED <<record, kept, counts, past>>
    BY <1>9 DEF NoSuchVersion, Edits, idle
  <2>2. Stepped(e, idle)
    BY <1>1, <1>3, <2>1 DEF Stepped
  <2> QED
    BY <1>1, <1>3, <2>1, <2>2, IdleStep
<1>10. CASE Save(e)
  <2>1. PICK c \in Fresh :
            /\ Starts(e, [w EXCEPT !.st = "reading", !.op = "save", !.new = c])
            /\ kept' = kept \cup {c}
    BY <1>10 DEF Save, w
  <2>2. c \in Contents /\ c \notin kept
    BY DEF Fresh
  <2> DEFINE n == [w EXCEPT !.st = "reading", !.op = "save", !.new = c]
  <2>3. n \in Editor /\ n.st = "reading" /\ n.op = "save" /\ n.new = c /\ n.next = w.next
    BY <1>1, <2>2, EditorSaves
  <2>4. /\ editor' = [editor EXCEPT ![e] = n] /\ record' = record /\ editor[e].st = "shown"
        /\ past' = [past EXCEPT !.raced = @ \/ \E d \in Editors \ {e} : Busy(d)]
        /\ counts' \in [ops : 0..MaxOps, failures : 0..MaxFailures]
    BY <1>5, <2>1 DEF Starts, Edits
  <2> HIDE DEF n
  <2>5. Stepped(e, n)
    BY <1>1, <2>3, <2>4 DEF Stepped
  <2>6. kept \subseteq kept' /\ kept' \subseteq Contents /\ n.new \in kept' /\ n.new \notin kept
    BY <1>1, <2>1, <2>2, <2>3
  <2> QED
    BY <2>3, <2>4, <2>5, <2>6, StartStep
<1>11. CASE \E op \in {"restore", "delete"}, i \in 1..MaxVersions : Confirm(e, op, i)
  <2>1. PICK op \in {"restore", "delete"}, i \in 1..MaxVersions : Confirm(e, op, i)
    BY <1>11
  <2> DEFINE n == [w EXCEPT !.st = "reading", !.op = op, !.index = i]
  <2>2. i \in Nat /\ i >= 1 /\ op \in {"restore", "delete"}
    BY VersionsAssumption
  <2>3. n \in Editor /\ n.st = "reading" /\ n.op = op /\ n.index = i /\ n.next = w.next
    <3>1. Confirms(w, op, i, n)
      BY <1>1, <2>2, EditorConfirms
    <3> QED
      BY <3>1 DEF Confirms
  <2>4. /\ editor' = [editor EXCEPT ![e] = n] /\ record' = record /\ editor[e].st = "shown" /\ kept' = kept
        /\ past' = [past EXCEPT !.raced = @ \/ \E d \in Editors \ {e} : Busy(d)]
        /\ counts' \in [ops : 0..MaxOps, failures : 0..MaxFailures]
    BY <1>5, <2>1 DEF Confirm, Starts, Edits, w
  <2> HIDE DEF n
  <2>5. Stepped(e, n)
    BY <1>1, <2>2, <2>3, <2>4 DEF Stepped
  <2> QED
    BY <1>1, <2>3, <2>4, <2>5, StartStep
<1>12. CASE ReadForSave(e)
  <2>1. PICK v \in MayCreateVersion(record) :
            Proceeds(e, record, Saved(record, w.new, v),
                IF v THEN [past EXCEPT !.outdated = @ \cup Pruned(record)]
                ELSE [past EXCEPT !.overwritten = @ \cup {record.cur}])
    BY <1>12 DEF ReadForSave, w
  <2> DEFINE lost == IF v THEN Pruned(record) ELSE {record.cur} r == Saved(record, w.new, v)
             h == IF v THEN [past EXCEPT !.outdated = @ \cup Pruned(record)]
                  ELSE [past EXCEPT !.overwritten = @ \cup {record.cur}]
  <2>2. v \in BOOLEAN /\ editor[e].st = "reading" /\ editor[e].op = "save" /\ Busy(e)
    BY <1>12 DEF MayCreateVersion, ReadForSave, Reads, Busy
  <2>3. Pruned(record) \subseteq Contents
    <3>1. CASE Len(record.versions) = MaxVersions
      <4>1. Len(record.versions) \in 1..Len(record.versions)
        BY <1>4, <3>1, VersionsAssumption
      <4> QED
        BY <1>4, <4>1, ElementOfSeq DEF Pruned, Last
    <3>2. CASE Len(record.versions) # MaxVersions
      BY <3>2 DEF Pruned
    <3> QED
      BY <3>1, <3>2
  <2>4. past' = h /\ Proceeds(e, record, r, h)
    BY <2>1 DEF Proceeds
  <2>5. lost \in SUBSET Contents /\ Excuses(lost)
    BY <1>0, <1>4, <2>2, <2>3, <2>4, ExcusesOutdated, ExcusesOverwritten
  <2>6. ResultOK(r)
    BY <1>1, <1>2, <2>2, SavedType
  <2>7. ASSUME ~past.raced PROVE Sound(record, r, kept, lost)
    <3>1. Pending(e)
      BY <1>0, <2>7 DEF VersionsInv
    <3>2. w.new \in kept /\ w.new \notin InRecord
      BY <2>2, <3>1 DEF Pending, w
    <3> QED
      BY <1>1, <1>2, <1>6, <2>2, <2>7, <3>2, SavedSound
  <2> HIDE DEF lost, r, h
  <2> QED
    BY <2>2, <2>4, <2>5, <2>6, <2>7, ReadStep
<1>13. CASE ReadForRestore(e)
  <2>1. w.index \in 1..Len(record.versions) /\ Busy(e)
    BY <1>0, <1>2, <1>4, <1>13 DEF ReadForRestore, Reads, Fitting, Busy, w
  <2> DEFINE r == Restored(record, w.index)
  <2>2. Proceeds(e, record, r, past) /\ past' = past
    BY <1>13 DEF ReadForRestore, Proceeds, w
  <2>3. {} \in SUBSET Contents /\ Excuses({})
    BY <1>1, <2>2 DEF Excuses, Excused
  <2>4. ResultOK(r)
    BY <1>1, <2>1, RestoredType
  <2>5. ASSUME ~past.raced PROVE Sound(record, r, kept, {})
    BY <1>1, <1>6, <2>1, <2>5, RestoredSound
  <2> HIDE DEF r
  <2> QED
    BY <2>1, <2>2, <2>3, <2>4, <2>5, ReadStep
<1>14. CASE ReadForDelete(e)
  <2>1. w.index \in 1..Len(record.versions) /\ Busy(e)
    BY <1>0, <1>2, <1>4, <1>14 DEF ReadForDelete, Reads, Fitting, Busy, w
  <2> DEFINE r == Deleted(record, w.index) X == {record.versions[w.index]}
             h == [past EXCEPT !.deleted = @ \cup X]
  <2>2. Proceeds(e, record, r, h) /\ past' = h
    BY <1>14 DEF ReadForDelete, Proceeds, w
  <2>3. X \in SUBSET Contents
    BY <1>4, <2>1, ElementOfSeq
  <2>4. ResultOK(r)
    BY <1>1, <2>1, DeletedType
  <2>5. ASSUME ~past.raced PROVE Sound(record, r, kept, X)
    BY <1>1, <1>6, <2>1, <2>5, DeletedSound
  <2> HIDE DEF X, r
  <2>6. Excuses(X)
    BY <1>0, <2>2, <2>3, ExcusesDeleted
  <2> HIDE DEF h
  <2> QED
    BY <2>1, <2>2, <2>3, <2>4, <2>5, <2>6, ReadStep
<1>15. CASE Resolve(e)
  <2> DEFINE k == record.seq + 1 n == [w EXCEPT !.st = "publishing", !.next.seq = k]
  <2>0. k \in Nat
    BY <1>1 DEF VersionRecord
  <2>1. editor' = [editor EXCEPT ![e] = n] /\ UNCHANGED <<record, kept, counts, past>> /\ w.st = "resolving"
    BY <1>15 DEF Resolve, Edits, w
  <2> HIDE DEF k
  <2>2. /\ n \in Editor /\ n.st = "publishing" /\ n.op = w.op /\ n.drop = w.drop /\ n.index = w.index
        /\ n.next.seq = k /\ n.next.cur = w.next.cur /\ n.next.versions = w.next.versions
    BY <1>1, <2>0, EditorResolves
  <2> HIDE DEF n
  <2>3. Stepped(e, n)
    BY <1>0, <1>1, <2>1, <2>2 DEF Stepped, Fitting, Busy, w
  <2>4. /\ editor' \in [Editors -> Editor] /\ Fitting'
        /\ editor'[e] = n /\ \A d \in Editors \ {e} : editor'[d] = editor[d]
    BY <1>0, <2>3, SteppedKeeps
  <2>5. VersionsTypeOK' /\ InRecord' = InRecord /\ Excused' = Excused
    BY <1>0, <2>1, <2>4 DEF VersionsTypeOK, InRecord, Excused
  <2>6. VersionsInv'
    <3> SUFFICES ASSUME ~past.raced PROVE VersionsInv'
      BY <2>1 DEF VersionsInv
    <3>1. /\ \A d, f \in Editors : Busy(d) /\ Busy(f) => d = f
          /\ ProperRecord(record.cur, record.versions)
          /\ InRecord \subseteq kept /\ past.ever \ Excused \subseteq InRecord /\ Pending(e)
      BY <1>0 DEF VersionsInv
    <3>2. \A d \in Editors \ {e} : ~Busy(d)'
      BY <2>1, <2>4, <3>1 DEF Busy, w
    <3>3. Pending(e)'
      BY <2>1, <2>2, <2>4, <2>5, <3>1 DEF Pending, w, k
    <3>4. ASSUME NEW d \in Editors \ {e} PROVE Pending(d)'
      BY <3>2 DEF Pending, Busy
    <3> QED
      BY <2>1, <2>5, <3>1, <3>2, <3>3, <3>4 DEF VersionsInv
  <2> QED
    BY <2>4, <2>5, <2>6 DEF VersionsIndInv
<1>16. CASE Publish(e)
  <2> DEFINE accepted == w.next.seq >= record.seq
  <2>1. /\ w.st = "publishing" /\ record' = IF accepted THEN w.next ELSE record
        /\ past' = [past EXCEPT !.ever = IF accepted THEN @ \cup {w.next.cur} ELSE @]
    BY <1>16 DEF Publish, w
  <2>2. record' \in VersionRecord /\ Len(record'.versions) <= MaxVersions /\ w.next.cur \in Contents
    BY <1>1, <1>2, <2>1 DEF VersionRecord
  <2>3. /\ past' \in VersionHistory /\ past'.raced = past.raced /\ Excused' = Excused
        /\ past'.ever = IF accepted THEN past.ever \cup {w.next.cur} ELSE past.ever
    <3>1. CASE accepted
      BY <1>1, <2>1, <2>2, <3>1, HistoryParts DEF VersionHistory, Excused
    <3>2. CASE ~accepted
      <4>1. past' = past
        BY <1>1, <2>1, <3>2 DEF VersionHistory
      <4> QED
        BY <1>1, <3>2, <4>1 DEF Excused
    <3> QED
      BY <3>1, <3>2
  <2>4. \E n \in Editor :
            /\ editor' = [editor EXCEPT ![e] = n] /\ n.st \in {"closed", "shown"} /\ n.next = w.next
            /\ kept' \in {kept, kept \ w.drop} /\ counts' \in [ops : 0..MaxOps, failures : 0..MaxFailures]
    <3>1. CASE /\ kept' = Unpinned(w) /\ UNCHANGED counts
               /\ Edits(e, [NotBusy(e) EXCEPT !.st = IF w.op = "save" THEN "closed" ELSE "shown", !.shown = record'])
      <4> DEFINE st == IF w.op = "save" THEN "closed" ELSE "shown"
                 n == [idle EXCEPT !.st = st, !.shown = record']
      <4>1. st \in {"closed", "shown"}
        OBVIOUS
      <4>2. editor' = [editor EXCEPT ![e] = n] /\ kept' = kept \ w.drop
        BY <3>1 DEF Edits, Unpinned, idle
      <4> HIDE DEF st
      <4>3. n \in Editor /\ n.st = st /\ n.next = idle.next
        <5> DEFINE m == record'
        <5>1. m \in VersionRecord
          BY <2>2
        <5> HIDE DEF m
        <5>2. Closes(idle, m, st, [idle EXCEPT !.st = st, !.shown = m])
          BY <1>3, <4>1, <5>1, EditorCloses
        <5> QED
          BY <5>2 DEF m, Closes
      <4> HIDE DEF n
      <4> QED
        BY <1>1, <1>3, <3>1, <4>1, <4>2, <4>3
    <3>2. CASE /\ counts.failures < MaxFailures /\ counts' = [counts EXCEPT !.failures = @ + 1]
               /\ UNCHANGED kept /\ Edits(e, NotBusy(e))
      BY <1>3, <1>5, <3>2 DEF Edits, idle
    <3> QED
      BY <1>16, <3>1, <3>2 DEF Publish, w
  <2>5. PICK n \in Editor :
            /\ editor' = [editor EXCEPT ![e] = n] /\ n.st \in {"closed", "shown"} /\ n.next = w.next
            /\ kept' \in {kept, kept \ w.drop} /\ counts' \in [ops : 0..MaxOps, failures : 0..MaxFailures]
    BY <2>4
  <2>6. Stepped(e, n)
    BY <1>1, <2>5 DEF Stepped
  <2>7. /\ editor' \in [Editors -> Editor] /\ Fitting'
        /\ editor'[e] = n /\ \A d \in Editors \ {e} : editor'[d] = editor[d]
    BY <1>0, <2>6, SteppedKeeps
  <2>8. VersionsTypeOK'
    BY <1>1, <2>2, <2>3, <2>5, <2>7 DEF VersionsTypeOK
  <2>9. VersionsInv'
    <3> SUFFICES ASSUME ~past.raced PROVE VersionsInv'
      BY <2>3 DEF VersionsInv
    <3>1. (\A d, f \in Editors : Busy(d) /\ Busy(f) => d = f) /\ Pending(e) /\ Busy(e)
      BY <1>0, <2>1 DEF VersionsInv, Busy, w
    <3>2. \A d \in Editors : ~Busy(d)'
      BY <2>5, <2>7, <3>1 DEF Busy
    <3>3. /\ w.next.seq = record.seq + 1 /\ ProperRecord(w.next.cur, w.next.versions)
          /\ ContentsOf(w.next.cur, w.next.versions) \subseteq kept \ w.drop
          /\ past.ever \ Excused \subseteq ContentsOf(w.next.cur, w.next.versions)
      BY <2>1, <3>1 DEF Pending, w
    <3>4. accepted
      BY <1>1, <3>3 DEF VersionRecord
    <3>5. record' = w.next /\ InRecord' = ContentsOf(w.next.cur, w.next.versions)
      BY <2>1, <3>4 DEF InRecord, ContentsOf
    <3>6. InRecord' \subseteq kept' /\ w.next.cur \in InRecord'
      BY <2>5, <3>3, <3>5 DEF ContentsOf
    <3>7. past'.ever \ Excused' \subseteq InRecord'
      BY <2>3, <3>3, <3>4, <3>5, <3>6
    <3>8. \A d \in Editors : Pending(d)'
      BY <3>2 DEF Pending, Busy
    <3> QED
      BY <3>2, <3>3, <3>5, <3>6, <3>7, <3>8 DEF VersionsInv
  <2> QED
    BY <2>7, <2>8, <2>9 DEF VersionsIndInv
<1> QED
  BY <1>7, <1>8, <1>9, <1>10, <1>11, <1>12, <1>13, <1>14, <1>15, <1>16 DEF VersionsStep

LEMMA VersionsNextKeeps == VersionsIndInv /\ [VersionsNext]_versionVars => VersionsIndInv'
<1> SUFFICES ASSUME VersionsIndInv, [VersionsNext]_versionVars PROVE VersionsIndInv'
  OBVIOUS
<1>1. CASE VersionsNext
  <2>1. PICK e \in Editors : VersionsStep(e)
    BY <1>1 DEF VersionsNext, VersionsStep
  <2> QED
    BY <2>1, VersionsStepKeeps
<1>2. CASE UNCHANGED versionVars
  BY <1>2 DEF versionVars, VersionsIndInv, VersionsTypeOK, Fitting, VersionsInv, Pending, Busy, InRecord,
      Excused
<1> QED
  BY <1>1, <1>2

LEMMA VersionsIndInvariant == VersionsSpec => []VersionsIndInv
BY VersionsInitHolds, VersionsNextKeeps, PTL DEF VersionsSpec

(* Records, dialogs and histories have their types: the list in the file's  *)
(* record never outgrows MAX_VERSIONS_PER_FILE.                             *)
THEOREM VersionsTypeCorrect == VersionsSpec => []VersionsTypeOK
<1>1. VersionsIndInv => VersionsTypeOK
  BY DEF VersionsIndInv
<1> QED
  BY <1>1, VersionsIndInvariant, PTL

(* Whatever the contents, the dialogs, the cap on versions and the calls    *)
(* that fail: as long as two operations never overlap, what the record      *)
(* lists is pinned.                                                         *)
THEOREM ListedVersionsReadable == VersionsSpec => []VersionsReadable
<1>1. VersionsIndInv => VersionsReadable
  BY DEF VersionsIndInv, VersionsInv, VersionsReadable
<1> QED
  BY <1>1, VersionsIndInvariant, PTL

(* And what was once the file's content is lost only to the user, to the    *)
(* cooldown or to the cap.                                                  *)
THEOREM OldContentsKept == VersionsSpec => []VersionsKept
<1>1. VersionsIndInv => VersionsKept
  BY DEF VersionsIndInv, VersionsInv, VersionsKept, Excused
<1> QED
  BY <1>1, VersionsIndInvariant, PTL

-----------------------------------------------------------------------------
(* SharedView: where the user is in a shared folder                         *)

ViewTypes ==
    /\ view \in {"list", "folder", "left"} /\ loading \in BOOLEAN /\ offered \subseteq Shares
    /\ children \in Places \cup {Nowhere} /\ key \in Buffers \cup {NoKey}
    /\ crumbs \in Seq(Places) /\ stack \in Seq(Level)
    /\ nav \subseteq Nav /\ reads \subseteq Buffers
    /\ used \in Seq(Places) /\ Len(used) <= MaxBuffers /\ zeroed \subseteq DOMAIN used
    /\ astray \in BOOLEAN /\ overtaken \in BOOLEAN

(* One navigation at a time; while nobody has gone elsewhere it started     *)
(* where the user still is                                                  *)
NavFits ==
    /\ \A n \in nav : nav = {n}
    /\ nav # {} => loading
    /\ key # NoKey => children \in Places
    /\ \A n \in nav :
        /\ n.key # NoKey => n.from \in Places
        /\ ~n.stale /\ n.to \in Subfolders => view = "folder" /\ n.from = children /\ n.key = key
        /\ ~n.stale /\ n.to \in Shares => view = "list"

(* The buffers that the page and its navigations hold have been decrypted   *)
KnownKeys ==
    /\ key \in DOMAIN used \cup {NoKey} /\ StackKeys \subseteq DOMAIN used
    /\ \A n \in nav : n.key \in DOMAIN used \cup {NoKey}

(* Every level has a buffer of its own                                      *)
OwnKeys ==
    \A i \in DOMAIN stack :
        stack[i].key # key /\ \A j \in DOMAIN stack : stack[i].key = stack[j].key => i = j

PathFits ==
    view = "folder" /\ ~astray =>
        /\ OpensChildren(key, children) /\ Len(crumbs) = Len(stack) + 1 /\ Last(crumbs) = children
        /\ \A i \in DOMAIN stack :
            stack[i].children = crumbs[i] /\ OpensChildren(stack[i].key, crumbs[i])
        /\ OwnKeys
ClearedFits ==
    /\ astray => overtaken
    /\ overtaken \/ \A b \in DOMAIN used :
            Live(b) => view = "folder" /\ (b = key \/ b \in StackKeys)

ViewInv == ViewTypes /\ NavFits /\ KnownKeys /\ PathFits /\ ClearedFits

LEMMA PrefixParts ==
    ASSUME NEW S, NEW s \in Seq(S), NEW n \in 0..Len(s)
    PROVE  /\ SubSeq(s, 1, n) \in Seq(S) /\ Len(SubSeq(s, 1, n)) = n
           /\ \A j \in 1..n : SubSeq(s, 1, n)[j] = s[j]
           /\ DOMAIN SubSeq(s, 1, n) = 1..n
<1> DEFINE u == SubSeq(s, 1, n)
<1>1. Len(s) \in Nat /\ n \in Nat /\ \A j \in 1..n : s[j] \in S
  BY LenProperties, ElementOfSeq
<1>2. /\ u \in Seq(S) /\ Len(u) = IF 1 <= n THEN n - 1 + 1 ELSE 0
      /\ \A j \in 1..n - 1 + 1 : u[j] = s[1 + j - 1]
  BY <1>1, SubSeqProperties
<1>3. \A j \in 1..n : j \in 1..n - 1 + 1 /\ 1 + j - 1 = j
  BY <1>1
<1> HIDE DEF u
<1>4. DOMAIN u = 1..Len(u)
  BY <1>2, LenProperties
<1> QED
  BY <1>1, <1>2, <1>3, <1>4 DEF u

LEMMA ViewParts ==
    ASSUME ViewTypes
    PROVE  /\ Len(crumbs) \in Nat /\ DOMAIN crumbs = 1..Len(crumbs)
           /\ \A i \in 1..Len(crumbs) : crumbs[i] \in Places
           /\ Len(stack) \in Nat /\ DOMAIN stack = 1..Len(stack)
           /\ \A i \in 1..Len(stack) : /\ stack[i] \in Level /\ stack[i].children \in Places
                                       /\ stack[i].key \in Buffers
           /\ Len(used) \in Nat /\ DOMAIN used = 1..Len(used) /\ NoKey \notin DOMAIN used
           /\ NoKey \notin Buffers /\ MaxBuffers \in Nat
<1>1. /\ Len(crumbs) \in Nat /\ DOMAIN crumbs = 1..Len(crumbs)
      /\ \A i \in 1..Len(crumbs) : crumbs[i] \in Places
  BY LenProperties, ElementOfSeq DEF ViewTypes
<1>2. Len(stack) \in Nat /\ DOMAIN stack = 1..Len(stack) /\ \A i \in 1..Len(stack) : stack[i] \in Level
  BY LenProperties, ElementOfSeq DEF ViewTypes
<1>3. Len(used) \in Nat /\ DOMAIN used = 1..Len(used)
  BY LenProperties DEF ViewTypes
<1>4. \A l \in Level : l.children \in Places /\ l.key \in Buffers
  BY DEF Level
<1> QED
  BY <1>1, <1>2, <1>3, <1>4, ViewAssumption DEF NoKey, Buffers

(* Back to a level of the stack: those above it, and where the user was,    *)
(* are zeroed                                                               *)
Back(left) ==
    /\ left \in 1..Len(stack)
    /\ zeroed' = zeroed \cup ({key} \ {NoKey}) \cup Discarded(left)
    /\ stack' = SubSeq(stack, 1, left - 1)
    /\ children' = stack[left].children /\ key' = stack[left].key
    /\ UNCHANGED <<view, used, astray, overtaken>> /\ view = "folder"

(* What a buffer opens after the step                                       *)
OpensThen(b, p) == b \in DOMAIN used' /\ b \notin zeroed' /\ used'[b] = p

LEMMA BackTypes ==
    ASSUME ViewTypes, ClearedFits, NEW left, Back(left), \A j \in 1..Len(stack) : stack[j].key \in DOMAIN used,
           key \in DOMAIN used \cup {NoKey}
    PROVE  /\ stack' \in Seq(Level) /\ children' \in Places /\ key' \in Buffers /\ zeroed' \subseteq DOMAIN used'
           /\ Len(stack') = left - 1 /\ DOMAIN stack' = 1..left - 1
           /\ \A j \in 1..left - 1 : stack'[j] = stack[j]
<1>1. left - 1 \in 0..Len(stack) /\ left \in 1..Len(stack) /\ Len(stack) \in Nat /\ DOMAIN stack = 1..Len(stack)
  BY ViewParts DEF Back
<1>2. Discarded(left) \subseteq DOMAIN used
  BY <1>1 DEF Discarded
<1>3. zeroed' \subseteq DOMAIN used'
  BY <1>2 DEF Back, ViewTypes
<1>4. stack' \in Seq(Level) /\ Len(stack') = left - 1 /\ DOMAIN stack' = 1..left - 1
      /\ \A j \in 1..left - 1 : stack'[j] = stack[j]
  BY <1>1, PrefixParts DEF ViewTypes, Back
<1>5. children' \in Places /\ key' \in Buffers
  BY <1>1, ViewParts DEF Back
<1> QED
  BY <1>3, <1>4, <1>5

LEMMA BackFits ==
    ASSUME ViewTypes, PathFits, ClearedFits, ~astray, NEW left, Back(left), crumbs' = SubSeq(crumbs, 1, left),
           stack' \in Seq(Level), Len(stack') = left - 1, DOMAIN stack' = 1..left - 1,
           \A j \in 1..left - 1 : stack'[j] = stack[j]
    PROVE  PathFits' /\ ClearedFits'
<1>1. /\ OpensChildren(key, children) /\ Len(crumbs) = Len(stack) + 1
      /\ \A i \in 1..Len(stack) : stack[i].children = crumbs[i] /\ OpensChildren(stack[i].key, crumbs[i])
      /\ \A i \in 1..Len(stack) :
            stack[i].key # key /\ \A j \in 1..Len(stack) : stack[i].key = stack[j].key => i = j
  BY ViewParts DEF PathFits, Back, OwnKeys
<1>2. /\ left \in 1..Len(stack) /\ left \in 0..Len(crumbs) /\ Len(stack) \in Nat
      /\ \A j \in 1..left : j \in 1..Len(stack)
      /\ \A j \in 1..left - 1 : j \in 1..left /\ j # left
  BY <1>1, ViewParts DEF Back
<1>3. /\ crumbs' \in Seq(Places) /\ Len(crumbs') = left /\ \A j \in 1..left : crumbs'[j] = crumbs[j]
  BY <1>2, PrefixParts DEF ViewTypes
<1>4. zeroed' = zeroed \cup ({key} \ {NoKey}) \cup {stack[j].key : j \in left + 1..Len(stack)}
  BY DEF Back, Discarded
<1>5. \A j \in 1..left : OpensThen(stack[j].key, crumbs[j])
  <2> SUFFICES ASSUME NEW j \in 1..left PROVE stack[j].key \notin zeroed'
    BY <1>1, <1>2 DEF OpensChildren, OpensThen, Live, Back
  <2>1. stack[j].key \notin zeroed /\ stack[j].key # key
    BY <1>1, <1>2 DEF OpensChildren, Live
  <2>2. \A k \in left + 1..Len(stack) : k \in 1..Len(stack) /\ k # j
    BY <1>2
  <2>3. \A k \in left + 1..Len(stack) : stack[k].key # stack[j].key
    BY <1>1, <1>2, <2>2
  <2> QED
    BY <1>4, <2>1, <2>3
<1>6. PathFits'
  <2>1. key' = stack[left].key /\ children' = crumbs[left] /\ left \in 1..left
    BY <1>1, <1>2 DEF Back
  <2>2. OpensChildren(key, children)'
    BY <1>5, <2>1 DEF OpensChildren, OpensThen, Live
  <2>3. Last(crumbs') = children' /\ Len(crumbs') = Len(stack') + 1
    BY <1>2, <1>3, <2>1 DEF Last
  <2>4. \A i \in DOMAIN stack' :
            stack'[i].children = crumbs'[i] /\ OpensThen(stack'[i].key, crumbs'[i])
    <3> TAKE i \in DOMAIN stack'
    <3>1. i \in 1..left /\ stack'[i] = stack[i] /\ i \in 1..Len(stack) /\ crumbs'[i] = crumbs[i]
      BY <1>2, <1>3
    <3> QED
      BY <1>1, <1>5, <3>1
  <2>5. OwnKeys'
    BY <1>1, <1>2, <2>1 DEF OwnKeys
  <2> QED
    BY <2>2, <2>3, <2>4, <2>5 DEF PathFits, OpensChildren, OpensThen, Live
<1>7. ClearedFits'
  <2>1. astray' => overtaken'
    BY DEF ClearedFits, Back
  <2>2. ASSUME ~overtaken, NEW b \in DOMAIN used, b \notin zeroed' PROVE b = key' \/ b \in StackKeys'
    <3>1. b # key /\ b \notin zeroed
      BY <1>1, <1>4, <2>2, ViewParts DEF OpensChildren, Live
    <3>2. b \in StackKeys
      BY <2>2, <3>1 DEF ClearedFits, Live
    <3>3. PICK j \in 1..Len(stack) : b = stack[j].key
      BY <3>2, ViewParts DEF StackKeys
    <3>4. j \notin left + 1..Len(stack)
      BY <1>4, <2>2, <3>3
    <3>5. CASE j = left
      BY <3>3, <3>5 DEF Back
    <3>6. CASE j \in 1..left - 1
      BY <3>3, <3>6 DEF StackKeys
    <3> QED
      BY <1>2, <3>4, <3>5, <3>6
  <2> QED
    BY <2>1, <2>2 DEF ClearedFits, Live, Back
<1> QED
  BY <1>6, <1>7

LEMMA ViewStartHolds == ViewInit => ViewInv
<1> SUFFICES ASSUME ViewInit PROVE ViewInv
  OBVIOUS
<1>1. /\ <<>> \in Seq(Places) /\ <<>> \in Seq(Level) /\ Len(<<>>) = 0
  BY EmptySeq
<1>2. ViewTypes
  <2>1. Len(used) <= MaxBuffers
    BY <1>1, ViewAssumption DEF ViewInit
  <2> QED
    BY <1>1, <2>1 DEF ViewInit, ViewTypes
<1>3. DOMAIN used = {}
  BY ViewParts, <1>1, <1>2 DEF ViewInit
<1>4. NavFits /\ KnownKeys /\ PathFits /\ ClearedFits
  BY <1>3 DEF ViewInit, NavFits, PathFits, ClearedFits, KnownKeys, StackKeys
<1> QED
  BY <1>2, <1>4 DEF ViewInv

(* A step that leaves where the user is, what is decrypted and what is gone *)
LEMMA StayFits ==
    ASSUME ViewTypes, PathFits, ClearedFits,
           UNCHANGED <<view, trail, used, zeroed, astray, overtaken>>
    PROVE  PathFits' /\ ClearedFits'
BY DEF trail, PathFits, ClearedFits, OpensChildren, Live, OwnKeys, StackKeys

LEMMA StaleNavs ==
    ASSUME nav \subseteq Nav, Overtakes
    PROVE  /\ nav' \subseteq Nav /\ (nav' # {} => nav # {})
           /\ \A n \in nav' : n.stale /\ \E m \in nav : n.from = m.from /\ n.key = m.key
           /\ (\A n \in nav : nav = {n}) => \A n \in nav' : nav' = {n}
<1>1. \A m \in nav : LET n == [m EXCEPT !.stale = TRUE] IN
            n \in Nav /\ n.stale /\ n.from = m.from /\ n.key = m.key
  BY DEF Nav
<1> QED
  BY <1>1 DEF Overtakes

(* A navigation sets out from what is shown                                 *)
LEMMA NavStarts ==
    ASSUME ViewInv, NEW to \in Shares \cup Subfolders, Navigates(to), ~loading,
           to \in Subfolders => view = "folder", to \in Shares => view = "list"
    PROVE  ViewInv'
<1>0. ViewTypes /\ NavFits /\ KnownKeys /\ PathFits /\ ClearedFits
  BY DEF ViewInv
<1> DEFINE n == [to |-> to, from |-> children, key |-> key, stale |-> FALSE]
<1>1. n \in Nav /\ n.to = to /\ n.from = children /\ n.key = key /\ n.stale = FALSE
  BY <1>0 DEF Nav, ViewTypes
<1>2. nav' = {n} /\ loading' = TRUE /\ UNCHANGED <<view, offered, trail, reads, used, zeroed, astray, overtaken>>
  BY <1>0 DEF Navigates, NavFits
<1> HIDE DEF n
<1>3. ViewTypes'
  BY <1>0, <1>1, <1>2 DEF ViewTypes, trail
<1>4. NavFits'
  BY <1>0, <1>1, <1>2 DEF NavFits, trail
<1>5. PathFits' /\ ClearedFits'
  BY <1>0, <1>2, StayFits
<1>6. KnownKeys'
  BY <1>0, <1>1, <1>2 DEF KnownKeys, StackKeys, trail
<1> QED
  BY <1>3, <1>4, <1>5, <1>6 DEF ViewInv

LEMMA SharesAndFolders ==
    /\ FileShares \subseteq Shares /\ Roots \subseteq Shares /\ Roots \subseteq Places
    /\ Subfolders \subseteq Places /\ Shares \cap Subfolders = {}
BY ViewAssumption DEF Shares, Places

(* A new buffer for what was opened                                         *)
LEMMA DecryptsParts ==
    ASSUME ViewTypes, NEW p \in Places, Decrypts(p), key' = Len(used')
    PROVE  /\ used' \in Seq(Places) /\ Len(used') <= MaxBuffers /\ key' \in Buffers /\ key' # NoKey
           /\ DOMAIN used' = DOMAIN used \cup {key'} /\ key' \notin DOMAIN used /\ used'[key'] = p
           /\ \A b \in DOMAIN used : used'[b] = used[b]
<1>1. /\ Append(used, p) \in Seq(Places) /\ Len(Append(used, p)) = Len(used) + 1
      /\ \A i \in 1..Len(used) : Append(used, p)[i] = used[i]
      /\ Append(used, p)[Len(used) + 1] = p
  BY AppendProperties DEF ViewTypes
<1>2. used' = Append(used, p) /\ Len(used) < MaxBuffers
  BY DEF Decrypts
<1>3. DOMAIN used' = 1..Len(used')
  BY <1>1, <1>2, LenProperties
<1> QED
  BY <1>1, <1>2, <1>3, ViewParts DEF Buffers, NoKey

LEMMA ShareArrivedKeeps == ASSUME ViewInv, ShareArrived PROVE ViewInv'
<1>0. ViewTypes /\ NavFits /\ KnownKeys /\ PathFits /\ ClearedFits
  BY DEF ViewInv
<1>1. PICK n \in nav : /\ n.to \in Roots /\ Decrypts(n.to)
                       /\ children' = n.to /\ crumbs' = <<n.to>>
                       /\ overtaken' = (overtaken \/ n.stale)
  BY DEF ShareArrived
<1>2. /\ key' = Len(used') /\ stack' = <<>> /\ view' = IF view = "left" THEN "left" ELSE "folder"
      /\ nav' = {} /\ loading' = FALSE /\ astray' = FALSE /\ UNCHANGED <<offered, reads, zeroed>>
  BY DEF ShareArrived
<1> DEFINE p == n.to
<1>3. p \in Places /\ p \in Shares
  BY <1>1, SharesAndFolders
<1>4. /\ used' \in Seq(Places) /\ Len(used') <= MaxBuffers /\ key' \in Buffers /\ key' # NoKey
      /\ DOMAIN used' = DOMAIN used \cup {key'} /\ key' \notin DOMAIN used /\ used'[key'] = p
      /\ \A b \in DOMAIN used : used'[b] = used[b]
  BY <1>0, <1>1, <1>2, <1>3, DecryptsParts
<1>5. /\ <<p>> \in Seq(Places) /\ Len(<<p>>) = 1 /\ <<p>>[1] = p
      /\ <<>> \in Seq(Level) /\ Len(<<>>) = 0
  BY <1>3, EmptySeq
<1>6. n.stale \in BOOLEAN
  BY <1>0 DEF ViewTypes, Nav
<1>7. ViewTypes'
  BY <1>0, <1>1, <1>2, <1>3, <1>4, <1>5, <1>6 DEF ViewTypes
<1>8. NavFits'
  BY <1>1, <1>2, <1>3 DEF NavFits
<1>9. DOMAIN stack' = {}
  BY <1>2
<1>10. key' \notin zeroed'
  BY <1>0, <1>2, <1>4 DEF ViewTypes
<1>11. PathFits'
  BY <1>1, <1>2, <1>4, <1>5, <1>9, <1>10 DEF PathFits, OpensChildren, Live, OwnKeys, Last
<1>12. ClearedFits'
  <2>1. ASSUME ~overtaken', NEW b \in DOMAIN used', b \notin zeroed' PROVE view' = "folder" /\ b = key'
    <3>1. ~overtaken /\ ~n.stale
      BY <1>1, <2>1
    <3>2. view = "list"
      BY <1>0, <1>3, <3>1 DEF NavFits
    <3>3. b \notin DOMAIN used
      BY <1>0, <1>2, <2>1, <3>1, <3>2 DEF ClearedFits, Live
    <3> QED
      BY <1>2, <1>4, <2>1, <3>2, <3>3
  <2> QED
    BY <1>2, <2>1 DEF ClearedFits, Live
<1>13. KnownKeys'
  BY <1>2, <1>4, <1>9 DEF KnownKeys, StackKeys
<1> QED
  BY <1>7, <1>8, <1>11, <1>12, <1>13 DEF ViewInv

LEMMA SubArrivedKeeps == ASSUME ViewInv, SubArrived PROVE ViewInv'
<1>0. ViewTypes /\ NavFits /\ KnownKeys /\ PathFits /\ ClearedFits
  BY DEF ViewInv
<1>1. PICK n \in nav :
        /\ n.to \in Subfolders /\ Decrypts(n.to)
        /\ stack' = Pushed(n)
        /\ children' = n.to /\ crumbs' = Append(crumbs, n.to)
        /\ astray' = (astray \/ n.stale) /\ overtaken' = (overtaken \/ n.stale)
  BY DEF SubArrived
<1>2. key' = Len(used') /\ nav' = {} /\ loading' = FALSE /\ UNCHANGED <<view, offered, reads, zeroed>>
  BY DEF SubArrived
<1> DEFINE p == n.to
<1>3. p \in Places /\ n \in Nav
  BY <1>0, <1>1, SharesAndFolders DEF ViewTypes
<1>4. /\ used' \in Seq(Places) /\ Len(used') <= MaxBuffers /\ key' \in Buffers /\ key' # NoKey
      /\ DOMAIN used' = DOMAIN used \cup {key'} /\ key' \notin DOMAIN used /\ used'[key'] = p
      /\ \A b \in DOMAIN used : used'[b] = used[b]
  BY <1>0, <1>1, <1>2, <1>3, DecryptsParts
<1>5. /\ crumbs' \in Seq(Places) /\ Len(crumbs') = Len(crumbs) + 1 /\ crumbs'[Len(crumbs) + 1] = p
      /\ \A i \in 1..Len(crumbs) : crumbs'[i] = crumbs[i]
  BY <1>0, <1>1, <1>3, AppendProperties DEF ViewTypes
<1>6. n.stale \in BOOLEAN /\ n.key \in Buffers \cup {NoKey}
  BY <1>3 DEF Nav
<1> DEFINE l == [children |-> n.from, key |-> n.key]
<1>7. n.key # NoKey => l \in Level
  BY <1>0, <1>6 DEF NavFits, Level
<1>8. stack' = IF n.key = NoKey THEN stack ELSE Append(stack, l)
  BY <1>1 DEF Pushed
<1>9. n.key # NoKey => /\ stack' \in Seq(Level) /\ Len(stack') = Len(stack) + 1
                       /\ stack'[Len(stack) + 1] = l /\ \A i \in 1..Len(stack) : stack'[i] = stack[i]
  BY <1>0, <1>7, <1>8, AppendProperties DEF ViewTypes
<1>10. stack' \in Seq(Level)
  BY <1>0, <1>8, <1>9 DEF ViewTypes
<1>11. ViewTypes'
  BY <1>0, <1>1, <1>2, <1>3, <1>4, <1>5, <1>6, <1>10 DEF ViewTypes
<1>12. NavFits'
  BY <1>1, <1>2, <1>3 DEF NavFits
<1>13. key' \notin zeroed' /\ zeroed \subseteq DOMAIN used
  BY <1>0, <1>2, <1>4 DEF ViewTypes
<1>14. ASSUME ~n.stale
       PROVE  view = "folder" /\ n.from = children /\ n.key = key
  BY <1>0, <1>1, <1>14 DEF NavFits
<1>15. PathFits'
  <2> SUFFICES ASSUME view' = "folder", ~astray' PROVE PathFits'
    BY DEF PathFits
  <2>1. view = "folder" /\ ~astray /\ n.from = children /\ n.key = key
    BY <1>1, <1>14
  <2>2. /\ OpensChildren(key, children) /\ Len(crumbs) = Len(stack) + 1 /\ Last(crumbs) = children
        /\ \A i \in 1..Len(stack) : stack[i].children = crumbs[i] /\ OpensChildren(stack[i].key, crumbs[i])
        /\ \A i \in 1..Len(stack) :
              stack[i].key # key /\ \A j \in 1..Len(stack) : stack[i].key = stack[j].key => i = j
    BY <1>0, <2>1, ViewParts DEF PathFits, OwnKeys
  <2>3. key # NoKey /\ Len(stack) \in Nat /\ crumbs[Len(stack) + 1] = children
    BY <1>0, <2>2, ViewParts DEF OpensChildren, Live, Last
  <2>4. /\ Len(stack') = Len(stack) + 1 /\ stack'[Len(stack) + 1].children = children
        /\ stack'[Len(stack) + 1].key = key /\ \A i \in 1..Len(stack) : stack'[i] = stack[i]
    BY <1>9, <2>1, <2>3
  <2>5. DOMAIN stack' = 1..Len(stack) + 1
    BY <1>11, <2>4, LenProperties DEF ViewTypes
  <2>6. \A i \in 1..Len(stack) + 1 : i \in 1..Len(stack) \/ i = Len(stack) + 1
    BY <2>3
  <2>7. \A i \in 1..Len(stack) + 1 : stack'[i].children = crumbs'[i] /\ OpensChildren(stack'[i].key, crumbs'[i])
    <3> TAKE i \in 1..Len(stack) + 1
    <3>1. CASE i \in 1..Len(stack)
      <4>1. stack'[i] = stack[i] /\ crumbs'[i] = crumbs[i]
        BY <1>5, <2>2, <2>3, <2>4, <3>1
      <4> QED
        BY <2>2, <3>1, <4>1
    <3>2. CASE i = Len(stack) + 1
      <4>1. i \in 1..Len(crumbs) /\ crumbs'[i] = crumbs[i]
        BY <1>5, <2>2, <2>3, <3>2
      <4> QED
        BY <2>2, <2>3, <2>4, <3>2, <4>1
    <3> QED
      BY <2>6, <3>1, <3>2
  <2>8. \A b, q : OpensChildren(b, q) => b \in DOMAIN used' /\ b \notin zeroed' /\ used'[b] = q /\ b # key'
    BY <1>2, <1>4 DEF OpensChildren, Live
  <2>9. \A i \in DOMAIN stack' :
            stack'[i].children = crumbs'[i] /\ OpensThen(stack'[i].key, crumbs'[i]) /\ stack'[i].key # key'
    BY <2>5, <2>7, <2>8 DEF OpensThen
  <2>10. \A i, j \in DOMAIN stack' : stack'[i].key = stack'[j].key => i = j
    <3> TAKE i, j \in DOMAIN stack'
    <3>1. CASE i \in 1..Len(stack) /\ j \in 1..Len(stack)
      BY <2>2, <2>4, <3>1
    <3>2. CASE i \in 1..Len(stack) /\ j = Len(stack) + 1
      BY <2>2, <2>4, <3>2
    <3>3. CASE i = Len(stack) + 1 /\ j \in 1..Len(stack)
      BY <2>2, <2>4, <3>3
    <3>4. CASE i = Len(stack) + 1 /\ j = Len(stack) + 1
      BY <3>4
    <3> QED
      BY <2>5, <2>6, <3>1, <3>2, <3>3, <3>4
  <2>11. OpensThen(key', children')
    BY <1>1, <1>4, <1>13 DEF OpensThen
  <2>12. Len(crumbs') = Len(stack') + 1 /\ Last(crumbs') = children'
    BY <1>1, <1>5, <2>2, <2>3, <2>4 DEF Last
  <2>13. OwnKeys'
    BY <2>9, <2>10 DEF OwnKeys
  <2> QED
    BY <2>9, <2>11, <2>12, <2>13 DEF PathFits, OpensChildren, OpensThen, Live
<1>16. ClearedFits'
  <2>1. astray' => overtaken'
    BY <1>0, <1>1 DEF ClearedFits
  <2>2. ASSUME ~overtaken', NEW b \in DOMAIN used', b \notin zeroed'
        PROVE  view' = "folder" /\ (b = key' \/ b \in StackKeys')
    <3>1. ~overtaken /\ view = "folder" /\ n.key = key
      BY <1>1, <1>14, <2>2
    <3>2. CASE b = key'
      BY <1>2, <3>1, <3>2
    <3>3. CASE b # key'
      <4>1. b \in DOMAIN used /\ (b = key \/ b \in StackKeys)
        BY <1>0, <1>2, <1>4, <2>2, <3>1, <3>3 DEF ClearedFits, Live
      <4>2. \A i \in 1..Len(stack) : i \in DOMAIN stack' /\ stack'[i].key = stack[i].key
        <5>1. CASE n.key = NoKey
          BY <1>0, <1>8, <5>1, ViewParts
        <5>2. CASE n.key # NoKey
          <6>1. DOMAIN stack' = 1..Len(stack) + 1
            BY <1>9, <5>2, LenProperties
          <6> QED
            BY <1>0, <1>9, <5>2, <6>1, ViewParts
        <5> QED
          BY <5>1, <5>2
      <4>3. CASE b \in StackKeys
        BY <1>0, <1>2, <3>1, <4>2, <4>3, ViewParts DEF StackKeys
      <4>4. CASE b = key
        <5>1. n.key # NoKey
          BY <1>0, <3>1, <4>1, <4>4, ViewParts
        <5>2. DOMAIN stack' = 1..Len(stack) + 1 /\ stack'[Len(stack) + 1] = l
          BY <1>9, <5>1, LenProperties
        <5>3. Len(stack) + 1 \in DOMAIN stack' /\ stack'[Len(stack) + 1].key = b
          BY <1>0, <3>1, <4>4, <5>2, ViewParts
        <5> QED
          BY <1>2, <3>1, <5>3 DEF StackKeys
      <4> QED
        BY <4>1, <4>3, <4>4
    <3> QED
      BY <3>2, <3>3
  <2> QED
    BY <2>1, <2>2 DEF ClearedFits, Live
<1>17. KnownKeys'
  <2>1. CASE n.key = NoKey
    BY <1>0, <1>2, <1>4, <1>8, <2>1 DEF KnownKeys, StackKeys
  <2>2. CASE n.key # NoKey
    <3>1. DOMAIN stack' = 1..Len(stack) + 1 /\ n.key \in DOMAIN used
      BY <1>0, <1>9, <2>2, LenProperties DEF KnownKeys
    <3>2. \A i \in 1..Len(stack) + 1 : stack'[i].key \in DOMAIN used
      <4> TAKE i \in 1..Len(stack) + 1
      <4>1. CASE i = Len(stack) + 1
        BY <1>9, <2>2, <3>1, <4>1
      <4>2. CASE i # Len(stack) + 1
        <5>1. i \in 1..Len(stack) /\ i \in DOMAIN stack
          BY <1>0, <4>2, ViewParts
        <5> QED
          BY <1>0, <1>9, <2>2, <5>1 DEF KnownKeys, StackKeys
      <4> QED
        BY <4>1, <4>2
    <3> QED
      BY <1>2, <1>4, <3>1, <3>2 DEF KnownKeys, StackKeys
  <2> QED
    BY <2>1, <2>2
<1> QED
  BY <1>11, <1>12, <1>15, <1>16, <1>17 DEF ViewInv

LEMMA RootKeeps == ASSUME ViewInv, Root PROVE ViewInv'
<1>0. ViewTypes /\ NavFits /\ KnownKeys /\ PathFits /\ ClearedFits
  BY DEF ViewInv
<1>1. /\ zeroed' = zeroed \cup ({key} \ {NoKey}) \cup StackKeys /\ view' = "list"
      /\ children' = Nowhere /\ key' = NoKey /\ crumbs' = <<>> /\ stack' = <<>> /\ Overtakes
      /\ astray' = FALSE /\ UNCHANGED <<offered, loading, reads, used, overtaken>>
  BY DEF Root
<1>2. /\ nav' \subseteq Nav /\ (nav' # {} => nav # {})
      /\ \A n \in nav' : n.stale /\ \E m \in nav : n.from = m.from /\ n.key = m.key
      /\ \A n \in nav' : nav' = {n}
  BY <1>0, <1>1, StaleNavs DEF ViewTypes, NavFits
<1>3. <<>> \in Seq(Places) /\ <<>> \in Seq(Level)
  BY EmptySeq
<1>4. ViewTypes'
  BY <1>0, <1>1, <1>2, <1>3 DEF ViewTypes, KnownKeys
<1>5. NavFits'
  BY <1>0, <1>1, <1>2 DEF NavFits
<1>6. DOMAIN stack' = {}
  BY <1>1
<1>7. KnownKeys'
  BY <1>0, <1>1, <1>2, <1>6 DEF KnownKeys, StackKeys
<1>8. PathFits' /\ ClearedFits'
  <2>1. PathFits'
    BY <1>1 DEF PathFits
  <2>2. astray' => overtaken'
    BY <1>0, <1>1 DEF ClearedFits
  <2>3. ASSUME ~overtaken, NEW b \in DOMAIN used, b \notin zeroed' PROVE FALSE
    <3>1. b \notin zeroed /\ b \notin StackKeys /\ (b = key => b = NoKey)
      BY <1>1, <2>3
    <3>2. b # NoKey
      BY <1>0, <2>3, ViewParts
    <3>3. Live(b)
      BY <2>3, <3>1 DEF Live
    <3> QED
      BY <1>0, <2>3, <3>1, <3>2, <3>3 DEF ClearedFits
  <2>4. overtaken' = overtaken /\ used' = used
    BY <1>1
  <2>5. overtaken' \/ \A b \in DOMAIN used' : b \in zeroed'
    BY <2>3, <2>4
  <2> QED
    BY <2>1, <2>2, <2>5 DEF ClearedFits, Live
<1> QED
  BY <1>4, <1>5, <1>7, <1>8 DEF ViewInv

LEMMA LeaveKeeps == ASSUME ViewInv, Leave PROVE ViewInv'
<1>0. ViewTypes /\ NavFits /\ KnownKeys /\ PathFits /\ ClearedFits
  BY DEF ViewInv
<1>1. /\ zeroed' = zeroed \cup ({key} \ {NoKey}) \cup StackKeys /\ view' = "left"
      /\ key' = NoKey /\ stack' = <<>> /\ Overtakes
      /\ UNCHANGED <<offered, loading, children, crumbs, reads, used, astray, overtaken>>
  BY DEF Leave
<1>2. /\ nav' \subseteq Nav /\ (nav' # {} => nav # {})
      /\ \A n \in nav' : n.stale /\ \E m \in nav : n.from = m.from /\ n.key = m.key
      /\ \A n \in nav' : nav' = {n}
  BY <1>0, <1>1, StaleNavs DEF ViewTypes, NavFits
<1>3. <<>> \in Seq(Level)
  BY EmptySeq
<1>4. ViewTypes'
  BY <1>0, <1>1, <1>2, <1>3 DEF ViewTypes, KnownKeys
<1>5. NavFits'
  BY <1>0, <1>1, <1>2 DEF NavFits
<1>6. DOMAIN stack' = {}
  BY <1>1
<1>7. KnownKeys'
  BY <1>0, <1>1, <1>2, <1>6 DEF KnownKeys, StackKeys
<1>8. PathFits' /\ ClearedFits'
  <2>1. PathFits'
    BY <1>1 DEF PathFits
  <2>2. astray' => overtaken'
    BY <1>0, <1>1 DEF ClearedFits
  <2>3. ASSUME ~overtaken, NEW b \in DOMAIN used, b \notin zeroed' PROVE FALSE
    <3>1. b \notin zeroed /\ b \notin StackKeys /\ (b = key => b = NoKey)
      BY <1>1, <2>3
    <3>2. b # NoKey
      BY <1>0, <2>3, ViewParts
    <3>3. Live(b)
      BY <2>3, <3>1 DEF Live
    <3> QED
      BY <1>0, <2>3, <3>1, <3>2, <3>3 DEF ClearedFits
  <2>4. overtaken' = overtaken /\ used' = used
    BY <1>1
  <2>5. overtaken' \/ \A b \in DOMAIN used' : b \in zeroed'
    BY <2>3, <2>4
  <2> QED
    BY <2>1, <2>2, <2>5 DEF ClearedFits, Live
<1> QED
  BY <1>4, <1>5, <1>7, <1>8 DEF ViewInv

LEMMA BackKeeps ==
    ASSUME ViewInv, NEW left, Back(left), UNCHANGED <<offered, loading, reads>>,
           crumbs' \in Seq(Places), ~astray => crumbs' = SubSeq(crumbs, 1, left),
           Overtakes \/ (nav' = nav /\ nav = {})
    PROVE  ViewInv'
<1>0. ViewTypes /\ NavFits /\ KnownKeys /\ PathFits /\ ClearedFits
  BY DEF ViewInv
<1>1. \A j \in 1..Len(stack) : stack[j].key \in DOMAIN used
  BY <1>0, ViewParts DEF KnownKeys, StackKeys
<1>2. /\ stack' \in Seq(Level) /\ children' \in Places /\ key' \in Buffers /\ zeroed' \subseteq DOMAIN used'
      /\ Len(stack') = left - 1 /\ DOMAIN stack' = 1..left - 1
      /\ \A j \in 1..left - 1 : stack'[j] = stack[j]
  BY <1>0, <1>1, BackTypes DEF KnownKeys
<1>3. /\ nav' \subseteq Nav /\ (nav' # {} => nav # {})
      /\ \A n \in nav' : n.stale /\ \E m \in nav : n.from = m.from /\ n.key = m.key
      /\ \A n \in nav' : nav' = {n}
  BY <1>0, StaleNavs DEF ViewTypes, NavFits
<1>4. ViewTypes'
  BY <1>0, <1>2, <1>3 DEF ViewTypes, Back
<1>5. NavFits'
  BY <1>0, <1>2, <1>3 DEF NavFits
<1>6. KnownKeys'
  <2>1. key' \in DOMAIN used' /\ used' = used
    BY <1>1 DEF Back
  <2>2. \A j \in 1..left - 1 : j \in 1..Len(stack)
    BY <1>0, ViewParts DEF Back
  <2> QED
    BY <1>0, <1>1, <1>2, <1>3, <2>1, <2>2 DEF KnownKeys, StackKeys
<1>7. PathFits' /\ ClearedFits'
  <2>1. CASE ~astray
    BY <1>0, <1>2, <2>1, BackFits
  <2>2. CASE astray
    BY <1>0, <2>2 DEF PathFits, ClearedFits, Back
  <2> QED
    BY <2>1, <2>2
<1> QED
  BY <1>4, <1>5, <1>6, <1>7 DEF ViewInv

LEMMA UpKeeps == ASSUME ViewInv, Up PROVE ViewInv'
<1>0. ViewTypes /\ NavFits /\ KnownKeys /\ PathFits /\ ClearedFits
  BY DEF ViewInv
<1>1. CASE stack = <<>>
  BY <1>1, RootKeeps DEF Up
<1>2. CASE stack # <<>>
  <2> DEFINE left == Len(stack)
  <2>1. /\ zeroed' = zeroed \cup ({key} \ {NoKey})
        /\ stack' = SubSeq(stack, 1, left - 1)
        /\ children' = stack[left].children /\ key' = stack[left].key
        /\ crumbs' = SubSeq(crumbs, 1, Len(crumbs) - 1)
        /\ UNCHANGED <<view, offered, loading, nav, reads, used, astray, overtaken>>
        /\ view = "folder" /\ ~loading
    BY <1>2 DEF Up, FolderShown, Front, Last
  <2>2. left \in Nat \ {0}
    BY <1>0, <1>2, EmptySeq DEF ViewTypes
  <2>3. Discarded(left) = {}
    <3>1. left + 1..Len(stack) = {}
      BY <2>2
    <3> QED
      BY <3>1 DEF Discarded
  <2>4. Back(left)
    BY <2>1, <2>2, <2>3 DEF Back
  <2>5. nav = {}
    BY <1>0, <2>1 DEF NavFits
  <2>6. crumbs' \in Seq(Places)
    <3>1. Len(crumbs) \in Nat /\ \A i \in 1..Len(crumbs) - 1 : i \in 1..Len(crumbs)
      BY <1>0, ViewParts
    <3>2. \A i \in 1..Len(crumbs) - 1 : crumbs[i] \in Places
      BY <1>0, <3>1, ViewParts
    <3>3. 1 \in Int /\ Len(crumbs) - 1 \in Int
      BY <3>1
    <3> QED
      BY <2>1, <3>2, <3>3, SubSeqProperties
  <2>7. ~astray => crumbs' = SubSeq(crumbs, 1, left)
    <3>1. ~astray => Len(crumbs) - 1 = left
      BY <1>0, <2>1, <2>2 DEF PathFits
    <3> QED
      BY <2>1, <3>1
  <2> QED
    BY <2>1, <2>4, <2>5, <2>6, <2>7, BackKeeps
<1> QED
  BY <1>1, <1>2

LEMMA CrumbKeeps == ASSUME ViewInv, NEW i \in 1..Len(crumbs), Crumb(i) PROVE ViewInv'
<1>0. ViewTypes /\ NavFits /\ KnownKeys /\ PathFits /\ ClearedFits
  BY DEF ViewInv
<1> DEFINE left == Kept(PopsNeeded(i) - 1)
<1>1. /\ view = "folder" /\ i < Len(crumbs)
      /\ zeroed' = zeroed \cup ({key} \ {NoKey}) \cup Discarded(left)
      /\ IF left = 0 THEN stack' = <<>> /\ UNCHANGED <<children, key, crumbs>>
         ELSE /\ stack' = SubSeq(stack, 1, left - 1)
              /\ children' = stack[left].children /\ key' = stack[left].key
              /\ crumbs' = SubSeq(crumbs, 1, i)
      /\ Overtakes /\ UNCHANGED <<view, offered, loading, reads, used, astray, overtaken>>
  BY DEF Crumb
<1>2. Len(crumbs) \in Nat /\ Len(stack) \in Nat /\ left \in 0..Len(stack)
  <2>1. Len(crumbs) \in Nat /\ Len(stack) \in Nat
    BY <1>0, ViewParts
  <2>2. PopsNeeded(i) - 1 \in Nat
    BY <1>1, <2>1 DEF PopsNeeded
  <2> QED
    BY <2>1, <2>2 DEF Kept
<1>3. ~astray => left = i
  <2>1. ~astray => Len(crumbs) = Len(stack) + 1
    BY <1>0, <1>1 DEF PathFits
  <2>2. ~astray => PopsNeeded(i) - 1 = Len(stack) - i /\ Len(stack) - i <= Len(stack)
    BY <1>2, <2>1 DEF PopsNeeded
  <2>3. ~astray => Kept(PopsNeeded(i) - 1) = Len(stack) - (Len(stack) - i)
    BY <1>2, <2>2 DEF Kept
  <2> QED
    BY <1>2, <2>3
<1> HIDE DEF left
<1>4. CASE left # 0
  <2>1. Back(left)
    BY <1>1, <1>2, <1>4 DEF Back
  <2>2. crumbs' = SubSeq(crumbs, 1, i) /\ i \in 0..Len(crumbs)
    BY <1>1, <1>2, <1>4
  <2>3. crumbs' \in Seq(Places)
    BY <1>0, <2>2, PrefixParts DEF ViewTypes
  <2> QED
    BY <1>1, <1>3, <2>1, <2>2, <2>3, BackKeeps
<1>5. CASE left = 0
  <2>1. astray
    BY <1>2, <1>3, <1>5
  <2>2. /\ nav' \subseteq Nav /\ (nav' # {} => nav # {})
        /\ \A n \in nav' : n.stale /\ \E m \in nav : n.from = m.from /\ n.key = m.key
        /\ \A n \in nav' : nav' = {n}
    BY <1>0, <1>1, StaleNavs DEF ViewTypes, NavFits
  <2>3. <<>> \in Seq(Level) /\ stack' = <<>> /\ DOMAIN stack' = {} /\ UNCHANGED <<children, key, crumbs>>
    BY <1>1, <1>5, EmptySeq
  <2>4. Discarded(left) \subseteq DOMAIN used
    <3>1. Discarded(left) \subseteq StackKeys
      BY <1>0, <1>2, ViewParts DEF Discarded, StackKeys
    <3> QED
      BY <1>0, <3>1 DEF KnownKeys
  <2>5. ViewTypes'
    BY <1>0, <1>1, <2>2, <2>3, <2>4 DEF ViewTypes, KnownKeys
  <2>6. NavFits' /\ KnownKeys'
    BY <1>0, <1>1, <2>2, <2>3 DEF NavFits, KnownKeys, StackKeys
  <2>7. PathFits' /\ ClearedFits'
    BY <1>0, <1>1, <2>1 DEF PathFits, ClearedFits
  <2> QED
    BY <2>5, <2>6, <2>7 DEF ViewInv
<1> QED
  BY <1>4, <1>5

LEMMA ViewStep == ViewInv /\ [ViewNext]_viewVars => ViewInv'
<1> SUFFICES ASSUME ViewInv, [ViewNext]_viewVars PROVE ViewInv'
  OBVIOUS
<1>0. ViewTypes /\ NavFits /\ KnownKeys /\ PathFits /\ ClearedFits
  BY DEF ViewInv
<1>1. ASSUME NEW s \in Shares, OpenShare(s) PROVE ViewInv'
  BY <1>1, SharesAndFolders, NavStarts DEF OpenShare, ListShown
<1>2. ASSUME NEW p \in Subfolders, OpenSub(p) PROVE ViewInv'
  BY <1>2, SharesAndFolders, NavStarts DEF OpenSub, FolderShown
<1>3. ASSUME \/ UNCHANGED viewVars \/ LoadShares \/ FileShareEnds \/ NavFails \/ Read \/ ReadEnds
             \/ \E s \in Shares : HideShare(s)
      PROVE  ViewInv'
  <2>1. /\ UNCHANGED <<view, trail, used, zeroed, astray, overtaken>>
        /\ nav' = {} \/ UNCHANGED <<nav, loading>>
    <3>1. nav = {} => nav' = {} \/ ~LoadShares
      BY DEF LoadShares
    <3> QED
      BY <1>3 DEF viewVars, trail, LoadShares, FileShareEnds, NavFails, Read, ReadEnds, HideShare
  <2>2. loading' \in BOOLEAN /\ offered' \subseteq Shares /\ reads' \subseteq Buffers
    <3>1. key # NoKey => key \in Buffers
      BY <1>0 DEF ViewTypes
    <3> QED
      BY <1>0, <1>3, <3>1 DEF viewVars, ViewTypes, LoadShares, FileShareEnds, NavFails, Read, ReadEnds, HideShare
  <2>3. ViewTypes'
    BY <1>0, <2>1, <2>2 DEF ViewTypes, trail
  <2>4. NavFits' /\ KnownKeys'
    BY <1>0, <2>1 DEF NavFits, KnownKeys, StackKeys, trail
  <2>5. PathFits' /\ ClearedFits'
    BY <1>0, <2>1, StayFits
  <2> QED
    BY <2>3, <2>4, <2>5 DEF ViewInv
<1> QED
  BY <1>1, <1>2, <1>3, ShareArrivedKeeps, SubArrivedKeeps, RootKeeps, UpKeeps, LeaveKeeps, CrumbKeeps DEF ViewNext

LEMMA ViewInvariant == ViewSpec => []ViewInv
BY ViewStartHolds, ViewStep, PTL DEF ViewSpec

(* The page's state has its types; in particular nothing is zeroed that was *)
(* never decrypted, and one navigation at most is on its way.               *)
THEOREM ViewTypeCorrect == ViewSpec => []ViewTypeOK
<1>1. ViewInv => ViewTypeOK
  <2> SUFFICES ASSUME ViewInv PROVE Cardinality(nav) <= 1
    BY DEF ViewInv, ViewTypes, ViewTypeOK
  <2>1. CASE nav = {}
    <3>1. Cardinality({}) = 0
      BY FS_EmptySet
    <3> QED
      BY <2>1, <3>1
  <2>2. CASE nav # {}
    <3>1. PICK n : nav = {n}
      BY <2>2 DEF ViewInv, NavFits
    <3>2. Cardinality({n}) = 1
      BY FS_Singleton
    <3> QED
      BY <3>1, <3>2
  <2> QED
    BY <2>1, <2>2
<1> QED
  BY <1>1, ViewInvariant, PTL

(* Whatever folders there are, however deep the user goes and by whichever  *)
(* of rows, [..] and breadcrumbs back: the trail, the folder shown, its key *)
(* and every level of the stack belong together, unless an answer was       *)
(* overtaken since the list.                                                *)
THEOREM TrailsMatch == ViewSpec => []PathMatches
<1>1. ViewInv => PathMatches
  BY DEF ViewInv, PathFits, PathMatches
<1> QED
  BY <1>1, ViewInvariant, PTL

(* And no decrypted key outlives the folder it opens.                       *)
THEOREM KeysAreCleared == ViewSpec => []KeysCleared
<1>1. ViewInv => KeysCleared
  BY DEF ViewInv, ClearedFits, KeysCleared
<1> QED
  BY <1>1, ViewInvariant, PTL
=============================================================================
