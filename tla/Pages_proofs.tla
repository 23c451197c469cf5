---------------------------- MODULE Pages_proofs ----------------------------
(***************************************************************************)
(* Proofs about the pages of the web client: the codes of an e-mail login, *)
(* the file browser and its dialogs, and the factors of the account's key. *)
(***************************************************************************)
EXTENDS FileBrowser, EmailCodes, Factors, FiniteSetTheorems, TLAPS

-----------------------------------------------------------------------------
(* The codes                                                               *)

Call == [at : {"idle"} \cup Sending \cup Verifying, form : Forms \cup {NoForm}, heard : BOOLEAN,
         given : Nat, hash : Nat, since : Nat]
FormState == [page : {"login", "link"}, step : {"email", "otp", "away"}, loading : BOOLEAN]

LEMMA CodesStart == CodesInit => CodesInv
<1> SUFFICES ASSUME CodesInit PROVE CodesInv
  OBVIOUS
<1>a. calls \in [Handlers -> Call]
  <2>1. Idle \in Call
    BY DEF Idle, Call
  <2> QED
    BY <2>1 DEF CodesInit
<1>b. form \in [Forms -> FormState]
  <2>1. {Fresh("login"), Fresh("link")} \subseteq FormState
    BY DEF Fresh, FormState
  <2> QED
    BY <2>1 DEF CodesInit
<1>1. CodesTypeOK
  <2>1. {tries, rate} \subseteq Counters
    BY DEF CodesInit, Counters, Absent
  <2>2. {code, made, over, guesses, sends, asked} \subseteq Nat
    BY DEF CodesInit
  <2>3. crossed \in BOOLEAN
    BY Zenon DEF CodesInit
  <2> QED
    BY <1>a, <1>b, <2>1, <2>2, <2>3 DEF CodesTypeOK, Call, FormState
<1>2. LiveFits /\ CountersExpire
  BY DEF CodesInit, LiveFits, CountersExpire, Absent, Idle
<1>3. \A stages : "idle" \notin stages => HandlersAt(stages) = {}
  BY DEF CodesInit, HandlersAt, Idle
<1>4. Counted = {} /\ Guessing = {} /\ Uncounted = {} /\ Admitted = {}
  BY <1>3 DEF Counted, Guessing, Uncounted, Admitted
<1>5. Cardinality({}) = 0 /\ Cardinality(Handlers) \in Nat
  BY CodesAssumption, FS_EmptySet, FS_CardinalityType
<1>6. ~Under({"resetTries"}) /\ ~Under({"clearTries"}) /\ ~Under(Sending)
  BY DEF CodesInit, Under, Idle, Sending
<1>7. TriesFit /\ SendsFit
  BY <1>4, <1>5, <1>6, CodesAssumption DEF CodesInit, TriesFit, SendsFit, Absent
<1> QED
  BY <1>1, <1>2, <1>7 DEF CodesInv

(* What an answer does to the types *)
LEMMA AnswersTyped ==
  ASSUME CodesTypeOK, NEW h \in Handlers, NEW shown,
         calls[h].form \in Forms => shown \in FormState, Answers(h, shown)
  PROVE  calls' \in [Handlers -> Call] /\ form' \in [Forms -> FormState]
<1>1. calls \in [Handlers -> Call] /\ form \in [Forms -> FormState]
  BY DEF CodesTypeOK, Call, FormState
<1>2. Idle \in Call
  BY DEF Idle, Call
<1>3. calls' \in [Handlers -> Call]
  BY <1>1, <1>2 DEF Answers
<1>4. form' \in [Forms -> FormState]
  <2>1. CASE calls[h].heard /\ calls[h].form \in Forms
    BY <1>1, <2>1 DEF Answers
  <2>2. CASE calls[h].heard /\ calls[h].form \notin Forms
    BY <1>1, <2>2 DEF Answers
  <2>3. CASE ~calls[h].heard
    BY <1>1, <2>3 DEF Answers
  <2> QED
    BY <2>1, <2>2, <2>3
<1> QED
  BY <1>3, <1>4

LEMMA RefusesTyped ==
  ASSUME CodesTypeOK, NEW h \in Handlers, Refuses(h)
  PROVE  calls' \in [Handlers -> Call] /\ form' \in [Forms -> FormState]
<1>1. ASSUME NEW f \in Forms PROVE WithError(f) \in FormState
  BY <1>1 DEF CodesTypeOK, WithError, Fresh, FormState
<1> QED
  BY <1>1, AnswersTyped DEF Refuses

LEMMA GoesTyped ==
  ASSUME CodesTypeOK, NEW h \in Handlers, NEW at \in Sending \cup Verifying, Goes(h, at)
  PROVE  calls' \in [Handlers -> Call]
BY DEF CodesTypeOK, Goes, Call

LEMMA CountersTyped ==
  ASSUME NEW c \in Counters
  PROVE  Absent \in Counters /\ Incr(c) \in Counters /\ SetExpiry(c) \in Counters
BY DEF Counters, Absent, Incr, SetExpiry

LEMMA ServedTypes ==
  ASSUME CodesTypeOK, NEW h \in Handlers, Served(h)
  PROVE  CodesTypeOK'
<1> USE DEF CodesTypeOK, redisVars, historyVars
<1>0. /\ calls \in [Handlers -> Call] /\ form \in [Forms -> FormState]
      /\ {tries, rate} \subseteq Counters
  BY DEF Call, FormState
<1>t. ASSUME calls' \in [Handlers -> Call], form' \in [Forms -> FormState],
             tries' \in Counters, rate' \in Counters,
             {code', made', over', guesses', sends', asked'} \subseteq Nat, crossed' \in BOOLEAN
      PROVE  CodesTypeOK'
  BY <1>t DEF Call, FormState
<1>s. \A at \in {"store", "mail", "resetTries", "countSend", "limitRate", "dropCode", "read",
                 "countTry", "limitTries", "compare", "spend", "clearTries", "accepted"} :
         at \in Sending \cup Verifying
  BY DEF Sending, Verifying
<1>1. CASE CheckRate(h)
  <2>1. CASE Refuses(h)
    BY <1>0, <1>t, <1>1, <2>1, RefusesTyped DEF CheckRate
  <2>2. CASE Goes(h, "store") /\ UNCHANGED form
    BY <1>0, <1>s, <1>t, <1>1, <2>2, GoesTyped DEF CheckRate
  <2> QED
    BY <1>1, <2>1, <2>2 DEF CheckRate
<1>2. CASE StoreCode(h)
  <2>1. calls' \in [Handlers -> Call]
    <3>0. calls[h] \in Call /\ made + 1 \in Nat /\ "resetTries" \in Sending
      BY <1>0 DEF Sending
    <3>1. [calls[h] EXCEPT !.at = "resetTries", !.hash = made + 1] \in Call
      BY <3>0 DEF Call
    <3> QED
      BY <1>2, <1>0, <3>1 DEF StoreCode
  <2>2. tries' \in Counters
    BY <1>2 DEF StoreCode, Counters
  <2> QED
    BY <1>0, <1>t, <1>2, <2>1, <2>2 DEF StoreCode
<1>3. CASE ResetTries(h)
  BY <1>0, <1>s, <1>t, <1>3, GoesTyped, CountersTyped DEF ResetTries
<1>4. CASE CountSend(h)
  <2>1. calls' \in [Handlers -> Call]
    BY <1>s, <1>4, GoesTyped DEF CountSend
  <2> QED
    BY <1>0, <1>t, <1>4, <2>1, CountersTyped DEF CountSend
<1>5. CASE LimitRate(h)
  BY <1>0, <1>s, <1>t, <1>5, GoesTyped, CountersTyped DEF LimitRate
<1>6. CASE Mail(h)
  <2>1. calls[h].form \in Forms => AtCode(calls[h].form) \in FormState
    <3>1. \A f \in Forms : form[f] \in FormState
      BY <1>0
    <3>2. \A f \in Forms : AtCode(f) \in FormState
      BY <3>1 DEF AtCode, FormState
    <3> QED
      BY <3>2
  <2> QED
    BY <1>0, <1>t, <1>6, <2>1, AnswersTyped DEF Mail
<1>7. CASE CheckTries(h)
  <2>1. calls' \in [Handlers -> Call]
    BY <1>s, <1>7, GoesTyped DEF CheckTries
  <2> QED
    BY <1>0, <1>t, <1>7, <2>1 DEF CheckTries
<1>8. CASE DropCode(h)
  BY <1>0, <1>t, <1>8, RefusesTyped DEF DropCode
<1>9. CASE ReadCode(h)
  <2>1. CASE Refuses(h)
    BY <1>0, <1>t, <1>9, <2>1, RefusesTyped DEF ReadCode
  <2>2. CASE /\ calls' = [calls EXCEPT ![h] = [@ EXCEPT !.at = "countTry", !.hash = code]]
             /\ UNCHANGED form
    <3>0. [calls[h] EXCEPT !.at = "countTry", !.hash = code] \in Call
      BY <1>0, <1>s DEF Call
    <3>1. calls' \in [Handlers -> Call]
      BY <1>0, <2>2, <3>0
    <3> QED
      BY <1>0, <1>t, <1>9, <2>2, <3>1 DEF ReadCode
  <2> QED
    BY <1>9, <2>1, <2>2 DEF ReadCode
<1>10. CASE CountTry(h)
  <2>1. calls' \in [Handlers -> Call]
    BY <1>s, <1>10, GoesTyped DEF CountTry
  <2> QED
    BY <1>0, <1>t, <1>10, <2>1, CountersTyped DEF CountTry
<1>11. CASE LimitTries(h)
  BY <1>0, <1>s, <1>t, <1>11, GoesTyped, CountersTyped DEF LimitTries
<1>12. CASE Compare(h)
  <2>0. guesses' \in Nat
    BY <1>12 DEF Compare
  <2>1. CASE Refuses(h)
    BY <1>0, <1>t, <1>12, <2>0, <2>1, RefusesTyped DEF Compare
  <2>2. CASE Goes(h, "spend") /\ UNCHANGED form
    BY <1>0, <1>s, <1>t, <1>12, <2>0, <2>2, GoesTyped DEF Compare
  <2> QED
    BY <1>12, <2>1, <2>2 DEF Compare
<1>13. CASE SpendCode(h)
  BY <1>0, <1>s, <1>t, <1>13, GoesTyped DEF SpendCode
<1>14. CASE ClearTries(h)
  BY <1>0, <1>s, <1>t, <1>14, GoesTyped, CountersTyped DEF ClearTries
<1>15. CASE Accepted(h)
  <2>1. CASE Refuses(h)
    BY <1>0, <1>t, <1>15, <2>1, RefusesTyped DEF Accepted
  <2>2. CASE /\ calls' = [calls EXCEPT ![h] = Idle]
             /\ form' = [f \in Forms |-> IF calls[h].form = f THEN Fresh(form[f].page) ELSE form[f]]
    <3>1. Idle \in Call /\ \A f \in Forms : Fresh(form[f].page) \in FormState
      BY <1>0 DEF Idle, Call, Fresh, FormState
    <3> QED
      BY <1>0, <1>t, <1>15, <2>2, <3>1 DEF Accepted
  <2> QED
    BY <1>15, <2>1, <2>2 DEF Accepted
<1> QED
  BY <1>1, <1>2, <1>3, <1>4, <1>5, <1>6, <1>7, <1>8, <1>9, <1>10, <1>11, <1>12, <1>13, <1>14,
     <1>15 DEF Served

LEMMA CodesTypes == CodesTypeOK /\ [CodesNext]_codesVars => CodesTypeOK'
<1> SUFFICES ASSUME CodesTypeOK, [CodesNext]_codesVars PROVE CodesTypeOK'
  OBVIOUS
<1> USE DEF CodesTypeOK, redisVars, historyVars
<1>0. /\ calls \in [Handlers -> Call] /\ form \in [Forms -> FormState]
      /\ {tries, rate} \subseteq Counters
  BY DEF Call, FormState
<1>t. ASSUME calls' \in [Handlers -> Call], form' \in [Forms -> FormState],
             tries' \in Counters, rate' \in Counters,
             {code', made', over', guesses', sends', asked'} \subseteq Nat, crossed' \in BOOLEAN
      PROVE  CodesTypeOK'
  BY <1>t DEF Call, FormState
<1>1. ASSUME NEW h \in Handlers, Served(h) PROVE CodesTypeOK'
  BY <1>1, ServedTypes
<1>2. ASSUME NEW h \in Handlers, BreaksOff(h) PROVE CodesTypeOK'
  BY <1>0, <1>t, <1>2, RefusesTyped DEF BreaksOff
<1>3. ASSUME NEW h \in Handlers, AnswerLost(h) PROVE CodesTypeOK'
  <2>1. calls' \in [Handlers -> Call]
    <3>1. [calls[h] EXCEPT !.heard = FALSE, !.form = NoForm] \in Call
      BY <1>0 DEF Call
    <3> QED
      BY <1>0, <1>3, <3>1 DEF AnswerLost
  <2>2. \A f \in Forms : WithError(f) \in FormState
    BY <1>0 DEF WithError, Fresh, FormState
  <2>3. form' \in [Forms -> FormState]
    <3>1. CASE calls[h].form \in Forms
      BY <1>0, <1>3, <2>2, <3>1 DEF AnswerLost
    <3>2. CASE calls[h].form \notin Forms
      BY <1>0, <1>3, <3>2 DEF AnswerLost
    <3> QED
      BY <3>1, <3>2
  <2> QED
    BY <1>0, <1>t, <1>3, <2>1, <2>3 DEF AnswerLost
<1>4. CASE CodeExpires \/ TriesExpire \/ RateExpires
  <2>1. Absent \in Counters
    BY DEF Absent, Counters
  <2>2. CASE CodeExpires
    BY <1>0, <1>t, <2>2 DEF CodeExpires
  <2>3. CASE TriesExpire
    BY <1>0, <1>t, <2>1, <2>3 DEF TriesExpire
  <2>4. CASE RateExpires
    BY <1>0, <1>t, <2>1, <2>4 DEF RateExpires
  <2> QED
    BY <1>4, <2>2, <2>3, <2>4
<1>5. ASSUME NEW f \in Forms, NEW at \in {"checkRate", "checkTries"}, NEW given \in Nat,
             Calls(f, at, given), form' \in [Forms -> FormState]
      PROVE  CodesTypeOK'
  <2>1. PICK h \in Handlers :
           calls' = [calls EXCEPT ![h] = [Idle EXCEPT !.at = at, !.form = f, !.heard = TRUE,
                                                      !.given = given, !.since = over]]
    BY <1>5 DEF Calls
  <2>2. calls' \in [Handlers -> Call]
    BY <1>0, <2>1 DEF Idle, Call, Sending, Verifying
  <2>3. asked' \in Nat /\ crossed' \in BOOLEAN
    BY <1>5 DEF Calls
  <2> QED
    BY <1>0, <1>5, <1>t, <2>2, <2>3 DEF Calls
<1>6. ASSUME NEW f \in Forms, SendOtp(f) \/ Resend(f) PROVE CodesTypeOK'
  <2>1. form' \in [Forms -> FormState]
    BY <1>0, <1>6 DEF SendOtp, Resend, FormState
  <2> QED
    BY <1>5, <1>6, <2>1 DEF SendOtp, Resend
<1>7. ASSUME NEW f \in Forms, VerifyOtp(f) PROVE CodesTypeOK'
  <2>1. form' \in [Forms -> FormState]
    BY <1>0, <1>7 DEF VerifyOtp, FormState, Away, Fresh
  <2>2. 0..made \subseteq Nat
    OBVIOUS
  <2> QED
    BY <1>5, <1>7, <2>1, <2>2 DEF VerifyOtp
<1>8. ASSUME NEW f \in Forms, BackToEmail(f) PROVE CodesTypeOK'
  <2>1. form' \in [Forms -> FormState]
    BY <1>0, <1>8 DEF BackToEmail, FormState
  <2> QED
    BY <1>0, <1>t, <1>8, <2>1 DEF BackToEmail
<1>9. ASSUME NEW f \in Forms, CancelLinking(f) \/ Reload(f) PROVE CodesTypeOK'
  <2>0. ASSUME NEW c \in Call
        PROVE  /\ [c EXCEPT !.heard = FALSE] \in Call
               /\ [c EXCEPT !.heard = FALSE, !.form = NoForm] \in Call
    BY DEF Call
  <2>1. form' \in [Forms -> FormState]
    <3>1. form[f] \in FormState
      BY <1>0
    <3>2. Fresh("link") \in FormState /\ Fresh(form[f].page) \in FormState
      BY <3>1 DEF FormState, Fresh
    <3> QED
      BY <1>0, <1>9, <3>2 DEF CancelLinking, Reload
  <2>2. calls' \in [Handlers -> Call]
    <3>1. CASE CancelLinking(f)
      BY <1>0, <2>0, <3>1 DEF CancelLinking
    <3>2. CASE Reload(f)
      BY <1>0, <2>0, <3>2 DEF Reload
    <3> QED
      BY <1>9, <3>1, <3>2
  <2> QED
    BY <1>0, <1>t, <1>9, <2>1, <2>2 DEF CancelLinking, Reload
<1>10. CASE UNCHANGED codesVars
  BY <1>0, <1>t, <1>10 DEF codesVars
<1> QED
  BY <1>1, <1>2, <1>3, <1>4, <1>6, <1>7, <1>8, <1>9, <1>10 DEF CodesNext

(* The handler of one call goes on with what it has, or is free again *)
Same(g) == calls'[g].since = calls[g].since /\ calls'[g].hash = calls[g].hash
           /\ calls'[g].given = calls[g].given
Moves(h, at) == \A g \in Handlers : calls'[g].at = IF g = h THEN at ELSE calls[g].at

LEMMA GoesMoves ==
  ASSUME CodesTypeOK, NEW h \in Handlers, NEW at, Goes(h, at)
  PROVE  Moves(h, at) /\ \A g \in Handlers : Same(g)
BY DEF CodesTypeOK, Goes, Moves, Same

LEMMA AnswersMoves ==
  ASSUME CodesTypeOK, NEW h \in Handlers, NEW shown, Answers(h, shown) \/ Refuses(h)
  PROVE  Moves(h, "idle") /\ \A g \in Handlers \ {h} : Same(g)
<1>1. calls' = [calls EXCEPT ![h] = Idle]
  BY DEF Answers, Refuses
<1> QED
  BY <1>1 DEF CodesTypeOK, Moves, Same, Idle

LEMMA AnswersSince ==
  ASSUME CodesTypeOK, NEW h \in Handlers, NEW shown, Answers(h, shown) \/ Refuses(h)
  PROVE  calls'[h].since = 0
<1>1. calls' = [calls EXCEPT ![h] = Idle]
  BY DEF Answers, Refuses
<1> QED
  BY <1>1 DEF CodesTypeOK, Idle

(* LiveFits is kept when over rises to made at most and calls go where     *)
(* what they have entitles them to                                         *)
LEMMA LiveFitsIf ==
  ASSUME CodesTypeOK, LiveFits, NEW h \in Handlers, NEW at, Moves(h, at), CodesTypeOK',
         over' <= made', over <= over', code' # 0 => code' = made' /\ over' < made',
         \A g \in Handlers \ {h} : Same(g),
         calls'[h].since <= over',
         at \in {"countTry", "limitTries", "compare"} => calls'[h].since < calls'[h].hash,
         at \in {"spend", "clearTries", "accepted"} => calls'[h].since < calls'[h].given
  PROVE  LiveFits'
<1>1. over \in Nat /\ over' \in Nat
  BY DEF CodesTypeOK
<1>2. ASSUME NEW g \in Handlers \ {h}
      PROVE  /\ calls'[g].since <= over'
             /\ calls'[g].at \in {"countTry", "limitTries", "compare"}
                  => calls'[g].since < calls'[g].hash
             /\ calls'[g].at \in {"spend", "clearTries", "accepted"}
                  => calls'[g].since < calls'[g].given
  <2>1. calls[g].since \in Nat
    BY DEF CodesTypeOK
  <2> QED
    BY <1>1, <2>1 DEF LiveFits, Moves, Same
<1>3. calls'[h].at = at
  BY DEF Moves
<1> QED
  BY <1>2, <1>3 DEF LiveFits

LEMMA ServedLive ==
  ASSUME CodesTypeOK, LiveFits, NEW h \in Handlers, Served(h)
  PROVE  LiveFits'
<1>0. CodesTypeOK'
  BY ServedTypes
<1>n. /\ {code, made, over} \subseteq Nat /\ calls[h].since \in Nat
      /\ over <= made /\ (code # 0 => code = made /\ over < made) /\ calls[h].since <= over
  BY DEF CodesTypeOK, LiveFits
<1> USE DEF redisVars, historyVars
<1>1. ASSUME Refuses(h) \/ (\E shown : Answers(h, shown)), over' <= made', over <= over',
             code' # 0 => code' = made' /\ over' < made'
      PROVE  LiveFits'
  <2>1. Moves(h, "idle") /\ (\A g \in Handlers \ {h} : Same(g)) /\ calls'[h].since = 0
    BY <1>1, AnswersMoves, AnswersSince
  <2>2. 0 <= over'
    BY <1>0 DEF CodesTypeOK
  <2> QED
    BY <1>0, <1>1, <2>1, <2>2, LiveFitsIf
<1>2. ASSUME NEW at, Goes(h, at), over' <= made', over <= over',
             code' # 0 => code' = made' /\ over' < made',
             at \in {"countTry", "limitTries", "compare"} => calls[h].since < calls[h].hash,
             at \in {"spend", "clearTries", "accepted"} => calls[h].since < calls[h].given
      PROVE  LiveFits'
  <2>1. Moves(h, at) /\ \A g \in Handlers : Same(g)
    BY <1>2, GoesMoves
  <2>2. over' \in Nat
    BY <1>0 DEF CodesTypeOK
  <2>3. calls'[h].since <= over'
    BY <1>n, <1>2, <2>1, <2>2 DEF Same
  <2>4. /\ at \in {"countTry", "limitTries", "compare"} => calls'[h].since < calls'[h].hash
        /\ at \in {"spend", "clearTries", "accepted"} => calls'[h].since < calls'[h].given
    BY <1>2, <2>1 DEF Same
  <2> QED
    BY <1>0, <1>2, <2>1, <2>3, <2>4, LiveFitsIf
<1>3. CASE CheckRate(h)
  BY <1>n, <1>1, <1>2, <1>3 DEF CheckRate
<1>4. CASE StoreCode(h)
  <2>1. Moves(h, "resetTries") /\ (\A g \in Handlers : g # h => Same(g))
        /\ calls'[h].since = calls[h].since
    BY <1>4 DEF StoreCode, Moves, Same, CodesTypeOK
  <2>2. /\ over' <= made' /\ over <= over' /\ (code' # 0 => code' = made' /\ over' < made')
        /\ calls'[h].since <= over'
    BY <1>n, <1>4, <2>1 DEF StoreCode
  <2> QED
    BY <1>0, <2>1, <2>2, LiveFitsIf
<1>5. CASE ResetTries(h) \/ CountSend(h) \/ LimitRate(h) \/ CheckTries(h)
  BY <1>n, <1>2, <1>5 DEF ResetTries, CountSend, LimitRate, CheckTries
<1>6. CASE Mail(h)
  BY <1>n, <1>1, <1>6 DEF Mail
<1>7. CASE DropCode(h)
  BY <1>n, <1>1, <1>7 DEF DropCode
<1>8. CASE ReadCode(h)
  <2>1. CASE Refuses(h)
    BY <1>n, <1>1, <1>8, <2>1 DEF ReadCode
  <2>2. CASE code # 0 /\ calls' = [calls EXCEPT ![h] = [@ EXCEPT !.at = "countTry", !.hash = code]]
    <3>1. Moves(h, "countTry") /\ (\A g \in Handlers : g # h => Same(g))
          /\ calls'[h].since = calls[h].since /\ calls'[h].hash = code
      BY <2>2 DEF Moves, Same, CodesTypeOK
    <3>2. /\ over' <= made' /\ over <= over' /\ (code' # 0 => code' = made' /\ over' < made')
          /\ calls'[h].since <= over' /\ calls'[h].since < calls'[h].hash
      BY <1>n, <1>8, <2>2, <3>1 DEF ReadCode
    <3> QED
      BY <1>0, <3>1, <3>2, LiveFitsIf
  <2> QED
    BY <1>8, <2>1, <2>2 DEF ReadCode
<1>9. CASE CountTry(h) \/ LimitTries(h)
  <2>1. calls[h].since < calls[h].hash
    BY <1>9 DEF CountTry, LimitTries, LiveFits
  <2> QED
    BY <1>n, <1>2, <1>9, <2>1 DEF CountTry, LimitTries
<1>10. CASE Compare(h)
  <2>1. calls[h].since < calls[h].hash
    BY <1>10 DEF Compare, LiveFits
  <2>2. over' = over /\ made' = made /\ code' = code
    BY <1>10 DEF Compare
  <2>3. CASE Refuses(h)
    BY <1>n, <1>1, <2>2, <2>3
  <2>4. CASE calls[h].given = calls[h].hash /\ Goes(h, "spend")
    BY <1>n, <1>2, <2>1, <2>2, <2>4
  <2> QED
    BY <1>10, <2>3, <2>4 DEF Compare
<1>11. CASE SpendCode(h) \/ ClearTries(h)
  <2>1. calls[h].since < calls[h].given
    BY <1>11 DEF SpendCode, ClearTries, LiveFits
  <2> QED
    BY <1>n, <1>2, <1>11, <2>1 DEF SpendCode, ClearTries
<1>12. CASE Accepted(h)
  <2>1. Moves(h, "idle") /\ (\A g \in Handlers : g # h => Same(g)) /\ calls'[h].since = 0
    <3>1. calls' = [calls EXCEPT ![h] = Idle]
      BY <1>12 DEF Accepted, Refuses, Answers
    <3> QED
      BY <3>1 DEF CodesTypeOK, Moves, Same, Idle
  <2>2. /\ over' <= made' /\ over <= over' /\ (code' # 0 => code' = made' /\ over' < made')
        /\ 0 <= over'
    BY <1>n, <1>12 DEF Accepted
  <2> QED
    BY <1>0, <2>1, <2>2, LiveFitsIf
<1> QED
  BY <1>3, <1>4, <1>5, <1>6, <1>7, <1>8, <1>9, <1>10, <1>11, <1>12 DEF Served

LEMMA LiveKept == CodesTypeOK /\ LiveFits /\ [CodesNext]_codesVars => LiveFits'
<1> SUFFICES ASSUME CodesTypeOK, LiveFits, [CodesNext]_codesVars PROVE LiveFits'
  OBVIOUS
<1>0. CodesTypeOK'
  BY CodesTypes
<1>n. /\ {code, made, over} \subseteq Nat
      /\ over <= made /\ (code # 0 => code = made /\ over < made)
  BY DEF CodesTypeOK, LiveFits
<1> USE DEF redisVars, historyVars
<1>1. ASSUME NEW h \in Handlers, Served(h) PROVE LiveFits'
  BY <1>1, ServedLive
<1>2. ASSUME NEW h \in Handlers, BreaksOff(h) PROVE LiveFits'
  <2>1. Moves(h, "idle") /\ (\A g \in Handlers : g # h => Same(g)) /\ calls'[h].since = 0
    <3>1. calls' = [calls EXCEPT ![h] = Idle]
      BY <1>2 DEF BreaksOff, Refuses, Answers
    <3> QED
      BY <3>1 DEF CodesTypeOK, Moves, Same, Idle
  <2>2. /\ over' <= made' /\ over <= over' /\ (code' # 0 => code' = made' /\ over' < made')
        /\ 0 <= over'
    BY <1>n, <1>2 DEF BreaksOff
  <2> QED
    BY <1>0, <2>1, <2>2, LiveFitsIf
<1>3. ASSUME \A g \in Handlers : Same(g) /\ calls'[g].at = calls[g].at,
             over' <= made', over <= over', code' # 0 => code' = made' /\ over' < made'
      PROVE  LiveFits'
  <2>1. \A g \in Handlers : calls[g].since \in Nat
    BY DEF CodesTypeOK
  <2>2. over' \in Nat
    BY <1>0 DEF CodesTypeOK
  <2>3. ASSUME NEW g \in Handlers
        PROVE  /\ calls'[g].since <= over'
               /\ calls'[g].at \in {"countTry", "limitTries", "compare"}
                  => calls'[g].since < calls'[g].hash
               /\ calls'[g].at \in {"spend", "clearTries", "accepted"}
                  => calls'[g].since < calls'[g].given
    BY <1>n, <1>3, <2>1, <2>2 DEF LiveFits, Same
  <2> QED
    BY <1>3, <2>3 DEF LiveFits
<1>4. ASSUME NEW h \in Handlers, AnswerLost(h) PROVE LiveFits'
  <2>1. \A g \in Handlers : Same(g) /\ calls'[g].at = calls[g].at
    BY <1>4 DEF AnswerLost, Same, CodesTypeOK
  <2> QED
    BY <1>n, <1>3, <1>4, <2>1 DEF AnswerLost
<1>5. CASE CodeExpires \/ TriesExpire \/ RateExpires \/ UNCHANGED codesVars
                       \/ \E f \in Forms : BackToEmail(f)
  <2>1. calls' = calls /\ made' = made
        /\ ((code' = code /\ over' = over) \/ (code' = 0 /\ over' = made))
    BY <1>5 DEF CodeExpires, TriesExpire, RateExpires, BackToEmail, codesVars
  <2> QED
    BY <1>n, <1>3, <2>1 DEF Same
<1>6. ASSUME NEW f \in Forms, NEW at \in {"checkRate", "checkTries"}, NEW given \in Nat,
             Calls(f, at, given)
      PROVE  LiveFits'
  <2>1. PICK h \in Handlers :
           calls' = [calls EXCEPT ![h] = [Idle EXCEPT !.at = at, !.form = f, !.heard = TRUE,
                                                      !.given = given, !.since = over]]
    BY <1>6 DEF Calls
  <2>2. Moves(h, at) /\ (\A g \in Handlers : g # h => Same(g)) /\ calls'[h].since = over
    BY <2>1 DEF CodesTypeOK, Moves, Same, Idle
  <2>3. /\ over' <= made' /\ over <= over' /\ (code' # 0 => code' = made' /\ over' < made')
        /\ over <= over'
    BY <1>n, <1>6 DEF Calls
  <2> QED
    BY <1>0, <2>2, <2>3, LiveFitsIf
<1>7. ASSUME NEW f \in Forms, SendOtp(f) \/ Resend(f) \/ VerifyOtp(f) PROVE LiveFits'
  <2>1. 0..made \subseteq Nat
    BY <1>n
  <2> QED
    BY <1>6, <1>7, <2>1 DEF SendOtp, Resend, VerifyOtp
<1>8. ASSUME NEW f \in Forms, CancelLinking(f) \/ Reload(f) PROVE LiveFits'
  <2>1. \A g \in Handlers : Same(g) /\ calls'[g].at = calls[g].at
    <3>1. \A g \in Handlers : \/ calls'[g] = calls[g]
                             \/ calls'[g] = [calls[g] EXCEPT !.heard = FALSE]
                             \/ calls'[g] = [calls[g] EXCEPT !.heard = FALSE, !.form = NoForm]
      BY <1>8 DEF CancelLinking, Reload
    <3>2. calls \in [Handlers -> Call]
      BY DEF CodesTypeOK, Call
    <3>3. ASSUME NEW c \in Call, NEW d,
                 \/ d = c \/ d = [c EXCEPT !.heard = FALSE]
                 \/ d = [c EXCEPT !.heard = FALSE, !.form = NoForm]
          PROVE  d.since = c.since /\ d.hash = c.hash /\ d.given = c.given /\ d.at = c.at
      BY <3>3 DEF Call
    <3>4. ASSUME NEW g \in Handlers PROVE Same(g) /\ calls'[g].at = calls[g].at
      <4>1. calls[g] \in Call
        BY <3>2
      <4> QED
        BY <3>1, <3>3, <4>1 DEF Same
    <3> QED
      BY <3>4
  <2>2. over' = over /\ made' = made /\ code' = code
    BY <1>8 DEF CancelLinking, Reload
  <2> QED
    BY <1>n, <1>3, <2>1, <2>2
<1> QED
  BY <1>1, <1>2, <1>4, <1>5, <1>7, <1>8 DEF CodesNext

(* A stored code is newer than every code that is over, so the call that   *)
(* read it began before it was over.                                       *)
THEOREM AcceptedCodesLive == CodesSpec => []AcceptedIsLive
<1>1. CodesInit => CodesTypeOK /\ LiveFits
  BY CodesStart DEF CodesInv
<1>2. CodesTypeOK /\ LiveFits => AcceptedIsLive
  BY DEF CodesTypeOK, LiveFits, AcceptedIsLive
<1> QED
  BY <1>1, <1>2, CodesTypes, LiveKept, PTL DEF CodesSpec
(* How many calls are at some stages, when one goes to another stage *)
Count(stages) == Cardinality(HandlersAt(stages))
In(at, stages) == IF at \in stages THEN 1 ELSE 0

LEMMA CountMoves ==
  ASSUME CodesTypeOK, NEW h \in Handlers, NEW at, NEW stages, Moves(h, at)
  PROVE  /\ Count(stages) \in Nat /\ Count(stages)' \in Nat
         /\ Count(stages)' <= Cardinality(Handlers)
         /\ Count(stages)' = Count(stages) + In(at, stages) - In(calls[h].at, stages)
<1> DEFINE S == HandlersAt(stages)
           T == {g \in Handlers : calls'[g].at \in stages}
<1>1. IsFiniteSet(S) /\ IsFiniteSet(T)
  BY CodesAssumption, FS_Subset DEF HandlersAt
<1>2. Count(stages) = Cardinality(S) /\ Count(stages)' = Cardinality(T)
  BY DEF Count, HandlersAt
<1>3. Cardinality(S) \in Nat /\ Cardinality(T) \in Nat /\ Cardinality(T) <= Cardinality(Handlers)
  <2>1. S \subseteq Handlers /\ T \subseteq Handlers
    BY DEF HandlersAt
  <2> QED
    BY <1>1, <2>1, CodesAssumption, FS_CardinalityType, FS_Subset
<1>4. CASE at \in stages /\ calls[h].at \notin stages
  <2>1. T = S \cup {h} /\ h \notin S
    BY <1>4 DEF HandlersAt, Moves
  <2>2. Cardinality(T) = Cardinality(S) + 1
    BY <1>1, <2>1, FS_AddElement
  <2> QED
    BY <1>2, <1>3, <1>4, <2>2 DEF In
<1>5. CASE at \notin stages /\ calls[h].at \in stages
  <2>1. S = T \cup {h} /\ h \notin T
    BY <1>5 DEF HandlersAt, Moves
  <2>2. Cardinality(S) = Cardinality(T) + 1
    BY <1>1, <2>1, FS_AddElement
  <2> QED
    BY <1>2, <1>3, <1>5, <2>2 DEF In
<1>6. CASE at \in stages <=> calls[h].at \in stages
  <2>1. S = T
    BY <1>6 DEF HandlersAt, Moves
  <2> QED
    BY <1>2, <1>3, <1>6, <2>1 DEF In
<1> QED
  BY <1>4, <1>5, <1>6

LEMMA CountSome ==
  ASSUME NEW stages
  PROVE  /\ Count(stages) \in Nat /\ Cardinality(Handlers) \in Nat
         /\ Count(stages) <= Cardinality(Handlers)
         /\ ~Under(stages) => Count(stages) = 0
<1>1. HandlersAt(stages) \subseteq Handlers
  BY DEF HandlersAt
<1>2. /\ Count(stages) \in Nat /\ Cardinality(Handlers) \in Nat
      /\ Count(stages) <= Cardinality(Handlers)
  BY <1>1, CodesAssumption, FS_Subset, FS_CardinalityType DEF Count
<1>3. ASSUME ~Under(stages) PROVE Count(stages) = 0
  <2>1. HandlersAt(stages) = {}
    BY <1>3 DEF Under, HandlersAt
  <2> QED
    BY <2>1, FS_EmptySet DEF Count
<1> QED
  BY <1>2, <1>3

LEMMA UnderMoves ==
  ASSUME NEW h \in Handlers, NEW at, NEW stages, Moves(h, at)
  PROVE  /\ at \in stages => Under(stages)'
         /\ Under(stages)' => Under(stages) \/ at \in stages
         /\ Under(stages) => Under(stages)' \/ calls[h].at \in stages
         /\ calls[h].at \in stages => Under(stages)
BY DEF Under, Moves

CountedAt == {"limitTries", "compare"}
ComparingAt == {"countTry", "limitTries", "compare"}
ReadingAt == {"read", "countTry", "limitTries", "compare"}
UncountedAt == {"resetTries", "countSend"}
AdmittedAt == {"store", "resetTries", "countSend"}

(* TriesFit and SendsFit in numbers *)
Numbers ==
  /\ ~(Under(Sending) /\ Under(Verifying))
  /\ Under({"resetTries"}) => guesses = 0
  /\ tries.expires = "sooner" => Under({"resetTries"})
  /\ Under({"clearTries"}) => code = 0
  /\ code # 0 => /\ guesses + Count(CountedAt) <= tries.n
                 /\ guesses + Count(ReadingAt) <= MaxTries + Cardinality(Handlers) - 1
  /\ code = 0 => guesses + Count(ComparingAt) <= MaxTries + Cardinality(Handlers) - 1
  /\ sends <= rate.n + Count(UncountedAt)
  /\ rate.n + Count(AdmittedAt) <= MaxSends + Cardinality(Handlers) - 1

LEMMA FitsInNumbers == TriesFit /\ SendsFit <=> Numbers
<1>1. /\ code # 0 => Guessing = HandlersAt(ReadingAt)
      /\ code = 0 => Guessing = HandlersAt(ComparingAt)
  BY DEF Guessing, HandlersAt, ReadingAt, ComparingAt
<1>2. /\ code # 0 => Cardinality(Guessing) = Count(ReadingAt)
      /\ code = 0 => Cardinality(Guessing) = Count(ComparingAt)
  BY <1>1 DEF Count
<1>3. /\ Cardinality(Counted) = Count(CountedAt) /\ Cardinality(Uncounted) = Count(UncountedAt)
      /\ Cardinality(Admitted) = Count(AdmittedAt)
  BY DEF Count, Counted, Uncounted, Admitted, CountedAt, UncountedAt, AdmittedAt
<1>4. CASE code # 0
  BY <1>2, <1>3, <1>4 DEF TriesFit, SendsFit, Numbers
<1>5. CASE code = 0
  BY <1>2, <1>3, <1>5 DEF TriesFit, SendsFit, Numbers
<1> QED
  BY <1>4, <1>5

(* The calls that verify, when none does; and the counts of one group in   *)
(* those of a larger                                                       *)
LEMMA NoneVerifies ==
  ~Under(Verifying) => Count(CountedAt) = 0 /\ Count(ComparingAt) = 0 /\ Count(ReadingAt) = 0
<1> SUFFICES ASSUME ~Under(Verifying)
             PROVE  Count(CountedAt) = 0 /\ Count(ComparingAt) = 0 /\ Count(ReadingAt) = 0
  OBVIOUS
<1>1. ~Under(CountedAt) /\ ~Under(ComparingAt) /\ ~Under(ReadingAt)
  BY DEF Under, Verifying, CountedAt, ComparingAt, ReadingAt
<1> QED
  BY <1>1, CountSome

LEMMA CountsNest ==
  Count(ComparingAt) <= Count(ReadingAt)
<1>1. HandlersAt(ComparingAt) \subseteq HandlersAt(ReadingAt)
  BY DEF HandlersAt, ComparingAt, ReadingAt
<1>2. IsFiniteSet(HandlersAt(ReadingAt))
  <2>1. HandlersAt(ReadingAt) \subseteq Handlers
    BY DEF HandlersAt
  <2> QED
    BY <2>1, CodesAssumption, FS_Subset
<1> QED
  BY <1>1, <1>2, FS_Subset DEF Count

(* What a call's going to a stage does to the counts *)
Turns(stages, from, at) ==
    /\ Count(stages) \in Nat /\ Count(stages)' \in Nat /\ Count(stages)' <= Cardinality(Handlers)
    /\ Count(stages)' = Count(stages) + In(at, stages) - In(from, stages)
Effects(h, at) ==
    /\ Cardinality(Handlers) \in Nat
    /\ Turns(CountedAt, calls[h].at, at) /\ Turns(ComparingAt, calls[h].at, at)
    /\ Turns(ReadingAt, calls[h].at, at) /\ Turns(UncountedAt, calls[h].at, at)
    /\ Turns(AdmittedAt, calls[h].at, at)
Passes(stages, from, at) ==
    /\ at \in stages => Under(stages)'
    /\ Under(stages)' => Under(stages) \/ at \in stages
    /\ Under(stages) => Under(stages)' \/ from \in stages
    /\ from \in stages => Under(stages)
Unders(h, at) ==
    /\ Passes(Sending, calls[h].at, at) /\ Passes(Verifying, calls[h].at, at)
    /\ Passes({"resetTries"}, calls[h].at, at) /\ Passes({"clearTries"}, calls[h].at, at)

LEMMA MovesCount ==
  ASSUME CodesTypeOK, NEW h \in Handlers, NEW at, Moves(h, at)
  PROVE  Effects(h, at) /\ Unders(h, at)
<1>1. Cardinality(Handlers) \in Nat
  BY CodesAssumption, FS_CardinalityType
<1>2. \A stages : Turns(stages, calls[h].at, at)
  BY CountMoves DEF Turns
<1>3. \A stages : Passes(stages, calls[h].at, at)
  BY UnderMoves DEF Passes
<1> QED
  BY <1>1, <1>2, <1>3 DEF Effects, Unders

LEMMA FitsInNumbersNext == (TriesFit /\ SendsFit <=> Numbers)'
BY FitsInNumbers, PTL

(* The counts of the calls counted, comparing, reading, not counted and    *)
(* admitted change by so much                                              *)
Shift(counted, comparing, reading, uncounted, admitted) ==
    /\ Count(CountedAt)' = Count(CountedAt) + counted
    /\ Count(ComparingAt)' = Count(ComparingAt) + comparing
    /\ Count(ReadingAt)' = Count(ReadingAt) + reading
    /\ Count(UncountedAt)' = Count(UncountedAt) + uncounted
    /\ Count(AdmittedAt)' = Count(AdmittedAt) + admitted

(* One goes on with a call of its kind *)
CallGoesOn(from, at) ==
    \/ from \in Sending /\ at \in Sending \cup {"idle"}
    \/ from \in Verifying /\ at \in Verifying \cup {"idle"}

LEMMA ServedCounts ==
  ASSUME CodesInv, NEW h \in Handlers, Served(h), ~crossed
  PROVE  (TriesFit /\ SendsFit)'
<1>0. CodesTypeOK' /\ CodesTypeOK /\ TriesFit /\ SendsFit
  BY ServedTypes DEF CodesInv
<1>n. /\ code \in Nat /\ made \in Nat /\ guesses \in Nat /\ sends \in Nat
      /\ tries.n \in Nat /\ rate.n \in Nat
      /\ code' \in Nat /\ guesses' \in Nat /\ sends' \in Nat /\ tries'.n \in Nat /\ rate'.n \in Nat
      /\ MaxTries \in Nat \ {0} /\ MaxSends \in Nat \ {0} /\ Cardinality(Handlers) \in Nat
  BY <1>0, CodesAssumption, FS_CardinalityType DEF CodesTypeOK, Counters
<1>c. /\ Count(CountedAt) \in Nat /\ Count(ComparingAt) \in Nat /\ Count(ReadingAt) \in Nat
      /\ Count(UncountedAt) \in Nat /\ Count(AdmittedAt) \in Nat
      /\ Count(ComparingAt) <= Count(ReadingAt)
  BY CountSome, CountsNest
<1>f. Numbers /\ (Numbers' => TriesFit' /\ SendsFit')
  BY <1>0, FitsInNumbers, FitsInNumbersNext
<1> SUFFICES Numbers'
  BY <1>f
<1> USE DEF redisVars, historyVars
<1>m. ASSUME NEW at, Moves(h, at) PROVE Effects(h, at) /\ Unders(h, at)
  BY <1>0, <1>m, MovesCount
<1>i. Refuses(h) => Moves(h, "idle")
  BY <1>0, AnswersMoves
<1>g. \A at : Goes(h, at) => Moves(h, at)
  BY <1>0, GoesMoves
<1>v. ~Under(Verifying) => Count(CountedAt) = 0 /\ Count(ComparingAt) = 0 /\ Count(ReadingAt) = 0
  BY NoneVerifies
<1>k. ASSUME NEW at, Moves(h, at), CallGoesOn(calls[h].at, at)
      PROVE  /\ ~(Under(Sending) /\ Under(Verifying))'
             /\ calls[h].at \in Sending => ~Under(Verifying)
             /\ calls[h].at \in Verifying => ~Under(Sending)
  <2>1. "idle" \notin Sending \cup Verifying /\ \A x : ~(x \in Sending /\ x \in Verifying)
    BY DEF Sending, Verifying
  <2> QED
    BY <1>f, <1>m, <1>k, <2>1 DEF Unders, Passes, CallGoesOn, Numbers
<1>u. /\ calls[h].at = "resetTries" => Under({"resetTries"})
      /\ calls[h].at = "clearTries" => Under({"clearTries"})
      /\ ~Under(Sending) => ~Under({"resetTries"})
      /\ ~Under(Verifying) => ~Under({"clearTries"})
  BY DEF Under, Sending, Verifying
<1>1. CASE CheckRate(h)
  <2>0. calls[h].at = "checkRate" /\ UNCHANGED <<code, tries, rate, guesses, sends>>
    BY <1>0, <1>n, <1>1 DEF CheckRate, CodesTypeOK, Counters, Incr, SetExpiry
  <2>1. CASE Refuses(h)
    <3>a. Moves(h, "idle")
      BY <2>1, <1>i
    <3>1. /\ Shift(0, 0, 0, 0, 0) /\ CallGoesOn(calls[h].at, "idle")
          /\ Count(AdmittedAt)' <= Cardinality(Handlers) /\ Count(ReadingAt)' <= Cardinality(Handlers)
      BY <1>m, <3>a, <1>c, <2>0, <2>1 DEF Effects, Turns, Shift, In, CallGoesOn, Sending,
         Verifying, CountedAt, ComparingAt, ReadingAt,
         UncountedAt, AdmittedAt
    <3>2. (Under({"resetTries"})' <=> Under({"resetTries"}))
          /\ (Under({"clearTries"})' <=> Under({"clearTries"}))
      BY <1>m, <3>a, <2>0, <2>1 DEF Unders, Passes
    <3>3. /\ ~(Under(Sending) /\ Under(Verifying))'
          /\ ~Under(Verifying)
      BY <1>k, <3>a, <2>0, <2>1, <3>1 DEF Sending
    <3> QED
      BY <1>c, <1>f, <1>n, <1>u, <1>v, <2>0, <2>1, <3>1, <3>2, <3>3 DEF Numbers, Shift
  <2>2. CASE rate.n < MaxSends /\ Goes(h, "store")
    <3>a. Moves(h, "store")
      BY <2>2, <1>g
    <3>1. /\ Shift(0, 0, 0, 0, 1) /\ CallGoesOn(calls[h].at, "store")
          /\ Count(AdmittedAt)' <= Cardinality(Handlers) /\ Count(ReadingAt)' <= Cardinality(Handlers)
      BY <1>m, <3>a, <1>c, <2>0, <2>2 DEF Effects, Turns, Shift, In, CallGoesOn, Sending,
         Verifying, CountedAt, ComparingAt, ReadingAt,
         UncountedAt, AdmittedAt
    <3>2. (Under({"resetTries"})' <=> Under({"resetTries"}))
          /\ (Under({"clearTries"})' <=> Under({"clearTries"}))
      BY <1>m, <3>a, <2>0, <2>2 DEF Unders, Passes
    <3>3. /\ ~(Under(Sending) /\ Under(Verifying))'
          /\ ~Under(Verifying)
      BY <1>k, <3>a, <2>0, <2>2, <3>1 DEF Sending
    <3> QED
      BY <1>c, <1>f, <1>n, <1>u, <1>v, <2>0, <2>2, <3>1, <3>2, <3>3 DEF Numbers, Shift
  <2> QED
    BY <1>n, <1>1, <2>1, <2>2 DEF CheckRate
<1>2. CASE StoreCode(h)
  <2>0. calls[h].at = "store" /\ code' # 0 /\ guesses' = 0 /\ sends' = sends + 1 /\ rate' = rate
        /\ tries'.n = tries.n
    BY <1>0, <1>n, <1>2 DEF StoreCode, CodesTypeOK, Counters, Incr, SetExpiry
  <2>a. Moves(h, "resetTries")
    BY <1>2, <1>0 DEF StoreCode, Moves, CodesTypeOK
  <2>1. /\ Shift(0, 0, 0, 1, 0) /\ CallGoesOn(calls[h].at, "resetTries")
        /\ Count(AdmittedAt)' <= Cardinality(Handlers) /\ Count(ReadingAt)' <= Cardinality(Handlers)
    BY <1>m, <2>a, <1>c, <2>0, <2>a DEF Effects, Turns, Shift, In, CallGoesOn, Sending, Verifying,
       CountedAt, ComparingAt, ReadingAt,
       UncountedAt, AdmittedAt
  <2>2. Under({"resetTries"})' /\ (Under({"clearTries"})' <=> Under({"clearTries"}))
    BY <1>m, <2>a, <2>0, <2>a DEF Unders, Passes
  <2>3. /\ ~(Under(Sending) /\ Under(Verifying))'
        /\ ~Under(Verifying)
    BY <1>k, <2>a, <2>0, <2>a, <2>1 DEF Sending
  <2> QED
    BY <1>c, <1>f, <1>n, <1>u, <1>v, <2>0, <2>a, <2>1, <2>2, <2>3 DEF Numbers, Shift
<1>3. CASE ResetTries(h)
  <2>0. calls[h].at = "resetTries" /\ tries' = Absent /\ UNCHANGED <<code, rate, guesses, sends>>
    BY <1>0, <1>n, <1>3 DEF ResetTries, CodesTypeOK, Counters, Incr, SetExpiry
  <2>a. Moves(h, "countSend")
    BY <1>3, <1>g DEF ResetTries
  <2>1. /\ Shift(0, 0, 0, 0, 0) /\ CallGoesOn(calls[h].at, "countSend")
        /\ Count(AdmittedAt)' <= Cardinality(Handlers) /\ Count(ReadingAt)' <= Cardinality(Handlers)
    BY <1>m, <2>a, <1>c, <2>0, <2>a DEF Effects, Turns, Shift, In, CallGoesOn, Sending, Verifying,
       CountedAt, ComparingAt, ReadingAt,
       UncountedAt, AdmittedAt
  <2>2. (Under({"resetTries"})' => Under({"resetTries"}))
        /\ (Under({"clearTries"})' <=> Under({"clearTries"}))
    BY <1>m, <2>a, <2>0, <2>a DEF Unders, Passes
  <2>3. /\ ~(Under(Sending) /\ Under(Verifying))'
        /\ ~Under(Verifying)
    BY <1>k, <2>a, <2>0, <2>a, <2>1 DEF Sending
  <2> QED
    BY <1>c, <1>f, <1>n, <1>u, <1>v, <2>0, <2>a, <2>1, <2>2, <2>3 DEF Numbers, Shift, Absent
<1>4. CASE CountSend(h)
  <2>0. calls[h].at = "countSend" /\ rate'.n = rate.n + 1
        /\ UNCHANGED <<code, tries, guesses, sends>>
    BY <1>0, <1>n, <1>4 DEF CountSend, CodesTypeOK, Counters, Incr, SetExpiry
  <2>1. CASE Goes(h, "limitRate")
    <3>a. Moves(h, "limitRate")
      BY <2>1, <1>g
    <3>1. /\ Shift(0, 0, 0, -1, -1) /\ CallGoesOn(calls[h].at, "limitRate")
          /\ Count(AdmittedAt)' <= Cardinality(Handlers) /\ Count(ReadingAt)' <= Cardinality(Handlers)
      BY <1>m, <3>a, <1>c, <2>0, <2>1 DEF Effects, Turns, Shift, In, CallGoesOn, Sending,
         Verifying, CountedAt, ComparingAt, ReadingAt,
         UncountedAt, AdmittedAt
    <3>2. (Under({"resetTries"})' <=> Under({"resetTries"}))
          /\ (Under({"clearTries"})' <=> Under({"clearTries"}))
      BY <1>m, <3>a, <2>0, <2>1 DEF Unders, Passes
    <3>3. /\ ~(Under(Sending) /\ Under(Verifying))'
          /\ ~Under(Verifying)
      BY <1>k, <3>a, <2>0, <2>1, <3>1 DEF Sending
    <3> QED
      BY <1>c, <1>f, <1>n, <1>u, <1>v, <2>0, <2>1, <3>1, <3>2, <3>3 DEF Numbers, Shift
  <2>2. CASE Goes(h, "mail")
    <3>a. Moves(h, "mail")
      BY <2>2, <1>g
    <3>1. /\ Shift(0, 0, 0, -1, -1) /\ CallGoesOn(calls[h].at, "mail")
          /\ Count(AdmittedAt)' <= Cardinality(Handlers) /\ Count(ReadingAt)' <= Cardinality(Handlers)
      BY <1>m, <3>a, <1>c, <2>0, <2>2 DEF Effects, Turns, Shift, In, CallGoesOn, Sending,
         Verifying, CountedAt, ComparingAt, ReadingAt,
         UncountedAt, AdmittedAt
    <3>2. (Under({"resetTries"})' <=> Under({"resetTries"}))
          /\ (Under({"clearTries"})' <=> Under({"clearTries"}))
      BY <1>m, <3>a, <2>0, <2>2 DEF Unders, Passes
    <3>3. /\ ~(Under(Sending) /\ Under(Verifying))'
          /\ ~Under(Verifying)
      BY <1>k, <3>a, <2>0, <2>2, <3>1 DEF Sending
    <3> QED
      BY <1>c, <1>f, <1>n, <1>u, <1>v, <2>0, <2>2, <3>1, <3>2, <3>3 DEF Numbers, Shift
  <2> QED
    BY <1>n, <1>4, <2>1, <2>2 DEF CountSend
<1>5. CASE LimitRate(h)
  <2>0. calls[h].at = "limitRate" /\ rate'.n = rate.n /\ UNCHANGED <<code, tries, guesses, sends>>
    BY <1>0, <1>n, <1>5 DEF LimitRate, CodesTypeOK, Counters, Incr, SetExpiry
  <2>a. Moves(h, "mail")
    BY <1>5, <1>g DEF LimitRate
  <2>1. /\ Shift(0, 0, 0, 0, 0) /\ CallGoesOn(calls[h].at, "mail")
        /\ Count(AdmittedAt)' <= Cardinality(Handlers) /\ Count(ReadingAt)' <= Cardinality(Handlers)
    BY <1>m, <2>a, <1>c, <2>0, <2>a DEF Effects, Turns, Shift, In, CallGoesOn, Sending, Verifying,
       CountedAt, ComparingAt, ReadingAt,
       UncountedAt, AdmittedAt
  <2>2. (Under({"resetTries"})' <=> Under({"resetTries"}))
        /\ (Under({"clearTries"})' <=> Under({"clearTries"}))
    BY <1>m, <2>a, <2>0, <2>a DEF Unders, Passes
  <2>3. /\ ~(Under(Sending) /\ Under(Verifying))'
        /\ ~Under(Verifying)
    BY <1>k, <2>a, <2>0, <2>a, <2>1 DEF Sending
  <2> QED
    BY <1>c, <1>f, <1>n, <1>u, <1>v, <2>0, <2>a, <2>1, <2>2, <2>3 DEF Numbers, Shift
<1>6. CASE Mail(h)
  <2>0. calls[h].at = "mail" /\ UNCHANGED <<code, tries, rate, guesses, sends>>
    BY <1>0, <1>n, <1>6 DEF Mail, CodesTypeOK, Counters, Incr, SetExpiry
  <2>a. Moves(h, "idle")
    BY <1>6, <1>0, AnswersMoves DEF Mail
  <2>1. /\ Shift(0, 0, 0, 0, 0) /\ CallGoesOn(calls[h].at, "idle")
        /\ Count(AdmittedAt)' <= Cardinality(Handlers) /\ Count(ReadingAt)' <= Cardinality(Handlers)
    BY <1>m, <2>a, <1>c, <2>0, <2>a DEF Effects, Turns, Shift, In, CallGoesOn, Sending, Verifying,
       CountedAt, ComparingAt, ReadingAt,
       UncountedAt, AdmittedAt
  <2>2. (Under({"resetTries"})' <=> Under({"resetTries"}))
        /\ (Under({"clearTries"})' <=> Under({"clearTries"}))
    BY <1>m, <2>a, <2>0, <2>a DEF Unders, Passes
  <2>3. /\ ~(Under(Sending) /\ Under(Verifying))'
        /\ ~Under(Verifying)
    BY <1>k, <2>a, <2>0, <2>a, <2>1 DEF Sending
  <2> QED
    BY <1>c, <1>f, <1>n, <1>u, <1>v, <2>0, <2>a, <2>1, <2>2, <2>3 DEF Numbers, Shift
<1>7. CASE CheckTries(h)
  <2>0. calls[h].at = "checkTries" /\ UNCHANGED <<code, tries, rate, guesses, sends>>
    BY <1>0, <1>n, <1>7 DEF CheckTries, CodesTypeOK, Counters, Incr, SetExpiry
  <2>1. CASE Goes(h, "dropCode")
    <3>a. Moves(h, "dropCode")
      BY <2>1, <1>g
    <3>1. /\ Shift(0, 0, 0, 0, 0) /\ CallGoesOn(calls[h].at, "dropCode")
          /\ Count(AdmittedAt)' <= Cardinality(Handlers) /\ Count(ReadingAt)' <= Cardinality(Handlers)
      BY <1>m, <3>a, <1>c, <2>0, <2>1 DEF Effects, Turns, Shift, In, CallGoesOn, Sending,
         Verifying, CountedAt, ComparingAt, ReadingAt,
         UncountedAt, AdmittedAt
    <3>2. (Under({"resetTries"})' <=> Under({"resetTries"}))
          /\ (Under({"clearTries"})' <=> Under({"clearTries"}))
      BY <1>m, <3>a, <2>0, <2>1 DEF Unders, Passes
    <3>3. /\ ~(Under(Sending) /\ Under(Verifying))'
          /\ ~Under(Sending)
      BY <1>k, <3>a, <2>0, <2>1, <3>1 DEF Verifying
    <3> QED
      BY <1>c, <1>f, <1>n, <1>u, <1>v, <2>0, <2>1, <3>1, <3>2, <3>3 DEF Numbers, Shift
  <2>2. CASE tries.n < MaxTries /\ Goes(h, "read")
    <3>a. Moves(h, "read")
      BY <2>2, <1>g
    <3>1. /\ Shift(0, 0, 1, 0, 0) /\ CallGoesOn(calls[h].at, "read")
          /\ Count(AdmittedAt)' <= Cardinality(Handlers) /\ Count(ReadingAt)' <= Cardinality(Handlers)
      BY <1>m, <3>a, <1>c, <2>0, <2>2 DEF Effects, Turns, Shift, In, CallGoesOn, Sending,
         Verifying, CountedAt, ComparingAt, ReadingAt,
         UncountedAt, AdmittedAt
    <3>2. (Under({"resetTries"})' <=> Under({"resetTries"}))
          /\ (Under({"clearTries"})' <=> Under({"clearTries"}))
      BY <1>m, <3>a, <2>0, <2>2 DEF Unders, Passes
    <3>3. /\ ~(Under(Sending) /\ Under(Verifying))'
          /\ ~Under(Sending)
      BY <1>k, <3>a, <2>0, <2>2, <3>1 DEF Verifying
    <3> QED
      BY <1>c, <1>f, <1>n, <1>u, <1>v, <2>0, <2>2, <3>1, <3>2, <3>3 DEF Numbers, Shift
  <2> QED
    BY <1>n, <1>7, <2>1, <2>2 DEF CheckTries
<1>8. CASE DropCode(h)
  <2>0. calls[h].at = "dropCode" /\ code' = 0 /\ UNCHANGED <<tries, rate, guesses, sends>>
    BY <1>0, <1>n, <1>8 DEF DropCode, CodesTypeOK, Counters, Incr, SetExpiry
  <2>a. Moves(h, "idle")
    BY <1>8, <1>i DEF DropCode
  <2>1. /\ Shift(0, 0, 0, 0, 0) /\ CallGoesOn(calls[h].at, "idle")
        /\ Count(AdmittedAt)' <= Cardinality(Handlers) /\ Count(ReadingAt)' <= Cardinality(Handlers)
    BY <1>m, <2>a, <1>c, <2>0, <2>a DEF Effects, Turns, Shift, In, CallGoesOn, Sending, Verifying,
       CountedAt, ComparingAt, ReadingAt,
       UncountedAt, AdmittedAt
  <2>2. (Under({"resetTries"})' <=> Under({"resetTries"}))
        /\ (Under({"clearTries"})' <=> Under({"clearTries"}))
    BY <1>m, <2>a, <2>0, <2>a DEF Unders, Passes
  <2>3. /\ ~(Under(Sending) /\ Under(Verifying))'
        /\ ~Under(Sending)
    BY <1>k, <2>a, <2>0, <2>a, <2>1 DEF Verifying
  <2> QED
    BY <1>c, <1>f, <1>n, <1>u, <1>v, <2>0, <2>a, <2>1, <2>2, <2>3 DEF Numbers, Shift
<1>9. CASE ReadCode(h)
  <2>0. calls[h].at = "read" /\ UNCHANGED <<code, tries, rate, guesses, sends>>
    BY <1>0, <1>n, <1>9 DEF ReadCode, CodesTypeOK, Counters, Incr, SetExpiry
  <2>1. CASE code = 0 /\ Refuses(h)
    <3>a. Moves(h, "idle")
      BY <2>1, <1>i
    <3>1. /\ Shift(0, 0, -1, 0, 0) /\ CallGoesOn(calls[h].at, "idle")
          /\ Count(AdmittedAt)' <= Cardinality(Handlers) /\ Count(ReadingAt)' <= Cardinality(Handlers)
      BY <1>m, <3>a, <1>c, <2>0, <2>1 DEF Effects, Turns, Shift, In, CallGoesOn, Sending,
         Verifying, CountedAt, ComparingAt, ReadingAt,
         UncountedAt, AdmittedAt
    <3>2. (Under({"resetTries"})' <=> Under({"resetTries"}))
          /\ (Under({"clearTries"})' <=> Under({"clearTries"}))
      BY <1>m, <3>a, <2>0, <2>1 DEF Unders, Passes
    <3>3. /\ ~(Under(Sending) /\ Under(Verifying))'
          /\ ~Under(Sending)
      BY <1>k, <3>a, <2>0, <2>1, <3>1 DEF Verifying
    <3> QED
      BY <1>c, <1>f, <1>n, <1>u, <1>v, <2>0, <2>1, <3>1, <3>2, <3>3 DEF Numbers, Shift
  <2>2. CASE code # 0 /\ calls' = [calls EXCEPT ![h] = [@ EXCEPT !.at = "countTry", !.hash = code]]
    <3>a. Moves(h, "countTry")
      BY <2>2, <1>0 DEF Moves, CodesTypeOK
    <3>1. /\ Shift(0, 1, 0, 0, 0) /\ CallGoesOn(calls[h].at, "countTry")
          /\ Count(AdmittedAt)' <= Cardinality(Handlers) /\ Count(ReadingAt)' <= Cardinality(Handlers)
      BY <1>m, <3>a, <1>c, <2>0, <2>2 DEF Effects, Turns, Shift, In, CallGoesOn, Sending,
         Verifying, CountedAt, ComparingAt, ReadingAt,
         UncountedAt, AdmittedAt
    <3>2. (Under({"resetTries"})' <=> Under({"resetTries"}))
          /\ (Under({"clearTries"})' <=> Under({"clearTries"}))
      BY <1>m, <3>a, <2>0, <2>2 DEF Unders, Passes
    <3>3. /\ ~(Under(Sending) /\ Under(Verifying))'
          /\ ~Under(Sending)
      BY <1>k, <3>a, <2>0, <2>2, <3>1 DEF Verifying
    <3> QED
      BY <1>c, <1>f, <1>n, <1>u, <1>v, <2>0, <2>2, <3>1, <3>2, <3>3 DEF Numbers, Shift
  <2> QED
    BY <1>n, <1>9, <2>1, <2>2 DEF ReadCode
<1>10. CASE CountTry(h)
  <2>0. calls[h].at = "countTry" /\ tries'.n = tries.n + 1 /\ tries'.expires = tries.expires
        /\ UNCHANGED <<code, rate, guesses, sends>>
    BY <1>0, <1>n, <1>10 DEF CountTry, CodesTypeOK, Counters, Incr, SetExpiry
  <2>1. CASE Goes(h, "limitTries")
    <3>a. Moves(h, "limitTries")
      BY <2>1, <1>g
    <3>1. /\ Shift(1, 0, 0, 0, 0) /\ CallGoesOn(calls[h].at, "limitTries")
          /\ Count(AdmittedAt)' <= Cardinality(Handlers) /\ Count(ReadingAt)' <= Cardinality(Handlers)
      BY <1>m, <3>a, <1>c, <2>0, <2>1 DEF Effects, Turns, Shift, In, CallGoesOn, Sending,
         Verifying, CountedAt, ComparingAt, ReadingAt,
         UncountedAt, AdmittedAt
    <3>2. (Under({"resetTries"})' <=> Under({"resetTries"}))
          /\ (Under({"clearTries"})' <=> Under({"clearTries"}))
      BY <1>m, <3>a, <2>0, <2>1 DEF Unders, Passes
    <3>3. /\ ~(Under(Sending) /\ Under(Verifying))'
          /\ ~Under(Sending)
      BY <1>k, <3>a, <2>0, <2>1, <3>1 DEF Verifying
    <3> QED
      BY <1>c, <1>f, <1>n, <1>u, <1>v, <2>0, <2>1, <3>1, <3>2, <3>3 DEF Numbers, Shift
  <2>2. CASE Goes(h, "compare")
    <3>a. Moves(h, "compare")
      BY <2>2, <1>g
    <3>1. /\ Shift(1, 0, 0, 0, 0) /\ CallGoesOn(calls[h].at, "compare")
          /\ Count(AdmittedAt)' <= Cardinality(Handlers) /\ Count(ReadingAt)' <= Cardinality(Handlers)
      BY <1>m, <3>a, <1>c, <2>0, <2>2 DEF Effects, Turns, Shift, In, CallGoesOn, Sending,
         Verifying, CountedAt, ComparingAt, ReadingAt,
         UncountedAt, AdmittedAt
    <3>2. (Under({"resetTries"})' <=> Under({"resetTries"}))
          /\ (Under({"clearTries"})' <=> Under({"clearTries"}))
      BY <1>m, <3>a, <2>0, <2>2 DEF Unders, Passes
    <3>3. /\ ~(Under(Sending) /\ Under(Verifying))'
          /\ ~Under(Sending)
      BY <1>k, <3>a, <2>0, <2>2, <3>1 DEF Verifying
    <3> QED
      BY <1>c, <1>f, <1>n, <1>u, <1>v, <2>0, <2>2, <3>1, <3>2, <3>3 DEF Numbers, Shift
  <2> QED
    BY <1>n, <1>10, <2>1, <2>2 DEF CountTry
<1>11. CASE LimitTries(h)
  <2>0. calls[h].at = "limitTries" /\ tries'.n = tries.n /\ (tries'.expires = "later" \/ tries' = tries)
        /\ UNCHANGED <<code, rate, guesses, sends>>
    BY <1>0, <1>n, <1>11 DEF LimitTries, CodesTypeOK, Counters, Incr, SetExpiry
  <2>a. Moves(h, "compare")
    BY <1>11, <1>g DEF LimitTries
  <2>1. /\ Shift(0, 0, 0, 0, 0) /\ CallGoesOn(calls[h].at, "compare")
        /\ Count(AdmittedAt)' <= Cardinality(Handlers) /\ Count(ReadingAt)' <= Cardinality(Handlers)
    BY <1>m, <2>a, <1>c, <2>0, <2>a DEF Effects, Turns, Shift, In, CallGoesOn, Sending, Verifying,
       CountedAt, ComparingAt, ReadingAt,
       UncountedAt, AdmittedAt
  <2>2. (Under({"resetTries"})' <=> Under({"resetTries"}))
        /\ (Under({"clearTries"})' <=> Under({"clearTries"}))
    BY <1>m, <2>a, <2>0, <2>a DEF Unders, Passes
  <2>3. /\ ~(Under(Sending) /\ Under(Verifying))'
        /\ ~Under(Sending)
    BY <1>k, <2>a, <2>0, <2>a, <2>1 DEF Verifying
  <2> QED
    BY <1>c, <1>f, <1>n, <1>u, <1>v, <2>0, <2>a, <2>1, <2>2, <2>3 DEF Numbers, Shift
<1>12. CASE Compare(h)
  <2>0. calls[h].at = "compare" /\ guesses' \in {guesses, guesses + 1}
        /\ UNCHANGED <<code, tries, rate, sends>>
    BY <1>0, <1>n, <1>12 DEF Compare, CodesTypeOK, Counters, Incr, SetExpiry
  <2>1. CASE Refuses(h)
    <3>a. Moves(h, "idle")
      BY <2>1, <1>i
    <3>1. /\ Shift(-1, -1, -1, 0, 0) /\ CallGoesOn(calls[h].at, "idle")
          /\ Count(AdmittedAt)' <= Cardinality(Handlers) /\ Count(ReadingAt)' <= Cardinality(Handlers)
      BY <1>m, <3>a, <1>c, <2>0, <2>1 DEF Effects, Turns, Shift, In, CallGoesOn, Sending,
         Verifying, CountedAt, ComparingAt, ReadingAt,
         UncountedAt, AdmittedAt
    <3>2. (Under({"resetTries"})' <=> Under({"resetTries"}))
          /\ (Under({"clearTries"})' <=> Under({"clearTries"}))
      BY <1>m, <3>a, <2>0, <2>1 DEF Unders, Passes
    <3>3. /\ ~(Under(Sending) /\ Under(Verifying))'
          /\ ~Under(Sending)
      BY <1>k, <3>a, <2>0, <2>1, <3>1 DEF Verifying
    <3> QED
      BY <1>c, <1>f, <1>n, <1>u, <1>v, <2>0, <2>1, <3>1, <3>2, <3>3 DEF Numbers, Shift
  <2>2. CASE Goes(h, "spend")
    <3>a. Moves(h, "spend")
      BY <2>2, <1>g
    <3>1. /\ Shift(-1, -1, -1, 0, 0) /\ CallGoesOn(calls[h].at, "spend")
          /\ Count(AdmittedAt)' <= Cardinality(Handlers) /\ Count(ReadingAt)' <= Cardinality(Handlers)
      BY <1>m, <3>a, <1>c, <2>0, <2>2 DEF Effects, Turns, Shift, In, CallGoesOn, Sending,
         Verifying, CountedAt, ComparingAt, ReadingAt,
         UncountedAt, AdmittedAt
    <3>2. (Under({"resetTries"})' <=> Under({"resetTries"}))
          /\ (Under({"clearTries"})' <=> Under({"clearTries"}))
      BY <1>m, <3>a, <2>0, <2>2 DEF Unders, Passes
    <3>3. /\ ~(Under(Sending) /\ Under(Verifying))'
          /\ ~Under(Sending)
      BY <1>k, <3>a, <2>0, <2>2, <3>1 DEF Verifying
    <3> QED
      BY <1>c, <1>f, <1>n, <1>u, <1>v, <2>0, <2>2, <3>1, <3>2, <3>3 DEF Numbers, Shift
  <2> QED
    BY <1>n, <1>12, <2>1, <2>2 DEF Compare
<1>13. CASE SpendCode(h)
  <2>0. calls[h].at = "spend" /\ code' = 0 /\ UNCHANGED <<tries, rate, guesses, sends>>
    BY <1>0, <1>n, <1>13 DEF SpendCode, CodesTypeOK, Counters, Incr, SetExpiry
  <2>a. Moves(h, "clearTries")
    BY <1>13, <1>g DEF SpendCode
  <2>1. /\ Shift(0, 0, 0, 0, 0) /\ CallGoesOn(calls[h].at, "clearTries")
        /\ Count(AdmittedAt)' <= Cardinality(Handlers) /\ Count(ReadingAt)' <= Cardinality(Handlers)
    BY <1>m, <2>a, <1>c, <2>0, <2>a DEF Effects, Turns, Shift, In, CallGoesOn, Sending, Verifying,
       CountedAt, ComparingAt, ReadingAt,
       UncountedAt, AdmittedAt
  <2>2. (Under({"resetTries"})' <=> Under({"resetTries"}))
        /\ Under({"clearTries"})'
    BY <1>m, <2>a, <2>0, <2>a DEF Unders, Passes
  <2>3. /\ ~(Under(Sending) /\ Under(Verifying))'
        /\ ~Under(Sending)
    BY <1>k, <2>a, <2>0, <2>a, <2>1 DEF Verifying
  <2> QED
    BY <1>c, <1>f, <1>n, <1>u, <1>v, <2>0, <2>a, <2>1, <2>2, <2>3 DEF Numbers, Shift
<1>14. CASE ClearTries(h)
  <2>0. calls[h].at = "clearTries" /\ tries' = Absent /\ UNCHANGED <<code, rate, guesses, sends>>
    BY <1>0, <1>n, <1>14 DEF ClearTries, CodesTypeOK, Counters, Incr, SetExpiry
  <2>a. Moves(h, "accepted")
    BY <1>14, <1>g DEF ClearTries
  <2>1. /\ Shift(0, 0, 0, 0, 0) /\ CallGoesOn(calls[h].at, "accepted")
        /\ Count(AdmittedAt)' <= Cardinality(Handlers) /\ Count(ReadingAt)' <= Cardinality(Handlers)
    BY <1>m, <2>a, <1>c, <2>0, <2>a DEF Effects, Turns, Shift, In, CallGoesOn, Sending, Verifying,
       CountedAt, ComparingAt, ReadingAt,
       UncountedAt, AdmittedAt
  <2>2. (Under({"resetTries"})' <=> Under({"resetTries"}))
        /\ (Under({"clearTries"})' => Under({"clearTries"}))
    BY <1>m, <2>a, <2>0, <2>a DEF Unders, Passes
  <2>3. /\ ~(Under(Sending) /\ Under(Verifying))'
        /\ ~Under(Sending)
    BY <1>k, <2>a, <2>0, <2>a, <2>1 DEF Verifying
  <2> QED
    BY <1>c, <1>f, <1>n, <1>u, <1>v, <2>0, <2>a, <2>1, <2>2, <2>3 DEF Numbers, Shift, Absent
<1>15. CASE Accepted(h)
  <2>0. calls[h].at = "accepted" /\ UNCHANGED <<code, tries, rate, guesses, sends>>
    BY <1>0, <1>n, <1>15 DEF Accepted, CodesTypeOK, Counters, Incr, SetExpiry
  <2>a. Moves(h, "idle")
    BY <1>15, <1>0 DEF Accepted, Refuses, Answers, Moves, CodesTypeOK, Idle
  <2>1. /\ Shift(0, 0, 0, 0, 0) /\ CallGoesOn(calls[h].at, "idle")
        /\ Count(AdmittedAt)' <= Cardinality(Handlers) /\ Count(ReadingAt)' <= Cardinality(Handlers)
    BY <1>m, <2>a, <1>c, <2>0, <2>a DEF Effects, Turns, Shift, In, CallGoesOn, Sending, Verifying,
       CountedAt, ComparingAt, ReadingAt,
       UncountedAt, AdmittedAt
  <2>2. (Under({"resetTries"})' <=> Under({"resetTries"}))
        /\ (Under({"clearTries"})' <=> Under({"clearTries"}))
    BY <1>m, <2>a, <2>0, <2>a DEF Unders, Passes
  <2>3. /\ ~(Under(Sending) /\ Under(Verifying))'
        /\ ~Under(Sending)
    BY <1>k, <2>a, <2>0, <2>a, <2>1 DEF Verifying
  <2> QED
    BY <1>c, <1>f, <1>n, <1>u, <1>v, <2>0, <2>a, <2>1, <2>2, <2>3 DEF Numbers, Shift
<1> QED
  BY <1>1, <1>2, <1>3, <1>4, <1>5, <1>6, <1>7, <1>8, <1>9, <1>10, <1>11, <1>12, <1>13, <1>14,
     <1>15 DEF Served

(* The same when no call goes to another stage *)
Stays == \A g \in Handlers : calls'[g].at = calls[g].at
SameCounts(stages) ==
    /\ Count(stages)' = Count(stages)
    /\ Under(stages)' <=> Under(stages)

LEMMA StaysCount == ASSUME Stays, NEW stages PROVE SameCounts(stages)
<1>1. {g \in Handlers : calls'[g].at \in stages} = {g \in Handlers : calls[g].at \in stages}
  BY DEF Stays
<1> QED
  BY <1>1 DEF SameCounts, Count, HandlersAt, Under, Stays

LEMMA StaysFits ==
  ASSUME CodesInv, CodesTypeOK', ~crossed, Stays,
         \/ UNCHANGED <<code, tries, rate, guesses, sends>>
         \/ code' = 0 /\ UNCHANGED <<tries, rate, guesses, sends>>
         \/ TriesExpire \/ RateExpires
  PROVE  (TriesFit /\ SendsFit)'
<1>1. CodesTypeOK /\ Numbers /\ (Numbers' => TriesFit' /\ SendsFit')
  BY FitsInNumbers, FitsInNumbersNext DEF CodesInv
<1>2. /\ code \in Nat /\ guesses \in Nat /\ sends \in Nat /\ tries.n \in Nat /\ rate.n \in Nat
      /\ MaxTries \in Nat \ {0} /\ MaxSends \in Nat \ {0} /\ Cardinality(Handlers) \in Nat
  BY <1>1, CodesAssumption, FS_CardinalityType DEF CodesTypeOK, Counters
<1>3. /\ Count(CountedAt) \in Nat /\ Count(ComparingAt) \in Nat /\ Count(ReadingAt) \in Nat
      /\ Count(UncountedAt) \in Nat /\ Count(AdmittedAt) \in Nat
      /\ Count(ComparingAt) <= Count(ReadingAt) /\ Count(AdmittedAt) <= Cardinality(Handlers)
  BY CountSome, CountsNest
<1>4. \A stages : SameCounts(stages)
  BY StaysCount
<1>5. /\ Count(CountedAt)' = Count(CountedAt) /\ Count(ComparingAt)' = Count(ComparingAt)
      /\ Count(ReadingAt)' = Count(ReadingAt) /\ Count(UncountedAt)' = Count(UncountedAt)
      /\ Count(AdmittedAt)' = Count(AdmittedAt)
      /\ Under(Sending)' <=> Under(Sending)
      /\ Under(Verifying)' <=> Under(Verifying)
      /\ Under({"resetTries"})' <=> Under({"resetTries"})
      /\ Under({"clearTries"})' <=> Under({"clearTries"})
  BY <1>4 DEF SameCounts
<1>6. ~Under(Verifying) => Count(CountedAt) = 0
  BY NoneVerifies
<1>7. Under({"resetTries"}) => Under(Sending)
  BY DEF Under, Sending
<1>8. CASE UNCHANGED <<code, tries, rate, guesses, sends>>
  BY <1>1, <1>5, <1>8 DEF Numbers
<1>9. CASE code' = 0 /\ UNCHANGED <<tries, rate, guesses, sends>>
  BY <1>1, <1>2, <1>3, <1>5, <1>9 DEF Numbers
<1>10. CASE TriesExpire
  <2>1. tries'.n = 0 /\ tries'.expires = "never" /\ UNCHANGED <<code, rate, guesses, sends>>
        /\ (code = 0 \/ Under({"resetTries"}))
    BY <1>1, <1>10 DEF TriesExpire, Absent, historyVars, Numbers
  <2> QED
    BY <1>1, <1>2, <1>3, <1>5, <1>6, <1>7, <2>1 DEF Numbers
<1>11. CASE RateExpires
  <2>1. rate'.n = 0 /\ sends' = 0 /\ UNCHANGED <<code, tries, guesses>>
    BY <1>11 DEF RateExpires, Absent
  <2> QED
    BY <1>1, <1>2, <1>3, <1>5, <2>1 DEF Numbers
<1> QED
  BY <1>8, <1>9, <1>10, <1>11

LEMMA CallsFits ==
  ASSUME CodesInv, CodesTypeOK', NEW f, NEW at \in {"checkRate", "checkTries"}, NEW given,
         Calls(f, at, given), ~crossed'
  PROVE  (TriesFit /\ SendsFit)'
<1>0. CodesTypeOK /\ ~crossed /\ UNCHANGED <<code, tries, rate, guesses, sends>>
  BY DEF CodesInv, CodesTypeOK, Calls, redisVars
<1>1. Numbers /\ (Numbers' => TriesFit' /\ SendsFit')
  BY <1>0, FitsInNumbers, FitsInNumbersNext DEF CodesInv
<1>2. PICK h \in Handlers :
        /\ calls[h] = Idle
        /\ calls' = [calls EXCEPT ![h] = [Idle EXCEPT !.at = at, !.form = f, !.heard = TRUE,
                                                      !.given = given, !.since = over]]
  BY DEF Calls
<1>3. Moves(h, at) /\ calls[h].at = "idle"
  BY <1>0, <1>2 DEF Moves, Idle, CodesTypeOK
<1>4. Effects(h, at) /\ Unders(h, at)
  BY <1>0, <1>3, MovesCount
<1>5. Shift(0, 0, 0, 0, 0)
  <2>1. /\ Count(CountedAt) \in Nat /\ Count(ComparingAt) \in Nat /\ Count(ReadingAt) \in Nat
        /\ Count(UncountedAt) \in Nat /\ Count(AdmittedAt) \in Nat
    BY CountSome
  <2> QED
    BY <1>3, <1>4, <2>1 DEF Effects, Turns, Shift, In, CountedAt, ComparingAt, ReadingAt,
                            UncountedAt, AdmittedAt
<1>6. /\ Under({"resetTries"})' <=> Under({"resetTries"})
      /\ Under({"clearTries"})' <=> Under({"clearTries"})
  BY <1>3, <1>4 DEF Unders, Passes
<1>7. ~(Under(Sending) /\ Under(Verifying))'
  <2>1. CASE at = "checkRate"
    <3>1. ~Under(Verifying) /\ at \notin Verifying
      BY <1>0, <2>1 DEF Calls, Verifying
    <3> QED
      BY <1>4, <3>1 DEF Unders, Passes
  <2>2. CASE at = "checkTries"
    <3>1. ~Under(Sending) /\ at \notin Sending
      BY <1>0, <2>2 DEF Calls, Sending
    <3> QED
      BY <1>4, <3>1 DEF Unders, Passes
  <2> QED
    BY <2>1, <2>2
<1>8. /\ Count(CountedAt) \in Nat /\ Count(ComparingAt) \in Nat /\ Count(ReadingAt) \in Nat
      /\ Count(UncountedAt) \in Nat /\ Count(AdmittedAt) \in Nat
  BY CountSome
<1> QED
  BY <1>0, <1>1, <1>5, <1>6, <1>7, <1>8 DEF Numbers, Shift

LEMMA CountsKept ==
  CodesInv /\ [CodesNext]_codesVars => (crossed \/ (TriesFit /\ SendsFit))'
<1> SUFFICES ASSUME CodesInv, [CodesNext]_codesVars, ~crossed'
             PROVE  (TriesFit /\ SendsFit)'
  BY DEF CodesInv
<1>0. CodesTypeOK /\ CodesTypeOK' /\ calls \in [Handlers -> Call]
  BY CodesTypes DEF CodesInv, CodesTypeOK, Call
<1> USE DEF redisVars, historyVars
<1>1. ASSUME NEW h \in Handlers, Served(h) PROVE (TriesFit /\ SendsFit)'
  <2>1. crossed' = crossed
    BY <1>1 DEF Served, CheckRate, StoreCode, ResetTries, CountSend, LimitRate, Mail, CheckTries,
                DropCode, ReadCode, CountTry, LimitTries, Compare, SpendCode, ClearTries, Accepted
  <2> QED
    BY <1>1, <2>1, ServedCounts
<1>2. ASSUME NEW h \in Handlers, BreaksOff(h) PROVE FALSE
  BY <1>2 DEF BreaksOff
<1>3. ASSUME NEW h \in Handlers, AnswerLost(h) PROVE (TriesFit /\ SendsFit)'
  <2>1. Stays
    BY <1>0, <1>3 DEF AnswerLost, Stays, Call
  <2> QED
    BY <1>0, <1>3, <2>1, StaysFits DEF AnswerLost
<1>4. CASE CodeExpires \/ TriesExpire \/ RateExpires
  <2>1. Stays /\ crossed' = crossed
    BY <1>4 DEF CodeExpires, TriesExpire, RateExpires, Stays
  <2> QED
    BY <1>0, <1>4, <2>1, StaysFits DEF CodeExpires
<1>5. ASSUME NEW f \in Forms, SendOtp(f) \/ Resend(f) \/ VerifyOtp(f)
      PROVE  (TriesFit /\ SendsFit)'
  BY <1>0, <1>5, CallsFits DEF SendOtp, Resend, VerifyOtp
<1>6. ASSUME NEW f \in Forms, BackToEmail(f) PROVE (TriesFit /\ SendsFit)'
  <2>1. Stays
    BY <1>6 DEF BackToEmail, Stays
  <2> QED
    BY <1>0, <1>6, <2>1, StaysFits DEF BackToEmail
<1>7. ASSUME NEW f \in Forms, CancelLinking(f) \/ Reload(f) PROVE (TriesFit /\ SendsFit)'
  <2>1. Stays
    <3>1. CASE CancelLinking(f)
      BY <1>0, <3>1 DEF CancelLinking, Stays, Call
    <3>2. CASE Reload(f)
      BY <1>0, <3>2 DEF Reload, Stays, Call
    <3> QED
      BY <1>7, <3>1, <3>2
  <2>2. UNCHANGED <<code, tries, rate, guesses, sends>> /\ crossed' = crossed
    BY <1>7 DEF CancelLinking, Reload
  <2> QED
    BY <1>0, <2>1, <2>2, StaysFits
<1>8. CASE UNCHANGED codesVars
  <2>1. Stays
    BY <1>8 DEF codesVars, Stays
  <2> QED
    BY <1>0, <1>8, <2>1, StaysFits DEF codesVars
<1> QED
  BY <1>1, <1>2, <1>3, <1>4, <1>5, <1>6, <1>7, <1>8 DEF CodesNext

LEMMA ServedOthers ==
  ASSUME CodesTypeOK, NEW h \in Handlers, Served(h)
  PROVE  /\ \A g \in Handlers \ {h} : calls'[g].at = calls[g].at
         /\ crossed' = crossed
<1>1. \E c : calls' = [calls EXCEPT ![h] = c]
  <2>1. CASE \E at : Goes(h, at)
    BY <2>1 DEF Goes
  <2>2. CASE Refuses(h) \/ (\E shown : Answers(h, shown))
    BY <2>2 DEF Refuses, Answers
  <2>3. CASE StoreCode(h) \/ ReadCode(h) \/ Accepted(h)
    BY <2>2, <2>3 DEF StoreCode, ReadCode, Accepted
  <2> QED
    BY <2>1, <2>2, <2>3 DEF Served, CheckRate, ResetTries, CountSend, LimitRate, Mail, CheckTries,
       DropCode, CountTry, LimitTries, Compare, SpendCode, ClearTries
<1>2. crossed' = crossed
  BY DEF Served, CheckRate, StoreCode, ResetTries, CountSend, LimitRate, Mail, CheckTries,
         DropCode, ReadCode, CountTry, LimitTries, Compare, SpendCode, ClearTries, Accepted,
         redisVars, historyVars
<1> QED
  BY <1>1, <1>2 DEF CodesTypeOK

(* One counter without an expiry has a call at the stage that sets it      *)
Watched(counter, stage) == counter.n > 0 /\ counter.expires = "never" => Under({stage})

LEMMA CountersKept ==
  CodesInv /\ [CodesNext]_codesVars => CountersExpire'
<1> SUFFICES ASSUME CodesInv, [CodesNext]_codesVars, ~crossed'
             PROVE  Watched(rate, "limitRate")' /\ Watched(tries, "limitTries")'
  BY DEF CountersExpire, Watched
<1>0. CodesTypeOK /\ CodesTypeOK' /\ calls \in [Handlers -> Call]
      /\ {tries, rate} \subseteq Counters
  BY CodesTypes DEF CodesInv, CodesTypeOK, Call
<1>a. ~crossed => Watched(rate, "limitRate") /\ Watched(tries, "limitTries")
  BY DEF CodesInv, CountersExpire, Watched
<1> USE DEF redisVars, historyVars
<1>k. ASSUME Stays, ~crossed,
             rate' = rate \/ rate' = Absent, tries' = tries \/ tries' = Absent
      PROVE  Watched(rate, "limitRate")' /\ Watched(tries, "limitTries")'
  <2>1. \A stage : Under({stage}) => Under({stage})'
    BY <1>k DEF Stays, Under
  <2> QED
    BY <1>a, <1>k, <2>1 DEF Watched, Absent
<1>1. ASSUME NEW h \in Handlers, Served(h)
      PROVE  Watched(rate, "limitRate")' /\ Watched(tries, "limitTries")'
  <2>1. Watched(rate, "limitRate") /\ Watched(tries, "limitTries")
    BY <1>0, <1>1, <1>a, ServedOthers
  <2>2. ASSUME NEW stage, Under({stage}), calls[h].at # stage PROVE Under({stage})'
    BY <1>0, <1>1, <2>2, ServedOthers DEF Under
  <2>3. CASE CountSend(h)
    <3>1. calls[h].at = "countSend" /\ rate' = Incr(rate) /\ tries' = tries
          /\ Goes(h, IF rate'.n = 1 THEN "limitRate" ELSE "mail")
      BY <2>3 DEF CountSend
    <3>2. CASE rate'.n = 1
      <4>1. Under({"limitRate"})'
        BY <1>0, <3>1, <3>2 DEF Goes, Under
      <4> QED
        BY <2>1, <2>2, <3>1, <4>1 DEF Watched
    <3>3. CASE rate'.n # 1
      <4>1. rate'.n > 0 /\ rate'.expires = "never" => rate.n > 0 /\ rate.expires = "never"
        BY <1>0, <3>1, <3>3 DEF Incr, Counters
      <4> QED
        BY <2>1, <2>2, <3>1, <4>1 DEF Watched
    <3> QED
      BY <3>2, <3>3
  <2>4. CASE CountTry(h)
    <3>1. calls[h].at = "countTry" /\ tries' = Incr(tries) /\ rate' = rate
          /\ Goes(h, IF tries'.n = 1 THEN "limitTries" ELSE "compare")
      BY <2>4 DEF CountTry
    <3>2. CASE tries'.n = 1
      <4>1. Under({"limitTries"})'
        BY <1>0, <3>1, <3>2 DEF Goes, Under
      <4> QED
        BY <2>1, <2>2, <3>1, <4>1 DEF Watched
    <3>3. CASE tries'.n # 1
      <4>1. tries'.n > 0 /\ tries'.expires = "never" => tries.n > 0 /\ tries.expires = "never"
        BY <1>0, <3>1, <3>3 DEF Incr, Counters
      <4> QED
        BY <2>1, <2>2, <3>1, <4>1 DEF Watched
    <3> QED
      BY <3>2, <3>3
  <2>5. CASE LimitRate(h)
    <3>1. calls[h].at = "limitRate" /\ rate' = SetExpiry(rate) /\ tries' = tries
      BY <2>5 DEF LimitRate
    <3>2. rate'.n = 0 \/ rate'.expires # "never"
      BY <1>0, <3>1 DEF SetExpiry, Counters
    <3> QED
      BY <2>1, <2>2, <3>1, <3>2 DEF Watched
  <2>6. CASE LimitTries(h)
    <3>1. calls[h].at = "limitTries" /\ tries' = SetExpiry(tries) /\ rate' = rate
      BY <2>6 DEF LimitTries
    <3>2. tries'.n = 0 \/ tries'.expires # "never"
      BY <1>0, <3>1 DEF SetExpiry, Counters
    <3> QED
      BY <2>1, <2>2, <3>1, <3>2 DEF Watched
  <2>7. CASE StoreCode(h)
    <3>1. calls[h].at = "store" /\ rate' = rate
          /\ tries' = IF tries.expires = "later" THEN [tries EXCEPT !.expires = "sooner"] ELSE tries
      BY <2>7 DEF StoreCode
    <3>2. tries' = tries \/ tries'.expires = "sooner"
      BY <1>0, <3>1 DEF Counters
    <3> QED
      BY <2>1, <2>2, <3>1, <3>2 DEF Watched
  <2>8. CASE ResetTries(h) \/ ClearTries(h)
    <3>1. calls[h].at \notin {"limitRate", "limitTries"} /\ rate' = rate /\ tries'.n = 0
      BY <2>8 DEF ResetTries, ClearTries, Absent
    <3> QED
      BY <2>1, <2>2, <3>1 DEF Watched
  <2>9. CASE \/ CheckRate(h) \/ Mail(h) \/ CheckTries(h) \/ DropCode(h) \/ ReadCode(h)
             \/ Compare(h) \/ SpendCode(h) \/ Accepted(h)
    <3>1. calls[h].at \notin {"limitRate", "limitTries"} /\ rate' = rate /\ tries' = tries
      BY <2>9 DEF CheckRate, Mail, CheckTries, DropCode, ReadCode, Compare, SpendCode, Accepted
    <3> QED
      BY <2>1, <2>2, <3>1 DEF Watched
  <2> QED
    BY <1>1, <2>3, <2>4, <2>5, <2>6, <2>7, <2>8, <2>9 DEF Served
<1>2. ASSUME NEW h \in Handlers, BreaksOff(h) PROVE FALSE
  BY <1>2 DEF BreaksOff
<1>3. ASSUME NEW h \in Handlers, AnswerLost(h)
      PROVE  Watched(rate, "limitRate")' /\ Watched(tries, "limitTries")'
  <2>1. Stays
    BY <1>0, <1>3 DEF AnswerLost, Stays, Call
  <2> QED
    BY <1>3, <1>k, <2>1 DEF AnswerLost
<1>4. CASE CodeExpires \/ TriesExpire \/ RateExpires
  <2>1. Stays /\ crossed' = crossed
    BY <1>4 DEF CodeExpires, TriesExpire, RateExpires, Stays
  <2> QED
    BY <1>4, <1>k, <2>1 DEF CodeExpires, TriesExpire, RateExpires
<1>5. ASSUME NEW f \in Forms, NEW at, NEW given, Calls(f, at, given)
      PROVE  Watched(rate, "limitRate")' /\ Watched(tries, "limitTries")'
  <2>1. PICK h \in Handlers :
          calls[h] = Idle /\ \E c : calls' = [calls EXCEPT ![h] = c]
    BY <1>5 DEF Calls
  <2>2. \A stage \in {"limitRate", "limitTries"} : Under({stage}) => Under({stage})'
    BY <1>0, <2>1 DEF Under, Idle
  <2>3. ~crossed /\ UNCHANGED <<rate, tries>>
    BY <1>5, <1>0 DEF Calls, CodesTypeOK
  <2> QED
    BY <1>a, <2>2, <2>3 DEF Watched
<1>6. ASSUME NEW f \in Forms, SendOtp(f) \/ Resend(f) \/ VerifyOtp(f)
      PROVE  Watched(rate, "limitRate")' /\ Watched(tries, "limitTries")'
  BY <1>5, <1>6 DEF SendOtp, Resend, VerifyOtp
<1>7. ASSUME NEW f \in Forms, BackToEmail(f) \/ CancelLinking(f) \/ Reload(f)
      PROVE  Watched(rate, "limitRate")' /\ Watched(tries, "limitTries")'
  <2>1. Stays
    <3>1. CASE CancelLinking(f)
      BY <1>0, <3>1 DEF CancelLinking, Stays, Call
    <3>2. CASE Reload(f)
      BY <1>0, <3>2 DEF Reload, Stays, Call
    <3>3. CASE BackToEmail(f)
      BY <3>3 DEF BackToEmail, Stays
    <3> QED
      BY <1>7, <3>1, <3>2, <3>3
  <2>2. UNCHANGED <<tries, rate>> /\ crossed' = crossed
    BY <1>7 DEF BackToEmail, CancelLinking, Reload
  <2> QED
    BY <1>k, <2>1, <2>2
<1>8. CASE UNCHANGED codesVars
  <2>1. Stays
    BY <1>8 DEF codesVars, Stays
  <2> QED
    BY <1>8, <1>k, <2>1 DEF codesVars
<1> QED
  BY <1>1, <1>2, <1>3, <1>4, <1>6, <1>7, <1>8 DEF CodesNext

(* What an emailed code and its counters fit together by holds whatever    *)
(* calls of the two endpoints overlap, break off or outlive their keys.    *)
THEOREM CodesInvariant == CodesSpec => []CodesInv
<1>1. CodesInv /\ [CodesNext]_codesVars => CodesInv'
  BY CodesTypes, LiveKept, CountsKept, CountersKept DEF CodesInv
<1> QED
  BY <1>1, CodesStart, PTL DEF CodesSpec

(* One code is compared with at most the limit of entries and one more for *)
(* each call past the check, and so are the codes sent in a window: in     *)
(* every window the counter, with the calls that have passed its check and *)
(* not yet raised it, is at least what was let through.                    *)
THEOREM AttemptsAreBounded == CodesSpec => []AttemptsBounded
<1>1. CodesInv => AttemptsBounded
  <2> SUFFICES ASSUME CodesInv, ~crossed PROVE AttemptsBounded
    BY DEF AttemptsBounded
  <2>1. CodesTypeOK /\ Numbers
    BY FitsInNumbers DEF CodesInv
  <2>2. /\ guesses \in Nat /\ sends \in Nat /\ rate.n \in Nat /\ Cardinality(Handlers) \in Nat
        /\ MaxTries \in Nat /\ MaxSends \in Nat
        /\ Count(ComparingAt) \in Nat /\ Count(ReadingAt) \in Nat
        /\ Count(UncountedAt) \in Nat /\ Count(AdmittedAt) \in Nat
    BY <2>1, CountSome, CodesAssumption, FS_CardinalityType DEF CodesTypeOK, Counters
  <2>3. Count(UncountedAt) <= Count(AdmittedAt)
    <3>1. HandlersAt(UncountedAt) \subseteq HandlersAt(AdmittedAt)
      BY DEF HandlersAt, UncountedAt, AdmittedAt
    <3>2. IsFiniteSet(HandlersAt(AdmittedAt))
      <4>1. HandlersAt(AdmittedAt) \subseteq Handlers
        BY DEF HandlersAt
      <4> QED
        BY <4>1, CodesAssumption, FS_Subset
    <3> QED
      BY <3>1, <3>2, FS_Subset DEF Count
  <2> QED
    BY <2>1, <2>2, <2>3 DEF Numbers, AttemptsBounded
<1> QED
  BY <1>1, CodesInvariant, PTL

(* The store's keys, the calls and the forms keep their types.             *)
THEOREM CodesTypeCorrect == CodesSpec => []CodesTypeOK
<1>1. CodesInv => CodesTypeOK
  BY DEF CodesInv
<1> QED
  BY <1>1, CodesInvariant, PTL

(* A counter without an expiry has a call that is about to set it, or a    *)
(* call broke off between the two commands.                                *)
THEOREM CountersDoExpire == CodesSpec => []CountersExpire
<1>1. CodesInv => CountersExpire
  BY DEF CodesInv
<1> QED
  BY <1>1, CodesInvariant, PTL

-----------------------------------------------------------------------------
(* The file browser                                                        *)

(* The parts of the type invariant *)
Op == [kind : Editing \cup {"none", "dropOne", "dropMany"}, items : SUBSET Items,
       from : Dirs, to : Dirs, seen : Stores]
Dialog == [kind : Editing \cup Viewing \cup {"none"}, items : SUBSET Items]
Drag == [items : SUBSET Items, from : Dirs]
Press == [item : Items, selected : SUBSET Items] \cup {NoPress}
Budget == [asked : 0..MaxAsked, news : 0..MaxNews, visits : 0..MaxVisits]

NavTyped ==
    /\ here \in Dirs /\ past \subseteq Dirs /\ heading \in Dirs \cup {NoItem}
    /\ loading \in [Dirs -> Dirs \cup {NoItem}]
HandTyped ==
    /\ selected \subseteq Items /\ anchor \in Items \cup {NoItem} /\ lapsed \in Items \cup {NoItem}
    /\ menu \in Items \cup {NoItem} /\ drag \in Drag /\ press \in Press
FlagsTyped ==
    spinning \in BOOLEAN /\ operating \in BOOLEAN /\ fetching \in BOOLEAN /\ rushed \in BOOLEAN

LEMMA TypeParts ==
  BrowserTypeOK <=> /\ store \in Stores /\ NavTyped /\ HandTyped /\ FlagsTyped
                    /\ dialog \in Dialog /\ ops \in [Slots -> Op] /\ budget \in Budget
<1>1. {spinning, operating, fetching, rushed} \subseteq BOOLEAN <=> FlagsTyped
  BY Zenon DEF FlagsTyped
<1> HIDE DEF FlagsTyped
<1> QED
  BY <1>1 DEF BrowserTypeOK, NavTyped, HandTyped, Dialog, Op, Budget, Drag, Press

LEMMA TypePartsNext ==
  (BrowserTypeOK <=> /\ store \in Stores /\ NavTyped /\ HandTyped /\ FlagsTyped
                     /\ dialog \in Dialog /\ ops \in [Slots -> Op] /\ budget \in Budget)'
BY TypeParts, PTL

(* What a step leaves alone keeps its type *)
LEMMA KeptTypes ==
  ASSUME BrowserTypeOK
  PROVE  /\ UNCHANGED store => (store \in Stores)'
         /\ UNCHANGED navVars => NavTyped'
         /\ UNCHANGED handVars => HandTyped'
         /\ UNCHANGED dialog => (dialog \in Dialog)'
         /\ UNCHANGED ops => (ops \in [Slots -> Op])'
         /\ UNCHANGED budget => (budget \in Budget)'
BY TypeParts DEF navVars, handVars, NavTyped, HandTyped

LEMMA KeptFlags ==
  ASSUME FlagsTyped, spinning' \in {TRUE, FALSE, spinning}, operating' \in {TRUE, FALSE, operating},
         fetching' \in {TRUE, FALSE, fetching}, rushed' \in {TRUE, FALSE, rushed}
  PROVE  FlagsTyped'
BY Zenon DEF FlagsTyped

LEMMA ShownTyped ==
  ASSUME NEW st \in Stores, NEW f \in Dirs
  PROVE  Shown(st, f) \subseteq Items
BY DEF Stores, Shown

LEMMA StoreParts ==
  ASSUME NEW st \in Stores
  PROVE  /\ st = [lists |-> st.lists, node |-> st.node, up |-> st.up]
         /\ st.lists \in [Dirs -> SUBSET Items] /\ st.up \in [Dirs -> Dirs]
         /\ st.node \in [Dirs -> {"none", "loading", "bare", "keyless", "loaded"}]
BY DEF Stores

LEMMA StoreWhole ==
  ASSUME NEW lists \in [Dirs -> SUBSET Items], NEW up \in [Dirs -> Dirs],
         NEW node \in [Dirs -> {"none", "loading", "bare", "keyless", "loaded"}]
  PROVE  [lists |-> lists, node |-> node, up |-> up] \in Stores
BY DEF Stores

LEMMA RelistedTyped ==
  ASSUME NEW st \in Stores, NEW f \in Dirs, NEW items \in SUBSET Items
  PROVE  Relisted(st, f, items) \in Stores
<1>1. Relisted(st, f, items) = [lists |-> [st.lists EXCEPT ![f] = items],
                                node |-> [st.node EXCEPT ![f] = Opened(@)], up |-> st.up]
  BY DEF Relisted
<1>2. Opened(st.node[f]) \in {"none", "loading", "bare", "keyless", "loaded"}
  BY StoreParts DEF Opened
<1>3. [st.node EXCEPT ![f] = Opened(@)] \in [Dirs -> {"none", "loading", "bare", "keyless",
"loaded"}]
  BY <1>2, StoreParts
<1>4. [st.lists EXCEPT ![f] = items] \in [Dirs -> SUBSET Items]
  BY StoreParts
<1> QED
  BY <1>1, <1>3, <1>4, StoreParts, StoreWhole

LEMMA ReplacedTyped ==
  ASSUME NEW st \in Stores, NEW op \in Op
  PROVE  Replaced(st, op) \in Stores
<1>1. op.seen \in Stores /\ op.to \in Dirs
  BY DEF Op
<1> DEFINE moved == {d \in op.items \cap Dirs : InStore(op.seen, d)}
           lists == [f \in Dirs |-> IF f \in moved /\ IsLoaded(op.seen, f)
                                    THEN op.seen.lists[f] ELSE st.lists[f]]
           node == [f \in Dirs |-> IF f \in moved THEN op.seen.node[f] ELSE st.node[f]]
           up == [f \in Dirs |-> IF f \in moved THEN op.to ELSE st.up[f]]
<1>2. lists \in [Dirs -> SUBSET Items]
  BY <1>1, StoreParts
<1>3. node \in [Dirs -> {"none", "loading", "bare", "keyless", "loaded"}]
  BY <1>1, StoreParts
<1>4. up \in [Dirs -> Dirs]
  BY <1>1, StoreParts
<1>5. Replaced(st, op) = [lists |-> lists, node |-> node, up |-> up]
  BY DEF Replaced
<1> HIDE DEF moved, lists, node, up
<1> QED
  BY <1>2, <1>3, <1>4, <1>5, StoreWhole

LEMMA EffectTyped ==
  ASSUME store \in Stores, NEW op \in Op, Effect(op), op.kind = "create" => CreatedIn(op) \in Dirs
  PROVE  store' \in Stores
<1>0. /\ op.seen \in Stores /\ op.from \in Dirs /\ op.to \in Dirs /\ op.items \subseteq Items
      /\ Top \in Dirs
  BY BrowserAssumption DEF Op
<1>1. CASE Moving(op) /\ store' = Moved(op)
  <2>1. /\ Shown(op.seen, op.from) \ op.items \in SUBSET Items
        /\ Shown(op.seen, op.to) \cup Affected(op) \in SUBSET Items
    BY <1>0, ShownTyped DEF Affected
  <2> QED
    BY <1>0, <1>1, <2>1, RelistedTyped, ReplacedTyped DEF Moved
<1>2. CASE store' = Deleted(op)
  <2>1. Shown(op.seen, op.from) \ op.items \in SUBSET Items
    BY <1>0, ShownTyped
  <2> DEFINE st == Relisted(store, op.from, Shown(op.seen, op.from) \ op.items)
             node == [f \in Dirs |-> IF f \in Forgotten(op) THEN "none" ELSE st.node[f]]
  <2>2. st \in Stores
    BY <1>0, <2>1, RelistedTyped
  <2>3. Deleted(op) = [st EXCEPT !.node = node]
    BY DEF Deleted
  <2> HIDE DEF st
  <2>4. node \in [Dirs -> {"none", "loading", "bare", "keyless", "loaded"}]
    BY <2>2, StoreParts
  <2> HIDE DEF node
  <2>5. [st EXCEPT !.node = node] = [lists |-> st.lists, node |-> node, up |-> st.up]
    BY <2>2, StoreParts
  <2> QED
    BY <1>2, <2>2, <2>3, <2>4, <2>5, StoreParts, StoreWhole
<1>3. CASE op.kind = "create" /\ \E f \in Dirs : New(f) /\ store' = CreatedFolder(op, f)
  <2>1. PICK f \in Dirs : New(f) /\ store' = CreatedFolder(op, f)
    BY <1>3
  <2>2. f \in Items /\ CreatedIn(op) \in Dirs
    BY <1>3, <2>1 DEF New, Items
  <2> DEFINE st == Relisted(store, CreatedIn(op), Shown(op.seen, CreatedIn(op)) \cup {f})
  <2>3. st \in Stores
    BY <1>0, <2>2, ShownTyped, RelistedTyped
  <2>4. store' = [lists |-> [st.lists EXCEPT ![f] = {}], node |-> [st.node EXCEPT ![f] = "loaded"],
                  up |-> [st.up EXCEPT ![f] = CreatedIn(op)]]
    BY <2>1 DEF CreatedFolder
  <2> HIDE DEF st
  <2>5. /\ [st.lists EXCEPT ![f] = {}] \in [Dirs -> SUBSET Items]
        /\ [st.node EXCEPT ![f] = "loaded"]
             \in [Dirs -> {"none", "loading", "bare", "keyless", "loaded"}]
        /\ [st.up EXCEPT ![f] = CreatedIn(op)] \in [Dirs -> Dirs]
    BY <2>2, <2>3, StoreParts
  <2> QED
    BY <2>4, <2>5, StoreWhole
<1>4. CASE store' = Relisted(store, op.from, Shown(op.seen, op.from))
  BY <1>0, <1>4, ShownTyped, RelistedTyped
<1> QED
  BY <1>1, <1>2, <1>3, <1>4 DEF Effect

(* The same for what a load and others do to the store                     *)
LEMMA ListsTyped ==
  ASSUME store \in Stores, NEW f \in Dirs, NEW items \in SUBSET Items, Lists(f, items)
  PROVE  store' \in Stores
<1> DEFINE lists == [store.lists EXCEPT ![f] = items]
<1>1. lists \in [Dirs -> SUBSET Items]
  BY StoreParts
<1>2. store' = [store EXCEPT !.lists = lists]
  BY DEF Lists
<1> HIDE DEF lists
<1>3. store' = [lists |-> lists, node |-> store.node, up |-> store.up]
  BY <1>2, StoreParts
<1> QED
  BY <1>1, <1>3, StoreParts, StoreWhole

LEMMA NodeTyped ==
  ASSUME store \in Stores, NEW f \in Dirs, NEW what \in {"none", "loading", "bare", "loaded"},
         \/ store' = [store EXCEPT !.node = [@ EXCEPT ![f] = what]]
         \/ \E p \in Dirs : SetFolder(f, what, p)
  PROVE  store' \in Stores
<1> DEFINE node == [store.node EXCEPT ![f] = what]
<1>1. node \in [Dirs -> {"none", "loading", "bare", "keyless", "loaded"}]
  BY StoreParts
<1>2. CASE store' = [store EXCEPT !.node = [@ EXCEPT ![f] = what]]
  <2>1. store' = [store EXCEPT !.node = node]
    BY <1>2
  <2> HIDE DEF node
  <2>2. store' = [lists |-> store.lists, node |-> node, up |-> store.up]
    BY <2>1, StoreParts
  <2> QED
    BY <1>1, <2>2, StoreParts, StoreWhole
<1>3. ASSUME NEW p \in Dirs, SetFolder(f, what, p) PROVE store' \in Stores
  <2> DEFINE up == [store.up EXCEPT ![f] = p]
  <2>1. store' = [lists |-> store.lists, node |-> node, up |-> up]
    BY <1>3 DEF SetFolder
  <2>2. up \in [Dirs -> Dirs]
    BY StoreParts
  <2> HIDE DEF node, up
  <2> QED
    BY <1>1, <2>1, <2>2, StoreParts, StoreWhole
<1> QED
  BY <1>2, <1>3

(* What the page shows is of the store's items                             *)
LEMMA ChildrenTyped ==
  ASSUME BrowserTypeOK
  PROVE  /\ Children(here) \subseteq Items
         /\ \A i, j : RowsBetween(i, j) \subseteq Children(here)
BY TypeParts, ShownTyped DEF Children, NavTyped, RowsBetween

LEMMA PruneTyped ==
  ASSUME BrowserTypeOK, (Prune /\ anchor' = anchor) \/ Deselect,
         UNCHANGED <<lapsed, menu, drag, press>>
  PROVE  HandTyped'
<1>1. HandTyped
  BY TypeParts
<1>2. selected' \subseteq selected
  BY DEF Prune, Deselect
<1> QED
  BY <1>1, <1>2 DEF HandTyped, Deselect

LEMMA SelectingTypes == ASSUME BrowserTypeOK, Selecting PROVE BrowserTypeOK'
<1>1. HandTyped'
  <2>0. HandTyped /\ Children(here) \subseteq Items /\ \A i, j : RowsBetween(i, j) \subseteq Items
    BY TypeParts, ChildrenTyped
  <2>1. ASSUME NEW i \in Items, Click(i) PROVE HandTyped'
    BY <2>0, <2>1 DEF Click, SelectOnly, Toggle, SelectRange, HandTyped
  <2>2. CASE SelectAll
    BY <2>0, <2>2 DEF SelectAll, Deselect, HandTyped
  <2>3. CASE ClearSelection
    BY <2>0, <2>3 DEF ClearSelection, Deselect, HandTyped
  <2> QED
    BY <2>1, <2>2, <2>3 DEF Selecting
<1>2. UNCHANGED <<store, navVars, dialog, opVars, budget>>
  BY DEF Selecting, Click, SelectAll, ClearSelection
<1>3. FlagsTyped'
  <2>1. FlagsTyped
    BY TypeParts
  <2> QED
    BY <1>2, <2>1, Zenon DEF FlagsTyped, navVars, opVars
<1> QED
  BY <1>1, <1>2, <1>3, KeptTypes, TypePartsNext DEF opVars

LEMMA ShowMenuTyped ==
  ASSUME HandTyped, NEW i \in Items, NEW was, ShowMenu(i, was)
  PROVE  /\ selected' \subseteq Items /\ anchor' \in Items \cup {NoItem}
         /\ menu' \in Items \cup {NoItem}
BY DEF HandTyped, ShowMenu, SelectOnly

LEMMA CommandingTypes == ASSUME BrowserTypeOK, Commanding PROVE BrowserTypeOK'
<1>0. HandTyped /\ Children(here) \subseteq Items /\ dialog \in Dialog /\ FlagsTyped
  BY TypeParts, ChildrenTyped
<1>t. ASSUME HandTyped', dialog' \in Dialog, FlagsTyped', UNCHANGED <<store, navVars, ops, budget>>
      PROVE  BrowserTypeOK'
  BY <1>t, KeptTypes, TypePartsNext
<1>f. UNCHANGED <<navVars, opVars>> => FlagsTyped'
  BY <1>0, Zenon DEF FlagsTyped, navVars, opVars
<1>n. NoPress \in Press /\ NoItem \in Items \cup {NoItem} /\ \A i \in Items : {i} \subseteq Items
  BY DEF Press
<1>1. ASSUME NEW i \in Items, RightClick(i) PROVE BrowserTypeOK'
  <2>1. HandTyped'
    BY <1>0, <1>1, ShowMenuTyped DEF RightClick, HandTyped
  <2> QED
    BY <1>0, <1>1, <1>f, <1>t, <2>1 DEF RightClick, opVars
<1>2. ASSUME NEW i \in Items, Touch(i) PROVE BrowserTypeOK'
  <2>1. HandTyped'
    BY <1>0, <1>2 DEF Touch, HandTyped, Press
  <2> QED
    BY <1>0, <1>2, <1>f, <1>t, <2>1 DEF Touch, opVars
<1>3. CASE TouchEnds
  <2>1. HandTyped'
    BY <1>0, <1>3, <1>n DEF TouchEnds, HandTyped
  <2> QED
    BY <1>0, <1>3, <1>f, <1>t, <2>1 DEF TouchEnds, opVars
<1>4. CASE LongPress
  <2>1. press.item \in Items
    BY <1>0, <1>4 DEF LongPress, HandTyped, Press
  <2>2. HandTyped'
    BY <1>0, <1>4, <1>n, <2>1, ShowMenuTyped DEF LongPress, HandTyped
  <2> QED
    BY <1>0, <1>4, <1>f, <1>t, <2>2 DEF LongPress, opVars
<1>5. CASE HideMenu
  <2>1. HandTyped'
    BY <1>0, <1>5 DEF HideMenu, CloseMenu, HandTyped
  <2> QED
    BY <1>0, <1>5, <1>f, <1>t, <2>1 DEF HideMenu, opVars
<1>6. CASE Download
  <2>1. HandTyped'
    BY <1>0, <1>6 DEF Download, CloseMenu, HandTyped
  <2>2. FlagsTyped'
    BY <1>0, <1>6, Zenon DEF Download, FlagsTyped, navVars
  <2> QED
    BY <1>0, <1>6, <1>t, <2>1, <2>2 DEF Download
<1>7. CASE Downloaded
  <2>1. HandTyped'
    BY <1>0, <1>7 DEF Downloaded, handVars, HandTyped
  <2>2. FlagsTyped'
    BY <1>0, <1>7, Zenon DEF Downloaded, FlagsTyped, navVars
  <2> QED
    BY <1>0, <1>7, <1>t, <2>1, <2>2 DEF Downloaded
<1>8. CASE NewFolder
  <2>1. HandTyped' /\ dialog' \in Dialog
    BY <1>0, <1>8 DEF NewFolder, OpenDialog, handVars, HandTyped, Dialog, Editing
  <2> QED
    BY <1>8, <1>f, <1>t, <2>1 DEF NewFolder, opVars
<1>9. ASSUME NEW what \in Editing \cup Viewing, ChooseCommand(what) PROVE BrowserTypeOK'
  <2>1. HandTyped' /\ dialog' \in Dialog
    BY <1>0, <1>9 DEF ChooseCommand, OpenDialog, CloseMenu, HandTyped, Dialog
  <2> QED
    BY <1>9, <1>f, <1>t, <2>1 DEF ChooseCommand, opVars
<1>10. ASSUME NEW what \in {"deleteMany", "moveMany"}, ChooseBatch(what) PROVE BrowserTypeOK'
  <2>1. HandTyped'
    BY <1>0, <1>10 DEF ChooseBatch, CloseMenu, HandTyped
  <2>2. dialog' \in Dialog
    BY <1>0, <1>10 DEF ChooseBatch, OpenDialog, Dialog, Editing, SelectedItems
  <2> QED
    BY <1>10, <1>f, <1>t, <2>1, <2>2 DEF ChooseBatch, opVars
<1> QED
  BY <1>1, <1>2, <1>3, <1>4, <1>5, <1>6, <1>7, <1>8, <1>9, <1>10 DEF Commanding

(* An operation that is asked                                              *)
LEMMA AskTyped ==
  ASSUME BrowserTypeOK, NEW op \in Op, Ask(op)
  PROVE  ops' \in [Slots -> Op] /\ budget' \in Budget /\ operating' = TRUE
<1>1. ops \in [Slots -> Op] /\ budget \in Budget /\ {MaxAsked, MaxNews, MaxVisits} \subseteq Nat
  BY TypeParts, BrowserAssumption
<1> QED
  BY <1>1 DEF Ask, Budget

LEMMA AnswerTyped ==
  ASSUME BrowserTypeOK, NEW s \in Slots, AnswerTo(s)
  PROVE  ops' \in [Slots -> Op]
<1>1. NoOp \in Op
  <2>1. AtFirst \in Stores
    BY BrowserAssumption DEF AtFirst, Stores
  <2> QED
    BY <2>1, BrowserAssumption DEF NoOp, Op
<1>2. ops \in [Slots -> Op]
  BY TypeParts
<1> QED
  BY <1>1, <1>2 DEF AnswerTo

LEMMA SubmitTypes ==
  ASSUME BrowserTypeOK, NEW to \in Dirs, Submit(to), dialog.kind \in Editing
  PROVE  BrowserTypeOK'
<1> DEFINE op == [kind |-> dialog.kind, items |-> dialog.items, from |-> here, to |-> to,
                  seen |-> store]
<1>1. op \in Op
  BY TypeParts DEF Op, Dialog, NavTyped
<1>2. Ask(op)
  BY DEF Submit
<1> HIDE DEF op
<1>3. ops' \in [Slots -> Op] /\ budget' \in Budget /\ operating' = TRUE
  BY <1>1, <1>2, AskTyped
<1>4. FlagsTyped'
  <2>1. FlagsTyped /\ UNCHANGED <<spinning, fetching, rushed>>
    BY TypeParts DEF Submit, navVars
  <2> QED
    BY <1>3, <2>1, Zenon DEF FlagsTyped
<1>5. UNCHANGED <<store, navVars, handVars, dialog>>
  BY DEF Submit
<1> QED
  BY <1>3, <1>4, <1>5, KeptTypes, TypePartsNext

LEMMA OperatingTypes == ASSUME BrowserTypeOK, Operating PROVE BrowserTypeOK'
<1>0. /\ HandTyped /\ FlagsTyped /\ dialog \in Dialog /\ store \in Stores /\ ops \in [Slots -> Op]
      /\ Top \in Dirs
  BY TypeParts, BrowserAssumption
<1>d. NoDialog \in Dialog
  BY DEF NoDialog, Dialog
<1>1. CASE Cancel
  <2>1. FlagsTyped'
    BY <1>0, <1>1, Zenon DEF Cancel, FlagsTyped, navVars, opVars
  <2> QED
    BY <1>1, <1>d, <2>1, KeptTypes, TypePartsNext DEF Cancel, opVars
<1>2. CASE ConfirmRename \/ ConfirmDelete \/ ConfirmCreate \/ ConfirmMove
  BY <1>0, <1>2, SubmitTypes
     DEF ConfirmRename, ConfirmDelete, ConfirmCreate, ConfirmMove, Destinations, Editing
<1>3. ASSUME NEW s \in Slots, Succeeds(s) PROVE BrowserTypeOK'
  <2>1. ops[s] \in Op
    BY <1>0
  <2>2. store' \in Stores
    <3>1. CreatedIn(ops[s]) \in Dirs
      BY <1>0, <2>1 DEF CreatedIn, Op
    <3> QED
      BY <1>0, <1>3, <2>1, <3>1, EffectTyped DEF Succeeds
  <2>3. HandTyped'
    BY <1>3, PruneTyped DEF Succeeds
  <2>4. FlagsTyped'
    BY <1>0, <1>3, Zenon DEF Succeeds, FlagsTyped, navVars
  <2>5. dialog' \in Dialog /\ ops' \in [Slots -> Op]
    BY <1>0, <1>3, <1>d, AnswerTyped DEF Succeeds, Closes
  <2> QED
    BY <1>3, <2>2, <2>3, <2>4, <2>5, KeptTypes, TypePartsNext DEF Succeeds
<1>4. ASSUME NEW s \in Slots, Refused(s) PROVE BrowserTypeOK'
  <2>1. dialog' \in Dialog /\ ops' \in [Slots -> Op]
    BY <1>0, <1>4, <1>d, AnswerTyped DEF Refused, Closes
  <2>2. FlagsTyped'
    BY <1>0, <1>4, Zenon DEF Refused, FlagsTyped, navVars
  <2> QED
    BY <1>4, <2>1, <2>2, KeptTypes, TypePartsNext DEF Refused
<1> QED
  BY <1>1, <1>2, <1>3, <1>4 DEF Operating

LEMMA DraggingTypes == ASSUME BrowserTypeOK, Dragging PROVE BrowserTypeOK'
<1>0. /\ HandTyped /\ FlagsTyped /\ NavTyped /\ store \in Stores /\ Top \in Dirs
      /\ Children(here) \subseteq Items
  BY TypeParts, BrowserAssumption, ChildrenTyped
<1>f. UNCHANGED <<navVars, opVars>> => FlagsTyped'
  BY <1>0, Zenon DEF FlagsTyped, navVars, opVars
<1>n. NoDrag \in Drag
  BY <1>0 DEF NoDrag, Drag
<1>1. ASSUME NEW i \in Items, DragStart(i) PROVE BrowserTypeOK'
  <2>1. drag' \in Drag
    BY <1>0, <1>1 DEF DragStart, SelectedItems, Drag, NavTyped
  <2>2. HandTyped'
    BY <1>0, <1>1, <2>1 DEF DragStart, HandTyped
  <2> QED
    BY <1>1, <1>f, <2>2, KeptTypes, TypePartsNext DEF DragStart, opVars
<1>2. ASSUME NEW f \in Dirs, Drop(f) PROVE BrowserTypeOK'
  <2> DEFINE op == [kind |-> IF Cardinality(Takes(f)) = 1 THEN "dropOne" ELSE "dropMany",
                    items |-> Takes(f), from |-> drag.from, to |-> f, seen |-> store]
  <2>1. op \in Op
    <3>1. Takes(f) \subseteq Items /\ drag.from \in Dirs
      BY <1>0 DEF Takes, HandTyped, Drag
    <3> QED
      BY <1>0, <3>1 DEF Op
  <2>2. Ask(op)
    BY <1>2 DEF Drop, DropOnFolder
  <2> HIDE DEF op
  <2>3. ops' \in [Slots -> Op] /\ budget' \in Budget /\ operating' = TRUE
    BY <2>1, <2>2, AskTyped
  <2>4. HandTyped'
    BY <1>0, <1>2, <1>n DEF Drop, HandTyped
  <2>5. FlagsTyped'
    <3>1. rushed' = (rushed \/ \E s \in Slots : ops[s] # NoOp) /\ UNCHANGED <<spinning, fetching>>
      BY <1>2 DEF Drop, navVars
    <3> QED
      BY <1>0, <2>3, <3>1, Zenon DEF FlagsTyped
  <2> QED
    BY <1>2, <2>3, <2>4, <2>5, KeptTypes, TypePartsNext DEF Drop
<1>3. CASE DropNowhere
  <2>1. HandTyped'
    BY <1>0, <1>3, <1>n DEF DropNowhere, HandTyped
  <2> QED
    BY <1>3, <1>f, <2>1, KeptTypes, TypePartsNext DEF DropNowhere, opVars
<1> QED
  BY <1>1, <1>2, <1>3 DEF Dragging

LEMMA NavigateTyped ==
  ASSUME BrowserTypeOK, NEW f \in Dirs, NavigateTo(f)
  PROVE  store' \in Stores /\ NavTyped' /\ budget' \in Budget /\ spinning' \in {TRUE, spinning}
<1>0. store \in Stores /\ NavTyped /\ budget \in Budget
  BY TypeParts
<1>1. budget' \in Budget
  BY <1>0, BrowserAssumption DEF NavigateTo, Budget
<1>2. CASE GoTo(f)
  BY <1>0, <1>1, <1>2 DEF GoTo, Visit, NavTyped
<1>3. CASE GoAndLoad(f)
  <2>1. PICK p \in Parents(f) : SetFolder(f, "loading", p) /\ loading' = [loading EXCEPT ![f] = p]
    BY <1>3 DEF GoAndLoad
  <2>2. p \in Dirs
    BY DEF Parents
  <2>3. store' \in Stores
    BY <1>0, <2>1, <2>2, NodeTyped
  <2>4. NavTyped'
    BY <1>0, <1>3, <2>1, <2>2 DEF GoAndLoad, Visit, NavTyped
  <2> QED
    BY <1>1, <1>3, <2>3, <2>4 DEF GoAndLoad
<1>4. CASE GoNowhere(f)
  BY <1>0, <1>1, <1>4 DEF GoNowhere, NavTyped
<1> QED
  BY <1>2, <1>3, <1>4 DEF NavigateTo

LEMMA NavigatingTypes == ASSUME BrowserTypeOK, Navigating PROVE BrowserTypeOK'
<1>0. /\ HandTyped /\ FlagsTyped /\ NavTyped /\ store \in Stores /\ budget \in Budget
  BY TypeParts
<1>f. ASSUME spinning' \in {TRUE, FALSE, spinning}, UNCHANGED opVars PROVE FlagsTyped'
  BY <1>0, <1>f, Zenon DEF FlagsTyped, opVars
<1>1. CASE GoUp
  <2>1. Above \in Dirs
    BY <1>0, StoreParts DEF Above, NavTyped
  <2>2. store' \in Stores /\ NavTyped' /\ budget' \in Budget /\ spinning' \in {TRUE, spinning}
    BY <1>1, <2>1, NavigateTyped DEF GoUp
  <2>3. HandTyped'
    BY <1>1, PruneTyped DEF GoUp
  <2> QED
    BY <1>1, <1>f, <2>2, <2>3, KeptTypes, TypePartsNext DEF GoUp, opVars
<1>2. ASSUME NEW f \in Dirs, EnterFolder(f) PROVE BrowserTypeOK'
  <2>1. store' \in Stores /\ NavTyped' /\ budget' \in Budget /\ spinning' \in {TRUE, spinning}
    BY <1>2, NavigateTyped DEF EnterFolder
  <2>2. HandTyped'
    BY <1>2, PruneTyped DEF EnterFolder
  <2> QED
    BY <1>2, <1>f, <2>1, <2>2, KeptTypes, TypePartsNext DEF EnterFolder, opVars
<1>3. ASSUME NEW f \in Dirs, Back(f) PROVE BrowserTypeOK'
  <2>1. NavTyped' /\ budget' \in Budget
    BY <1>0, <1>3, BrowserAssumption DEF Back, NavTyped, Budget
  <2>2. HandTyped'
    BY <1>3, PruneTyped DEF Back
  <2> QED
    BY <1>3, <1>f, <2>1, <2>2, KeptTypes, TypePartsNext DEF Back, opVars
<1>4. ASSUME NEW f \in Dirs, LoadEnds(f) PROVE BrowserTypeOK'
  <2>0. loading[f] \in Dirs
    BY <1>0, <1>4 DEF LoadEnds, NavTyped
  <2>1. store' \in Stores
    BY <1>0, <1>4, <2>0, NodeTyped
       DEF LoadEnds, LoadedFolder, UnresolvedFolder, UnloadableFolder, OutdatedFolder, LoadedAs
  <2>2. NavTyped'
    BY <1>0, <1>4, <2>0
       DEF LoadEnds, LoadedFolder, UnresolvedFolder, UnloadableFolder, OutdatedFolder, LoadedAs,
           Visit, NavTyped
  <2>3. spinning' \in {FALSE, spinning}
    BY <1>4
       DEF LoadEnds, LoadedFolder, UnresolvedFolder, UnloadableFolder, OutdatedFolder, LoadedAs
  <2>4. HandTyped'
    BY <1>4, PruneTyped DEF LoadEnds
  <2> QED
    BY <1>4, <1>f, <2>1, <2>2, <2>3, <2>4, KeptTypes, TypePartsNext DEF LoadEnds, opVars
<1> QED
  BY <1>1, <1>2, <1>3, <1>4 DEF Navigating

LEMMA NewsTypes == ASSUME BrowserTypeOK, NEW i \in Items, News(i) PROVE BrowserTypeOK'
<1>0. FlagsTyped /\ store \in Stores /\ budget \in Budget /\ Top \in Dirs
  BY TypeParts, BrowserAssumption
<1>1. store' \in Stores
  <2>1. \A f \in Dirs : store.lists[f] \subseteq Items
    BY <1>0, StoreParts
  <2>2. CASE Lists(Top, store.lists[Top] \ {i})
    BY <1>0, <2>1, <2>2, ListsTyped
  <2>3. ASSUME NEW f \in Dirs, Lists(f, store.lists[f] \cup {i}) PROVE store' \in Stores
    BY <1>0, <2>1, <2>3, ListsTyped
  <2> QED
    BY <2>2, <2>3 DEF News
<1>2. budget' \in Budget
  BY <1>0, BrowserAssumption DEF News, Budget
<1>3. HandTyped'
  BY PruneTyped DEF News
<1>4. FlagsTyped'
  BY <1>0, Zenon DEF News, FlagsTyped, navVars, opVars
<1> QED
  BY <1>1, <1>2, <1>3, <1>4, KeptTypes, TypePartsNext DEF News, opVars

LEMMA BrowserTypes == BrowserTypeOK /\ [BrowserNext]_browserVars => BrowserTypeOK'
<1> SUFFICES ASSUME BrowserTypeOK, [BrowserNext]_browserVars PROVE BrowserTypeOK'
  OBVIOUS
<1>1. CASE UNCHANGED browserVars
  <2>1. FlagsTyped'
    <3>1. FlagsTyped
      BY TypeParts
    <3> QED
      BY <1>1, <3>1, Zenon DEF browserVars, FlagsTyped, navVars, opVars
  <2> QED
    BY <1>1, <2>1, KeptTypes, TypePartsNext DEF browserVars, opVars
<1> QED
  BY <1>1, SelectingTypes, CommandingTypes, OperatingTypes, DraggingTypes, NavigatingTypes,
     NewsTypes DEF BrowserNext

LEMMA BrowserStart == BrowserInit => BrowserInv
<1> SUFFICES ASSUME BrowserInit PROVE BrowserInv
  OBVIOUS
<1> USE DEF BrowserInit
<1>1. BrowserTypeOK
  <2>1. store \in Stores /\ NoOp \in Op
    <3>1. AtFirst \in Stores
      BY BrowserAssumption DEF AtFirst, Stores
    <3> QED
      BY <3>1, BrowserAssumption DEF NoOp, Op
  <2>2. NavTyped
    BY BrowserAssumption DEF NavTyped
  <2>3. HandTyped
    BY BrowserAssumption DEF HandTyped, NoDrag, Drag, Press
  <2>4. FlagsTyped
    BY Zenon DEF FlagsTyped
  <2>5. dialog \in Dialog /\ budget \in Budget
    BY BrowserAssumption DEF NoDialog, Dialog, Budget
  <2>6. ops \in [Slots -> Op]
    BY <2>1
  <2> QED
    BY <2>1, <2>2, <2>3, <2>4, <2>5, <2>6, TypeParts
<1>2. SelectionShown /\ PressFits
  BY DEF SelectionShown, PressFits
<1>3. ConfirmedOnce /\ OperatingFits
  BY DEF ConfirmedOnce, OperatingFits
<1> QED
  BY <1>1, <1>2, <1>3 DEF BrowserInv

(* The selection, where what is listed may have changed                    *)
Selected == SelectionShown /\ PressFits

LEMMA SelectedPruned ==
  ASSUME Prune \/ Deselect
  PROVE  Selected'
BY DEF Prune, Deselect, Selected, SelectionShown, PressFits

LEMMA SelectedKept ==
  ASSUME Selected, UNCHANGED <<store, here, selected, lapsed>>, press' \in {press, NoPress}
  PROVE  Selected'
BY DEF Selected, SelectionShown, PressFits, Children

LEMMA SelectedNext ==
  BrowserInv /\ [BrowserNext]_browserVars => Selected'
<1> SUFFICES ASSUME BrowserInv, [BrowserNext]_browserVars PROVE Selected'
  OBVIOUS
<1>0. BrowserTypeOK /\ Selected
  BY DEF BrowserInv, Selected
<1>c. UNCHANGED <<store, here>> => Children(here)' = Children(here)
  BY DEF Children
<1>1. CASE Selecting
  <2>1. UNCHANGED <<store, here, lapsed, press>>
    BY <1>1 DEF Selecting, Click, SelectAll, ClearSelection, navVars
  <2>2. press = NoPress
    BY <1>1 DEF Selecting, Click, SelectAll, ClearSelection, HandFree
  <2>3. selected' \subseteq Children(here) \cup {lapsed}
    <3>1. selected \subseteq Children(here) \cup {lapsed}
          /\ \A i, j : RowsBetween(i, j) \subseteq Children(here)
      BY <1>0, ChildrenTyped DEF Selected, SelectionShown
    <3>2. ASSUME NEW i \in Items, Click(i) PROVE selected' \subseteq Children(here) \cup {lapsed}
      BY <3>1, <3>2 DEF Click, RowShown, SelectOnly, Toggle, SelectRange
    <3> QED
      BY <1>1, <3>1, <3>2 DEF Selecting, SelectAll, ClearSelection, Deselect
  <2> QED
    BY <1>c, <2>1, <2>2, <2>3 DEF Selected, SelectionShown, PressFits
<1>2. CASE Commanding
  <2>1. ASSUME NEW i \in Items, RightClick(i) PROVE Selected'
    BY <1>0, <1>c, <2>1 DEF RightClick, ShowMenu, SelectOnly, RowShown, HandFree, navVars,
       Selected, SelectionShown, PressFits
  <2>2. ASSUME NEW i \in Items, Touch(i) PROVE Selected'
    BY <1>0, <1>c, <2>2 DEF Touch, RowShown, navVars, Selected, SelectionShown, PressFits
  <2>3. CASE LongPress
    <3>1. UNCHANGED <<store, here>> /\ press' = NoPress
      BY <2>3 DEF LongPress, navVars
    <3>2. selected' = selected \/ selected' = {press.item}
      BY <2>3 DEF LongPress, ShowMenu, SelectOnly
    <3> QED
      BY <1>0, <1>c, <2>3, <3>1, <3>2 DEF LongPress, Selected, SelectionShown, PressFits
  <2>4. CASE TouchEnds \/ HideMenu \/ Download \/ Downloaded \/ NewFolder
    BY <1>0, <2>4, SelectedKept
       DEF TouchEnds, HideMenu, Download, Downloaded, NewFolder, navVars, handVars
  <2>5. ASSUME NEW what, ChooseCommand(what) \/ ChooseBatch(what) PROVE Selected'
    BY <1>0, <2>5, SelectedKept DEF ChooseCommand, ChooseBatch, navVars
  <2> QED
    BY <1>2, <2>1, <2>2, <2>3, <2>4, <2>5 DEF Commanding
<1>3. CASE Operating
  <2>1. CASE Cancel
    BY <1>0, <2>1, SelectedKept DEF Cancel, navVars, handVars
  <2>2. ASSUME NEW to, Submit(to) PROVE Selected'
    BY <1>0, <2>2, SelectedKept DEF Submit, navVars, handVars
  <2>3. ASSUME NEW s \in Slots, Succeeds(s) PROVE Selected'
    BY <2>3, SelectedPruned DEF Succeeds
  <2>4. ASSUME NEW s \in Slots, Refused(s) PROVE Selected'
    BY <1>0, <2>4, SelectedKept DEF Refused, navVars, handVars
  <2> QED
    BY <1>3, <2>1, <2>2, <2>3, <2>4
       DEF Operating, ConfirmRename, ConfirmDelete, ConfirmCreate, ConfirmMove
<1>4. CASE Dragging
  BY <1>0, <1>4, SelectedKept DEF Dragging, DragStart, Drop, DropNowhere, navVars
<1>5. CASE Navigating
  BY <1>5, SelectedPruned DEF Navigating, GoUp, EnterFolder, Back, LoadEnds
<1>6. ASSUME NEW i \in Items, News(i) PROVE Selected'
  BY <1>6, SelectedPruned DEF News
<1>7. CASE UNCHANGED browserVars
  BY <1>0, <1>7, SelectedKept DEF browserVars, navVars, handVars
<1> QED
  BY <1>1, <1>2, <1>3, <1>4, <1>5, <1>6, <1>7 DEF BrowserNext

(* The operations under way, unless items were dropped during another one  *)
Once == ConfirmedOnce /\ OperatingFits

LEMMA OnceKept ==
  ASSUME Once, UNCHANGED <<ops, operating, rushed>>
  PROVE  Once'
BY DEF Once, ConfirmedOnce, OperatingFits

LEMMA OnceAsked ==
  ASSUME Once, NEW op, Ask(op), ops \in [Slots -> Op],
         rushed' \/ (~rushed /\ \A s \in Slots : ops[s] = NoOp)
  PROVE  Once'
BY DEF Once, Ask, ConfirmedOnce, OperatingFits

LEMMA OnceAnswered ==
  ASSUME Once, NEW s \in Slots, ops \in [Slots -> Op], ops[s] # NoOp, AnswerTo(s), rushed' = rushed
  PROVE  Once'
BY DEF Once, AnswerTo, ConfirmedOnce, OperatingFits

LEMMA OnceNext == BrowserInv /\ [BrowserNext]_browserVars => Once'
<1> SUFFICES ASSUME BrowserInv, [BrowserNext]_browserVars PROVE Once'
  OBVIOUS
<1>0. Once /\ ops \in [Slots -> Op] /\ FlagsTyped
  BY TypeParts DEF BrowserInv, Once
<1>1. CASE Selecting \/ Commanding
  <2>1. UNCHANGED <<ops, operating, rushed>>
    BY <1>1 DEF Selecting, Click, SelectAll, ClearSelection, Commanding, RightClick, Touch,
       TouchEnds, LongPress, HideMenu, Download, Downloaded, NewFolder, ChooseCommand, ChooseBatch,
       opVars
  <2> QED
    BY <1>0, <2>1, OnceKept
<1>2. CASE Cancel
  BY <1>0, <1>2, OnceKept DEF Cancel, opVars
<1>3. CASE ConfirmRename \/ ConfirmDelete \/ ConfirmCreate \/ ConfirmMove
  <2>1. PICK to : Submit(to) /\ ~Blocked /\ dialog.kind \notin Viewing
    BY <1>3 DEF ConfirmRename, ConfirmDelete, ConfirmCreate, ConfirmMove, Viewing
  <2>2. ~operating /\ rushed' = rushed /\ \E op : Ask(op)
    BY <2>1 DEF Submit, Blocked
  <2>3. rushed \/ \A s \in Slots : ops[s] = NoOp
    BY <1>0, <2>2 DEF Once, OperatingFits
  <2> QED
    BY <1>0, <2>2, <2>3, OnceAsked
<1>4. ASSUME NEW s \in Slots, Succeeds(s) \/ Refused(s) PROVE Once'
  <2>1. ops[s] # NoOp /\ AnswerTo(s) /\ rushed' = rushed
    BY <1>4 DEF Succeeds, Refused
  <2> QED
    BY <1>0, <2>1, OnceAnswered
<1>5. CASE Dragging
  <2>1. CASE \E i \in Items : DragStart(i)
    BY <1>0, <2>1, OnceKept DEF DragStart, opVars
  <2>2. ASSUME NEW f \in Dirs, Drop(f) PROVE Once'
    <3>1. \E op : Ask(op)
      BY <2>2 DEF Drop, DropOnFolder
    <3>2. rushed' \/ (~rushed /\ \A s \in Slots : ops[s] = NoOp)
      BY <2>2 DEF Drop
    <3> QED
      BY <1>0, <3>1, <3>2, OnceAsked
  <2>3. CASE DropNowhere
    BY <1>0, <2>3, OnceKept DEF DropNowhere, opVars
  <2> QED
    BY <1>5, <2>1, <2>2, <2>3 DEF Dragging
<1>6. CASE Navigating \/ \E i \in Items : News(i)
  <2>1. UNCHANGED <<ops, operating, rushed>>
    BY <1>6 DEF Navigating, GoUp, EnterFolder, Back, LoadEnds, News, opVars
  <2> QED
    BY <1>0, <2>1, OnceKept
<1>7. CASE UNCHANGED browserVars
  BY <1>0, <1>7, OnceKept DEF browserVars, opVars
<1> QED
  BY <1>1, <1>2, <1>3, <1>4, <1>5, <1>6, <1>7 DEF BrowserNext, Operating

(* What the browser's page, its selection and its operations fit together  *)
(* by holds however polls, loads and operations meet.                      *)
THEOREM BrowserInvariant == BrowserSpec => []BrowserInv
<1>1. BrowserInv /\ [BrowserNext]_browserVars => BrowserInv'
  BY BrowserTypes, SelectedNext, OnceNext DEF BrowserInv, Selected, Once
<1> QED
  BY <1>1, BrowserStart, PTL DEF BrowserSpec

(* What is selected is shown: whatever relists the folder in view prunes   *)
(* the selection, or a press that lapsed accounts for the row.             *)
THEOREM SelectionStaysShown == BrowserSpec => []SelectionShown
<1>1. BrowserInv => SelectionShown
  BY DEF BrowserInv
<1> QED
  BY <1>1, BrowserInvariant, PTL

(* A dialog asks its operation once: until it is over isOperating holds.   *)
THEOREM AskedOnce == BrowserSpec => []ConfirmedOnce
<1>1. BrowserInv => ConfirmedOnce
  BY DEF BrowserInv
<1> QED
  BY <1>1, BrowserInvariant, PTL

-----------------------------------------------------------------------------
(* The factors                                                             *)

Key == Factor \cup {NoKey}
Kit == [status : {"out", "in", "required"}, view : SUBSET Factor, base : Nat, active : Key]
Status == [enabled : BOOLEAN, count : Nat]
Wizard == [step : 1..3, loading : BOOLEAN, error : BOOLEAN, partial : BOOLEAN, phrase : Key]
Section == [active : BOOLEAN, busy : BOOLEAN, phrase : Key]
List == [devices : SUBSET Factor, revoking : Key]
Job == [name : {"none", "enable", "regenerate", "revoke", "recover"},
        at : {"none", "settle", "enable", "commit", "delete", "create", "input", "keep"},
        browser : Browsers \cup {NoBrowser}, key : Key, heard : BOOLEAN]

KitTyped ==
    /\ committed \subseteq Factor /\ version \in Nat
    /\ kind \in [Factor -> {"none", "hashed", "device", "seed"}]
    /\ kit \in [Browsers -> Kit] /\ device \in [Browsers -> Key]
PageTyped ==
    /\ mfa \in [Browsers -> Status]
    /\ page \in [Browsers -> {"login", "recovery", "files", "security", "wizard"}]
    /\ wizard \in [Browsers -> Wizard] /\ section \in [Browsers -> Section]
    /\ list \in [Browsers -> List]
UserTyped == noted \in Key /\ renewed \subseteq Factor /\ revoked \subseteq Factor /\ asks \in Nat

LEMMA FactorsParts ==
  FactorsTypeOK <=> KitTyped /\ PageTyped /\ jobs \in [Places -> Job] /\ UserTyped
BY DEF FactorsTypeOK, KitTyped, PageTyped, UserTyped, Key, Kit, Status, Wizard, Section, List, Job

LEMMA FactorsPartsNext ==
  (FactorsTypeOK <=> KitTyped /\ PageTyped /\ jobs \in [Places -> Job] /\ UserTyped)'
BY FactorsParts, PTL

LEMMA FactorsKept ==
  ASSUME FactorsTypeOK
  PROVE  /\ UNCHANGED kitVars => KitTyped'
         /\ UNCHANGED pageVars => PageTyped'
         /\ UNCHANGED jobs => (jobs \in [Places -> Job])'
         /\ UNCHANGED userVars => UserTyped'
BY FactorsParts DEF kitVars, pageVars, userVars, KitTyped, PageTyped, UserTyped

(* A set of factors has a size                                             *)
LEMMA ViewCounted ==
  ASSUME NEW view \in SUBSET Factor
  PROVE  IsFiniteSet(view) /\ Cardinality(view) \in Nat
<1>1. IsFiniteSet(Factor)
  <2>1. IsFiniteSet(Keys)
    BY FactorsAssumption, FS_Interval DEF Keys
  <2> QED
    BY <2>1, FS_Singleton, FS_Union DEF Factor
<1> QED
  BY <1>1, FS_Subset, FS_CardinalityType

(* What an answer gives of the records the pages keep                      *)
LEMMA StatusTyped ==
  ASSUME NEW view \in SUBSET Factor
  PROVE  StatusOf(view) \in Status
<1>1. Cardinality(view) \in Nat
  BY ViewCounted
<1>2. (Cardinality(view) >= 2) \in BOOLEAN
  OBVIOUS
<1> QED
  BY <1>1, <1>2 DEF StatusOf, Status

LEMMA NewTyped ==
  /\ NewWizard \in Wizard /\ Disabled \in Status /\ Out \in Kit /\ NoCall \in Job
  /\ \A active \in BOOLEAN : [NewSection EXCEPT !.active = active] \in Section
  /\ NewSection \in Section /\ NewList \in List
  /\ \A devices \in SUBSET Factor : [NewList EXCEPT !.devices = devices] \in List
<1> USE DEF Key
<1>1. NewWizard \in Wizard /\ Disabled \in Status /\ Out \in Kit /\ NoCall \in Job
  BY DEF NewWizard, Wizard, Disabled, Status, Out, Kit, NoCall, Job
<1>2. \A active \in BOOLEAN : [NewSection EXCEPT !.active = active] \in Section
  BY DEF NewSection, Section
<1>3. NewSection \in Section /\ NewList \in List
  BY DEF NewSection, Section, NewList, List
<1>4. \A devices \in SUBSET Factor : [NewList EXCEPT !.devices = devices] \in List
  BY DEF NewList, List
<1> QED
  BY <1>1, <1>2, <1>3, <1>4

LEMMA WizardEdits ==
  ASSUME NEW w \in Wizard
  PROVE  /\ \A step \in {1, 2, 3}, busy \in BOOLEAN, error \in BOOLEAN, partial \in BOOLEAN :
               [w EXCEPT !.step = step, !.loading = busy, !.error = error, !.partial = partial]
                 \in Wizard
         /\ \A step \in {1, 2, 3} : /\ [w EXCEPT !.step = step] \in Wizard
                               /\ [w EXCEPT !.step = step, !.phrase = NoKey] \in Wizard
                               /\ \A busy \in BOOLEAN, error \in BOOLEAN :
                                     [w EXCEPT !.step = step, !.loading = busy, !.error = error]
                                       \in Wizard
         /\ \A partial \in BOOLEAN :
               [w EXCEPT !.loading = FALSE, !.error = TRUE, !.partial = partial] \in Wizard
         /\ \A key \in Key : [w EXCEPT !.phrase = key, !.loading = FALSE] \in Wizard
<1>1. {1, 2, 3} \subseteq 1..3
  OBVIOUS
<1> QED
  BY <1>1 DEF Wizard, Key

LEMMA SectionEdits ==
  ASSUME NEW w \in Section
  PROVE  /\ \A busy \in BOOLEAN : [w EXCEPT !.busy = busy] \in Section
         /\ [w EXCEPT !.phrase = NoKey] \in Section
         /\ \A key \in Key : [w EXCEPT !.phrase = key, !.busy = FALSE] \in Section
BY DEF Section, Key

LEMMA KitEdits ==
  ASSUME NEW w \in Kit
  PROVE  /\ \A view \in SUBSET Factor : /\ [w EXCEPT !.view = view] \in Kit
                                        /\ \A f \in Key : [w EXCEPT !.view = view, !.active = f] \in Kit
         /\ \A n \in Nat : [w EXCEPT !.base = n] \in Kit
         /\ \A f \in Key : [w EXCEPT !.status = "in", !.active = f] \in Kit
BY DEF Kit

LEMMA JobEdits ==
  ASSUME NEW job \in Job
  PROVE  /\ \A at \in {"settle", "enable", "commit", "delete", "create", "input", "keep"},
               k \in Key :
               [job EXCEPT !.at = at, !.key = k] \in Job
         /\ [job EXCEPT !.heard = FALSE] \in Job
BY DEF Job

(* What Core Kit's operations do to the types                              *)
LEMMA KitOperationsTyped ==
  ASSUME KitTyped, NEW b \in Browsers,
         \/ \E k, what : Creates(b, k, what) /\ what \in {"device", "seed"}
         \/ \E f : Deletes(b, f)
         \/ Commits(b) \/ CommitFails(b)
         \/ \E d, k \in Keys : EnablesMFA(b, d, k)
  PROVE  KitTyped'
<1>0. kit[b] \in Kit /\ kit[b].view \in SUBSET Factor /\ kit[b].base \in Nat
  BY DEF KitTyped, Kit
<1>k. Keys \subseteq Factor /\ Keys \subseteq Key
  BY DEF Factor, Key
<1>1. ASSUME NEW k, NEW what \in {"device", "seed"}, Creates(b, k, what) PROVE KitTyped'
  <2>1. k \in Factor /\ kit[b].view \cup {k} \in SUBSET Factor
    BY <1>0, <1>1 DEF Creates, NextKey, Factor
  <2>2. [kit[b] EXCEPT !.view = kit[b].view \cup {k}] \in Kit
    BY <1>0, <2>1, KitEdits
  <2> QED
    BY <1>1, <2>1, <2>2 DEF Creates, KitTyped
<1>2. ASSUME NEW f, Deletes(b, f) PROVE KitTyped'
  <2>1. [kit[b] EXCEPT !.view = kit[b].view \ {f}] \in Kit
    BY <1>0, KitEdits
  <2> QED
    BY <1>2, <2>1 DEF Deletes, KitTyped
<1>3. CASE Commits(b)
  <2>1. version' \in Nat
    BY <1>3 DEF Commits, KitTyped
  <2>2. [kit[b] EXCEPT !.base = version'] \in Kit
    BY <1>0, <2>1, KitEdits
  <2> QED
    BY <1>0, <1>3, <2>1, <2>2 DEF Commits, KitTyped
<1>4. CASE CommitFails(b)
  BY <1>0, <1>4 DEF CommitFails, KitTyped, kitVars
<1>5. ASSUME NEW d \in Keys, NEW k \in Keys, EnablesMFA(b, d, k) PROVE KitTyped'
  <2>1. (kit[b].view \ {Hashed}) \cup {d, k} \in SUBSET Factor /\ d \in Key
    BY <1>0, <1>k
  <2>2. [kit[b] EXCEPT !.view = (kit[b].view \ {Hashed}) \cup {d, k}, !.active = d] \in Kit
    BY <1>0, <2>1, KitEdits
  <2> QED
    BY <1>5, <1>k, <2>2 DEF EnablesMFA, KitTyped
<1> QED
  BY <1>1, <1>2, <1>3, <1>4, <1>5

LEMMA EnteredTyped ==
  ASSUME KitTyped, NEW b \in Browsers
  PROVE  Entered(b) \in Kit /\ \A f \in Key : EnteredWith(f) \in Kit
<1>1. \A f \in Key : EnteredWith(f) \in Kit
  BY DEF EnteredWith, Kit, KitTyped
<1>2. Entered(b) \in {EnteredWith(Hashed), EnteredWith(device[b]),
                      [EnteredWith(NoKey) EXCEPT !.status = "required"]}
  BY DEF Entered
<1>3. Hashed \in Key /\ NoKey \in Key /\ device[b] \in Key
  BY DEF Key, Factor, KitTyped
<1>4. [EnteredWith(NoKey) EXCEPT !.status = "required"] \in Kit
  BY <1>1, <1>3 DEF Kit
<1> QED
  BY <1>1, <1>2, <1>3, <1>4

LEMMA JobsTyped ==
  ASSUME jobs \in [Places -> Job]
  PROVE  /\ \A b \in Browsers, key \in Key :
               /\ Asks(b, "enable", "settle", key) \/ Asks(b, "regenerate", "create", key)
                  \/ Asks(b, "regenerate", "delete", key) \/ Asks(b, "revoke", "delete", key)
                  \/ Asks(b, "recover", "input", key)
                  => jobs' \in [Places -> Job]
         /\ \A s \in Places, key \in Key,
               at \in {"settle", "enable", "commit", "delete", "create", "input", "keep"} :
               GoesOn(s, at, key) => jobs' \in [Places -> Job]
         /\ \A s \in Places : Ends(s) => jobs' \in [Places -> Job]
         /\ \A b : Dropped(b) => jobs' \in [Places -> Job]
         /\ \A b : Unheard(b) \in [Places -> Job]
<1>1. ASSUME NEW b \in Browsers, NEW key \in Key,
             NEW name \in {"enable", "regenerate", "revoke", "recover"},
             NEW at \in {"settle", "create", "delete", "input"}, Asks(b, name, at, key)
      PROVE  jobs' \in [Places -> Job]
  <2>1. [name |-> name, at |-> at, browser |-> b, key |-> key, heard |-> TRUE] \in Job
    BY DEF Job
  <2> QED
    BY <1>1, <2>1 DEF Asks
<1>2. ASSUME NEW s \in Places, NEW key \in Key,
             NEW at \in {"settle", "enable", "commit", "delete", "create", "input", "keep"},
             GoesOn(s, at, key)
      PROVE  jobs' \in [Places -> Job]
  <2>1. [jobs[s] EXCEPT !.at = at, !.key = key] \in Job
    BY JobEdits
  <2> QED
    BY <1>2, <2>1 DEF GoesOn
<1>3. NoCall \in Job
  BY NewTyped
<1>4. ASSUME NEW b PROVE Unheard(b) \in [Places -> Job]
  BY JobEdits DEF Unheard
<1> QED
  BY <1>1, <1>2, <1>3, <1>4 DEF Ends, Dropped

LEMMA PagesTyped ==
  ASSUME FactorsTypeOK, NEW b \in Browsers
  PROVE  /\ Checked(b) \in Status
         /\ Prompted(b) => mfa' \in [Browsers -> Status]
         /\ Unmounted(b) => /\ wizard' \in [Browsers -> Wizard] /\ section' \in [Browsers -> Section]
                            /\ list' \in [Browsers -> List]
         /\ Sections(b) => section' \in [Browsers -> Section] /\ list' \in [Browsers -> List]
         /\ Mounts(b) => section' \in [Browsers -> Section] /\ list' \in [Browsers -> List]
         /\ \A heard : EnableFailed(b, heard) =>
               mfa' \in [Browsers -> Status] /\ wizard' \in [Browsers -> Wizard]
<1>0. PageTyped /\ kit[b].view \in SUBSET Factor /\ committed \in SUBSET Factor
  BY FactorsParts DEF KitTyped, Kit
<1>1. Checked(b) \in Status /\ StatusOf(committed) \in Status
  BY <1>0, StatusTyped DEF Checked
<1>2. Prompted(b) => mfa' \in [Browsers -> Status]
  BY <1>0, <1>1 DEF Prompted, PageTyped
<1>3. Unmounted(b) => /\ wizard' \in [Browsers -> Wizard] /\ section' \in [Browsers -> Section]
                      /\ list' \in [Browsers -> List]
  BY <1>0, NewTyped DEF Unmounted, PageTyped
<1>4. Sections(b) => section' \in [Browsers -> Section] /\ list' \in [Browsers -> List]
  <2>1. DeviceFactors(b) \in SUBSET Factor
    BY <1>0 DEF DeviceFactors, FactorsOf
  <2>2. HasRecoveryFactor(b) \in BOOLEAN
    BY DEF HasRecoveryFactor
  <2>3. /\ [NewList EXCEPT !.devices = DeviceFactors(b)] \in List
        /\ [NewSection EXCEPT !.active = HasRecoveryFactor(b)] \in Section
    BY <2>1, <2>2, NewTyped
  <2> QED
    BY <1>0, <2>3 DEF Sections, PageTyped
<1>5. ASSUME NEW heard, EnableFailed(b, heard)
      PROVE  mfa' \in [Browsers -> Status] /\ wizard' \in [Browsers -> Wizard]
  <2>1. mfa' \in [Browsers -> Status]
    BY <1>0, <1>1, <1>5 DEF EnableFailed, PageTyped
  <2>2. (wizard[b].partial \/ Checked(b).enabled) \in BOOLEAN /\ wizard[b] \in Wizard
    BY <1>0 DEF PageTyped
  <2>3. [wizard[b] EXCEPT !.loading = FALSE, !.error = TRUE,
                          !.partial = wizard[b].partial \/ Checked(b).enabled] \in Wizard
    BY <2>2, WizardEdits
  <2>4. wizard' \in [Browsers -> Wizard]
    BY <1>0, <1>5, <2>3 DEF EnableFailed, PageTyped
  <2> QED
    BY <2>1, <2>4
<1>6. Mounts(b) => section' \in [Browsers -> Section] /\ list' \in [Browsers -> List]
  BY <1>0, <1>4 DEF Mounts, PageTyped
<1> QED
  BY <1>1, <1>2, <1>3, <1>4, <1>5, <1>6

(* Coming and going *)
LEMMA ComingTypes ==
  ASSUME FactorsTypeOK, NEW b \in Browsers,
         Login(b) \/ ReloadPage(b) \/ Leave(b) \/ OpenTab(b) \/ LeaveTab(b)
  PROVE  FactorsTypeOK'
<1>0. KitTyped /\ PageTyped /\ jobs \in [Places -> Job] /\ UserTyped
  BY FactorsParts
<1>t. ASSUME KitTyped', PageTyped', jobs' \in [Places -> Job], UNCHANGED userVars
      PROVE  FactorsTypeOK'
  BY <1>t, FactorsKept, FactorsPartsNext
<1>p. \A p \in {"login", "recovery", "files", "security", "wizard"} :
         [page EXCEPT ![b] = p]
           \in [Browsers -> {"login", "recovery", "files", "security", "wizard"}]
  BY <1>0 DEF PageTyped
<1>1. CASE Login(b)
  <2>1. KitTyped'
    BY <1>0, <1>1, EnteredTyped DEF Login, KitTyped
  <2>2. mfa' \in [Browsers -> Status]
    BY <1>0, <1>1, PagesTyped DEF Login, PageTyped
  <2>3. page' \in [Browsers -> {"login", "recovery", "files", "security", "wizard"}]
    BY <1>1, <1>p DEF Login
  <2> QED
    BY <1>0, <1>1, <1>t, <2>1, <2>2, <2>3 DEF Login, PageTyped
<1>2. CASE ReloadPage(b)
  <2>1. KitTyped'
    <3>1. kit[b].active \in Key
      BY <1>0 DEF KitTyped, Kit
    <3> QED
      BY <1>0, <1>2, <3>1, EnteredTyped DEF ReloadPage, KitTyped
  <2>2. PageTyped'
    BY <1>0, <1>2, <1>p, PagesTyped DEF ReloadPage, PageTyped
  <2> QED
    BY <1>0, <1>2, <1>t, <2>1, <2>2, JobsTyped DEF ReloadPage
<1>3. CASE Leave(b)
  <2>1. KitTyped'
    BY <1>0, <1>3, NewTyped DEF Leave, KitTyped
  <2>2. PageTyped'
    <3>1. mfa' \in [Browsers -> Status]
      BY <1>0, <1>3, NewTyped DEF Leave, PageTyped
    <3> QED
      BY <1>0, <1>3, <1>p, <3>1, PagesTyped DEF Leave, PageTyped
  <2> QED
    BY <1>0, <1>3, <1>t, <2>1, <2>2, JobsTyped DEF Leave
<1>4. CASE OpenTab(b)
  <2>1. PageTyped'
    <3>1. mfa' \in [Browsers -> Status]
      BY <1>0, <1>4, PagesTyped DEF OpenTab, PageTyped
    <3> QED
      BY <1>0, <1>4, <1>p, <3>1, PagesTyped DEF OpenTab, PageTyped
  <2> QED
    BY <1>0, <1>4, <1>t, <2>1, FactorsKept DEF OpenTab
<1>5. CASE LeaveTab(b)
  <2>1. PageTyped'
    BY <1>0, <1>5, <1>p, PagesTyped DEF LeaveTab, PageTyped
  <2> QED
    BY <1>0, <1>5, <1>t, <2>1, FactorsKept, JobsTyped DEF LeaveTab
<1> QED
  BY <1>1, <1>2, <1>3, <1>4, <1>5

(* The wizard *)
LEMMA EnableTyped ==
  ASSUME FactorsTypeOK, NEW b \in Browsers, Enable(b, 2)
  PROVE  /\ mfa' \in [Browsers -> Status] /\ wizard' \in [Browsers -> Wizard]
         /\ jobs' \in [Places -> Job] /\ asks' \in Nat
<1>0. PageTyped /\ jobs \in [Places -> Job] /\ UserTyped /\ wizard[b] \in Wizard /\ NoKey \in Key
  BY FactorsParts DEF PageTyped, Key
<1>1. CASE ~mfa[b].enabled /\ Asks(b, "enable", "settle", NoKey) /\ UNCHANGED mfa
           /\ wizard' = [wizard EXCEPT ![b] = [@ EXCEPT !.step = 2, !.loading = TRUE, !.error = FALSE]]
  <2>1. [wizard[b] EXCEPT !.step = 2, !.loading = TRUE, !.error = FALSE] \in Wizard
    BY <1>0, WizardEdits
  <2>2. asks' \in Nat
    BY <1>0, <1>1 DEF Asks, UserTyped
  <2>3. wizard' \in [Browsers -> Wizard]
    BY <1>0, <1>1, <2>1 DEF PageTyped
  <2> QED
    BY <1>0, <1>1, <2>2, <2>3, JobsTyped DEF PageTyped
<1>2. CASE /\ mfa' = [mfa EXCEPT ![b] = Checked(b)]
           /\ wizard' = [wizard EXCEPT ![b] = [@ EXCEPT !.step = 2, !.loading = FALSE, !.error = TRUE,
                                     !.partial = wizard[b].partial \/ Checked(b).enabled]]
           /\ UNCHANGED <<jobs, asks>>
  <2>1. (wizard[b].partial \/ Checked(b).enabled) \in BOOLEAN
    OBVIOUS
  <2>2. [wizard[b] EXCEPT !.step = 2, !.loading = FALSE, !.error = TRUE,
                          !.partial = wizard[b].partial \/ Checked(b).enabled] \in Wizard
    BY <1>0, <2>1, WizardEdits
  <2>3. wizard' \in [Browsers -> Wizard]
    BY <1>0, <1>2, <2>2 DEF PageTyped
  <2> QED
    BY <1>0, <1>2, <2>3, PagesTyped DEF PageTyped, UserTyped
<1> QED
  BY <1>1, <1>2 DEF Enable

LEMMA WizardTypes ==
  ASSUME FactorsTypeOK, NEW b \in Browsers,
         OpenWizard(b) \/ GoToStep2(b) \/ Retry(b) \/ GoBackToStep1(b) \/ GoToStep3(b)
         \/ CancelWizard(b) \/ CompleteWizard(b)
  PROVE  FactorsTypeOK'
<1>0. /\ KitTyped /\ PageTyped /\ jobs \in [Places -> Job] /\ UserTyped
      /\ wizard[b] \in Wizard
  BY FactorsParts DEF PageTyped
<1>t. ASSUME PageTyped', jobs' \in [Places -> Job], UserTyped', UNCHANGED kitVars
      PROVE  FactorsTypeOK'
  BY <1>t, FactorsKept, FactorsPartsNext
<1>p. \A p \in {"login", "recovery", "files", "security", "wizard"} :
         [page EXCEPT ![b] = p]
           \in [Browsers -> {"login", "recovery", "files", "security", "wizard"}]
  BY <1>0 DEF PageTyped
<1>1. CASE OpenWizard(b)
  BY <1>0, <1>1, <1>p, <1>t DEF OpenWizard, PageTyped, UserTyped, userVars
<1>2. CASE GoToStep2(b) \/ Retry(b)
  <2>1. UNCHANGED <<kitVars, page, section, list, noted, renewed, revoked>>
    BY <1>2 DEF GoToStep2, Retry
  <2>2. CASE Enable(b, 2)
    BY <1>0, <1>t, <2>1, <2>2, EnableTyped DEF PageTyped, UserTyped
  <2>3. CASE wizard' = [wizard EXCEPT ![b].step = 2] /\ UNCHANGED <<mfa, jobs, asks>>
    <3>1. [wizard[b] EXCEPT !.step = 2] \in Wizard
      BY <1>0, WizardEdits
    <3>2. wizard' \in [Browsers -> Wizard]
      BY <1>0, <2>3, <3>1 DEF PageTyped
    <3> QED
      BY <1>0, <1>t, <2>1, <2>3, <3>2 DEF PageTyped, UserTyped
  <2> QED
    BY <1>2, <2>2, <2>3 DEF GoToStep2, Retry
<1>3. CASE GoBackToStep1(b)
  <2>1. [wizard[b] EXCEPT !.step = 1] \in Wizard
    BY <1>0, WizardEdits
  <2>2. wizard' \in [Browsers -> Wizard]
    BY <1>0, <1>3, <2>1 DEF GoBackToStep1, PageTyped
  <2> QED
    BY <1>0, <1>3, <1>t, <2>2 DEF GoBackToStep1, PageTyped, UserTyped, userVars
<1>4. CASE GoToStep3(b)
  <2>1. [wizard[b] EXCEPT !.step = 3, !.phrase = NoKey] \in Wizard
    BY <1>0, WizardEdits
  <2>2. wizard' \in [Browsers -> Wizard]
    BY <1>0, <1>4, <2>1 DEF GoToStep3, PageTyped
  <2>3. noted' \in Key
    BY <1>0, <1>4 DEF GoToStep3, Wizard
  <2> QED
    BY <1>0, <1>4, <1>t, <2>2, <2>3 DEF GoToStep3, PageTyped, UserTyped
<1>5. CASE CancelWizard(b) \/ CompleteWizard(b)
  <2>1. CloseWizard(b) /\ mfa' \in [Browsers -> Status]
    BY <1>0, <1>5, PagesTyped DEF CancelWizard, CompleteWizard, PageTyped
  <2>2. jobs' \in [Places -> Job]
    BY <1>0, <2>1, JobsTyped DEF CloseWizard
  <2>3. wizard' \in [Browsers -> Wizard] /\ UserTyped'
    BY <1>0, <2>1, NewTyped DEF CloseWizard, PageTyped, UserTyped, userVars
  <2> QED
    BY <1>p, <1>t, <2>1, <2>2, <2>3, PagesTyped DEF CloseWizard, PageTyped
<1> QED
  BY <1>1, <1>2, <1>3, <1>4, <1>5

(* The sections and the page of the login *)
LEMMA SectionTypes ==
  ASSUME FactorsTypeOK, NEW b \in Browsers,
         Regenerate(b) \/ DismissPhrase(b) \/ (\E f \in Keys : Revoke(b, f)) \/ Recover(b)
  PROVE  FactorsTypeOK'
<1>0. /\ KitTyped /\ PageTyped /\ jobs \in [Places -> Job] /\ UserTyped
      /\ section[b] \in Section /\ list[b] \in List /\ NoKey \in Key /\ Keys \subseteq Factor
      /\ Factor \subseteq Key
  BY FactorsParts DEF PageTyped, Key, Factor
<1>t. ASSUME PageTyped', jobs' \in [Places -> Job], UserTyped', UNCHANGED kitVars
      PROVE  FactorsTypeOK'
  BY <1>t, FactorsKept, FactorsPartsNext
<1>a. \A name, at, key : Asks(b, name, at, key) => asks' \in Nat
  BY <1>0 DEF Asks, UserTyped
<1>1. CASE Regenerate(b)
  <2>1. [section[b] EXCEPT !.busy = TRUE] \in Section
    BY <1>0, SectionEdits
  <2>2. section' \in [Browsers -> Section]
    BY <1>0, <1>1, <2>1 DEF Regenerate, PageTyped
  <2>3. RecoveryFactor(b) \subseteq Key
    BY <1>0 DEF RecoveryFactor, FactorsOf, KitTyped, Kit
  <2>4. jobs' \in [Places -> Job] /\ asks' \in Nat
    BY <1>0, <1>1, <1>a, <2>3, JobsTyped DEF Regenerate
  <2> QED
    BY <1>0, <1>1, <1>t, <2>2, <2>4 DEF Regenerate, PageTyped, UserTyped
<1>2. CASE DismissPhrase(b)
  <2>1. [section[b] EXCEPT !.phrase = NoKey] \in Section
    BY <1>0, SectionEdits
  <2>2. section' \in [Browsers -> Section]
    BY <1>0, <1>2, <2>1 DEF DismissPhrase, PageTyped
  <2>3. noted' \in Key
    BY <1>0, <1>2 DEF DismissPhrase, Section
  <2> QED
    BY <1>0, <1>2, <1>t, <2>2, <2>3 DEF DismissPhrase, PageTyped, UserTyped
<1>3. ASSUME NEW f \in Keys, Revoke(b, f) PROVE FactorsTypeOK'
  <2>1. [list[b] EXCEPT !.revoking = f] \in List
    BY <1>0 DEF List
  <2>2. list' \in [Browsers -> List]
    BY <1>0, <1>3, <2>1 DEF Revoke, PageTyped
  <2>3. jobs' \in [Places -> Job] /\ asks' \in Nat
    BY <1>0, <1>3, <1>a, JobsTyped DEF Revoke
  <2> QED
    BY <1>0, <1>3, <1>t, <2>2, <2>3 DEF Revoke, PageTyped, UserTyped
<1>4. CASE Recover(b)
  <2>1. jobs' \in [Places -> Job] /\ asks' \in Nat
    BY <1>0, <1>4, <1>a, JobsTyped DEF Recover, UserTyped
  <2> QED
    BY <1>0, <1>4, <1>t, <2>1 DEF Recover, pageVars, PageTyped, UserTyped
<1> QED
  BY <1>1, <1>2, <1>3, <1>4

(* The calls *)
LEMMA StepTypes == ASSUME FactorsTypeOK, NEW s \in Places, Step(s), jobs[s].browser \in Browsers
                   PROVE  FactorsTypeOK'
<1> DEFINE b == jobs[s].browser
<1>0. /\ KitTyped /\ PageTyped /\ jobs \in [Places -> Job] /\ UserTyped /\ b \in Browsers
      /\ section[b] \in Section /\ list[b] \in List /\ wizard[b] \in Wizard
      /\ jobs[s].key \in Key /\ NoKey \in Key /\ Keys \subseteq Key
  BY FactorsParts DEF PageTyped, Key, Factor, Job
<1>t. ASSUME KitTyped', PageTyped', jobs' \in [Places -> Job], UNCHANGED userVars
      PROVE  FactorsTypeOK'
  BY <1>t, FactorsKept, FactorsPartsNext
<1>k. /\ (\E k, what : Creates(b, k, what) /\ what \in {"device", "seed"}) => KitTyped'
      /\ (\E f : Deletes(b, f)) => KitTyped'
      /\ Commits(b) \/ CommitFails(b) => KitTyped'
      /\ (\E d, k \in Keys : EnablesMFA(b, d, k)) => KitTyped'
      /\ Throws => KitTyped'
  BY <1>0, KitOperationsTyped, FactorsKept DEF Throws
<1>j. /\ \A at \in {"settle", "enable", "commit", "delete", "create", "input", "keep"},
            key \in Key :
            GoesOn(s, at, key) => jobs' \in [Places -> Job]
      /\ Ends(s) => jobs' \in [Places -> Job]
  BY <1>0, JobsTyped
<1>c. Checked(b) \in Status
  BY <1>0, PagesTyped
<1>w. \A heard : EnableFailed(b, heard) =>
               mfa' \in [Browsers -> Status] /\ wizard' \in [Browsers -> Wizard]
  BY <1>0, PagesTyped
<1>m. Mounts(b) => section' \in [Browsers -> Section] /\ list' \in [Browsers -> List]
  BY <1>0, PagesTyped
<1>e. /\ [section EXCEPT ![b] = [section[b] EXCEPT !.phrase = jobs[s].key, !.busy = FALSE]]
           \in [Browsers -> Section]
      /\ [section EXCEPT ![b].busy = FALSE] \in [Browsers -> Section]
  <2>1. /\ [section[b] EXCEPT !.phrase = jobs[s].key, !.busy = FALSE] \in Section
        /\ [section[b] EXCEPT !.busy = FALSE] \in Section
    BY <1>0, SectionEdits
  <2> QED
    BY <1>0, <2>1 DEF PageTyped
<1>l. [list EXCEPT ![b].revoking = NoKey] \in [Browsers -> List]
  <2>1. [list[b] EXCEPT !.revoking = NoKey] \in List
    BY <1>0 DEF List
  <2> QED
    BY <1>0, <2>1 DEF PageTyped
<1>p. \A p \in {"login", "recovery", "files", "security", "wizard"} :
         [page EXCEPT ![b] = p]
           \in [Browsers -> {"login", "recovery", "files", "security", "wizard"}]
  BY <1>0 DEF PageTyped
<1> HIDE DEF b
<1>1. CASE Settle(s)
  <2>1. KitTyped' /\ jobs' \in [Places -> Job]
    BY <1>0, <1>1, <1>j, <1>k DEF Settle, b
  <2>2. mfa' \in [Browsers -> Status] /\ wizard' \in [Browsers -> Wizard]
    BY <1>0, <1>1, <1>w DEF Settle, PageTyped, b
  <2>3. section' \in [Browsers -> Section] /\ list' \in [Browsers -> List]
    BY <1>1, <1>m DEF Settle, b
  <2> QED
    BY <1>0, <1>1, <1>t, <2>1, <2>2, <2>3 DEF Settle, PageTyped
<1>2. CASE EnableMFA(s)
  <2>1. KitTyped' /\ jobs' \in [Places -> Job]
    BY <1>0, <1>2, <1>j, <1>k DEF EnableMFA, b
  <2>2. mfa' \in [Browsers -> Status] /\ wizard' \in [Browsers -> Wizard]
    BY <1>0, <1>2, <1>w DEF EnableMFA, PageTyped, b
  <2>3. section' \in [Browsers -> Section] /\ list' \in [Browsers -> List]
    BY <1>2, <1>m DEF EnableMFA, b
  <2> QED
    BY <1>0, <1>2, <1>t, <2>1, <2>2, <2>3 DEF EnableMFA, PageTyped
<1>3. CASE CommitMFA(s)
  <2>1. KitTyped' /\ jobs' \in [Places -> Job]
    BY <1>0, <1>3, <1>j, <1>k DEF CommitMFA, b
  <2>2. mfa' \in [Browsers -> Status] /\ wizard' \in [Browsers -> Wizard]
    <3>1. CASE EnableFailed(b, jobs[s].heard)
      BY <1>w, <3>1
    <3>2. CASE /\ mfa' = [mfa EXCEPT ![b] = [enabled |-> TRUE, count |-> Cardinality(kit[b].view)]]
               /\ wizard' = IF ~jobs[s].heard THEN wizard
                            ELSE [wizard EXCEPT ![b] = [wizard[b] EXCEPT !.phrase = jobs[s].key,
                                                                 !.loading = FALSE]]
      <4>1. [wizard[b] EXCEPT !.phrase = jobs[s].key, !.loading = FALSE] \in Wizard
        BY <1>0, WizardEdits
      <4>2. [enabled |-> TRUE, count |-> Cardinality(kit[b].view)] \in Status
        <5>1. kit[b].view \in SUBSET Factor
          BY <1>0 DEF KitTyped, Kit
        <5> QED
          BY <5>1, ViewCounted DEF Status
      <4> QED
        BY <1>0, <3>2, <4>1, <4>2 DEF PageTyped
    <3> QED
      BY <1>3, <3>1, <3>2 DEF CommitMFA, b
  <2>3. section' \in [Browsers -> Section] /\ list' \in [Browsers -> List]
    BY <1>3, <1>m DEF CommitMFA, b
  <2> QED
    BY <1>0, <1>3, <1>t, <2>1, <2>2, <2>3 DEF CommitMFA, PageTyped
<1>4. CASE DeleteRecovery(s)
  <2>1. KitTyped' /\ jobs' \in [Places -> Job]
    BY <1>0, <1>4, <1>j, <1>k DEF DeleteRecovery, b
  <2>2. section' \in [Browsers -> Section]
    BY <1>0, <1>4, <1>e DEF DeleteRecovery, RegenerateFailed, PageTyped, b
  <2> QED
    BY <1>0, <1>4, <1>t, <2>1, <2>2 DEF DeleteRecovery, PageTyped
<1>5. CASE CreateRecovery(s)
  <2>1. KitTyped' /\ jobs' \in [Places -> Job]
    BY <1>0, <1>5, <1>j, <1>k DEF CreateRecovery, b
  <2>2. section' \in [Browsers -> Section]
    BY <1>0, <1>5, <1>e DEF CreateRecovery, RegenerateFailed, PageTyped, b
  <2> QED
    BY <1>0, <1>5, <1>t, <2>1, <2>2 DEF CreateRecovery, PageTyped
<1>6. CASE CommitRecovery(s)
  <2>1. KitTyped' /\ jobs' \in [Places -> Job]
    BY <1>0, <1>6, <1>j, <1>k DEF CommitRecovery, b
  <2>2. section' \in [Browsers -> Section]
    BY <1>0, <1>6, <1>e DEF CommitRecovery, RegenerateFailed, PageTyped, b
  <2> QED
    BY <1>0, <1>6, <1>t, <2>1, <2>2 DEF CommitRecovery, PageTyped
<1>7. CASE DeleteDevice(s)
  <2>1. KitTyped' /\ jobs' \in [Places -> Job]
    BY <1>0, <1>7, <1>j, <1>k DEF DeleteDevice, b
  <2>2. list' \in [Browsers -> List]
    BY <1>0, <1>7, <1>l DEF DeleteDevice, PageTyped, b
  <2> QED
    BY <1>0, <1>7, <1>t, <2>1, <2>2 DEF DeleteDevice, PageTyped
<1>8. CASE CommitRevoked(s)
  <2>1. KitTyped' /\ jobs' \in [Places -> Job]
    BY <1>0, <1>8, <1>j, <1>k DEF CommitRevoked, b
  <2>2. list' \in [Browsers -> List]
    BY <1>0, <1>8, <1>l DEF CommitRevoked, PageTyped, b
  <2> QED
    BY <1>0, <1>8, <1>t, <2>1, <2>2 DEF CommitRevoked, PageTyped
<1>9. CASE InputPhrase(s)
  <2>1. jobs' \in [Places -> Job]
    BY <1>0, <1>9, <1>j DEF InputPhrase
  <2>2. page' \in [Browsers -> {"login", "recovery", "files", "security", "wizard"}]
    BY <1>0, <1>9, <1>p DEF InputPhrase, PageTyped, b
  <2>3. kit' \in [Browsers -> Kit]
    <3>1. [kit[b] EXCEPT !.status = "in", !.active = jobs[s].key] \in Kit
      BY <1>0, KitEdits DEF KitTyped
    <3> QED
      BY <1>0, <1>9, <3>1 DEF InputPhrase, KitTyped, b
  <2> QED
    BY <1>0, <1>9, <1>t, <2>1, <2>2, <2>3 DEF InputPhrase, KitTyped, PageTyped
<1>10. CASE CreateDevice(s)
  <2>1. KitTyped' /\ jobs' \in [Places -> Job]
    BY <1>0, <1>10, <1>j, <1>k DEF CreateDevice, b
  <2> QED
    BY <1>0, <1>10, <1>t, <2>1, FactorsKept DEF CreateDevice
<1>11. CASE KeepDevice(s)
  <2>1. device' \in [Browsers -> Key]
    BY <1>0, <1>11 DEF KeepDevice, KitTyped, b
  <2>2. jobs' \in [Places -> Job]
    BY <1>0, <1>11, <1>j DEF KeepDevice
  <2> QED
    BY <1>0, <1>11, <1>t, <2>1, <2>2 DEF KeepDevice, KitTyped, pageVars, PageTyped
<1>12. CASE CommitDevice(s)
  <2>1. KitTyped' /\ jobs' \in [Places -> Job]
    BY <1>0, <1>12, <1>j, <1>k DEF CommitDevice, b
  <2>2. mfa' \in [Browsers -> Status]
        /\ page' \in [Browsers -> {"login", "recovery", "files", "security", "wizard"}]
    BY <1>0, <1>12, <1>c, <1>p DEF CommitDevice, PageTyped, b
  <2> QED
    BY <1>0, <1>12, <1>t, <2>1, <2>2 DEF CommitDevice, PageTyped
<1> QED
  BY <1>1, <1>2, <1>3, <1>4, <1>5, <1>6, <1>7, <1>8, <1>9, <1>10, <1>11, <1>12 DEF Step

(* A call that takes a step is one of a browser                            *)
LEMMA StepsOfCalls ==
  ASSUME CallsFit, NEW s \in Places, Step(s)
  PROVE  jobs[s] # NoCall /\ jobs[s].browser \in Browsers
<1>1. jobs[s].name # "none"
  BY DEF Step, Is, Settle, EnableMFA, CommitMFA, DeleteRecovery, CreateRecovery, CommitRecovery,
     DeleteDevice, CommitRevoked, InputPhrase, CreateDevice, KeepDevice, CommitDevice
<1> QED
  BY <1>1 DEF CallsFit, NoCall

LEMMA FactorsTypes ==
  FactorsTypeOK /\ CallsFit /\ [FactorsNext]_factorsVars => FactorsTypeOK'
<1> SUFFICES ASSUME FactorsTypeOK, CallsFit, [FactorsNext]_factorsVars PROVE FactorsTypeOK'
  OBVIOUS
<1>1. CASE UNCHANGED factorsVars
  BY <1>1, FactorsKept, FactorsPartsNext DEF factorsVars
<1>2. ASSUME NEW s \in Places, Step(s) PROVE FactorsTypeOK'
  BY <1>2, StepsOfCalls, StepTypes
<1> QED
  BY <1>1, <1>2, ComingTypes, WizardTypes, SectionTypes DEF FactorsNext

-----------------------------------------------------------------------------
(* A step is sound: no key changes its kind, a browser keeps what the      *)
(* calls under way there rest on, no browser may write metadata that lack  *)
(* a factor, and none has                                                  *)
KindsGrow ==
    /\ Made("device") \subseteq Made("device")' /\ Made("seed") \subseteq Made("seed")'
    /\ kind'[Hashed] = kind[Hashed]
Relied(b) ==
    /\ kit[b].status # "out" => kit'[b].status # "out"
    /\ kit[b].view \cap Made("seed") \subseteq kit'[b].view \cup renewed'
KitFitsNext(b) ==
    /\ kit'[b].base <= version'
    /\ kit'[b].status # "out" /\ kit'[b].base = version' => committed' \ Excused' \subseteq kit'[b].view
Sound ==
    /\ KindsGrow
    /\ \A b \in Browsers : KitFitsNext(b)
    /\ committed \ Excused \subseteq committed'
    /\ renewed \subseteq renewed' /\ revoked \subseteq revoked'

LEMMA MadeApart == \A k : ~(k \in Made("seed") /\ k \in Made("device")) /\ Hashed \notin Keys
BY FactorsAssumption DEF Made, Keys

(* A new key changes the kind of that key only                             *)
LEMMA KeysGrow ==
  ASSUME KitTyped, NEW k, NEW what \in {"device", "seed"}, NextKey(k, kind),
         kind' = [kind EXCEPT ![k] = what]
  PROVE  KindsGrow /\ k \in Made(what)'
<1>1. kind[k] = "none" /\ k \in Keys /\ k # Hashed /\ Keys \subseteq Factor /\ Hashed \in Factor
  BY MadeApart DEF NextKey, Factor
<1> QED
  BY <1>1 DEF KindsGrow, Made, KitTyped

LEMMA CommitsSound ==
  ASSUME FactorsTypeOK, KitsFit, NEW b \in Browsers, kit[b].status # "out",
         Commits(b) \/ CommitFails(b), UNCHANGED <<renewed, revoked>>
  PROVE  /\ Sound
         /\ \A c \in Browsers : Relied(c) /\ kit'[c].status = kit[c].status
         /\ UNCHANGED <<kind, device>>
<1>0. KitTyped /\ kit \in [Browsers -> Kit] /\ version \in Nat
  BY FactorsParts DEF KitTyped
<1>1. UNCHANGED <<kind, device>> /\ Excused' = Excused /\ Made("seed")' = Made("seed")
      /\ Made("device")' = Made("device")
  BY DEF Commits, CommitFails, kitVars, Excused, Made
<1>2. \A c \in Browsers : kit[c].base \in Nat /\ kit[c].base <= version
  BY <1>0 DEF KitsFit, Kit
<1>3. CASE UNCHANGED kitVars
  BY <1>0, <1>1, <1>3 DEF kitVars, KitsFit, KitFitsNext, Sound, Relied, KindsGrow, Excused
<1>4. CASE /\ kit[b].base = version /\ committed' = kit[b].view
           /\ \/ version' = version + 1 /\ kit[b].view # committed
              \/ version' = version /\ kit[b].view = committed
           /\ kit' = kit \/ kit' = [kit EXCEPT ![b].base = version']
  <2>1. committed \ Excused \subseteq committed'
    BY <1>4 DEF KitsFit
  <2>2. \A c \in Browsers : /\ kit'[c].view = kit[c].view /\ kit'[c].status = kit[c].status
                            /\ \/ kit'[c].base = kit[c].base
                               \/ (c = b /\ kit'[c].base = version')
    BY <1>0, <1>4 DEF Kit
  <2>3. ASSUME NEW c \in Browsers PROVE KitFitsNext(c)
    <3>1. CASE version' = version /\ kit[b].view = committed
      BY <1>1, <1>2, <1>4, <2>2, <3>1 DEF KitFitsNext, KitsFit
    <3>2. CASE version' = version + 1
      <4>1. kit'[c].base <= version' /\ (kit'[c].base = version' => c = b)
        BY <1>0, <1>2, <2>2, <3>2
      <4> QED
        BY <1>1, <1>4, <2>2, <4>1 DEF KitFitsNext
    <3> QED
      BY <1>4, <3>1, <3>2
  <2>4. \A c \in Browsers : Relied(c) /\ kit'[c].status = kit[c].status
    BY <2>2 DEF Relied
  <2> QED
    BY <1>1, <2>1, <2>3, <2>4 DEF Sound, KindsGrow
<1> QED
  BY <1>3, <1>4 DEF Commits, CommitFails, CanCommit

(* The view of one browser changes, and the kinds of new keys              *)
LEMMA ViewSound ==
  ASSUME FactorsTypeOK, KitsFit, NEW b \in Browsers, KindsGrow, UNCHANGED <<committed, version>>,
         renewed \subseteq renewed', revoked \subseteq revoked',
         \A c \in Browsers \ {b} : kit'[c] = kit[c],
         kit'[b].base = kit[b].base, kit'[b].status = "out" <=> kit[b].status = "out",
         kit[b].view \ Excused' \subseteq kit'[b].view
  PROVE  Sound
<1>1. Excused \subseteq Excused'
  BY DEF Excused
<1>2. \A c \in Browsers : KitFitsNext(c)
  BY <1>1 DEF KitsFit, KitFitsNext
<1> QED
  BY <1>2 DEF Sound

LEMMA OperationsSound ==
  ASSUME FactorsTypeOK, KitsFit, ChosenFit, NEW b \in Browsers, UNCHANGED <<renewed, revoked>>,
         \/ \E k, what : Creates(b, k, what) /\ what \in {"device", "seed"}
         \/ \E f : Deletes(b, f) /\ f \in renewed \cup revoked
         \/ \E d, k \in Keys : EnablesMFA(b, d, k)
  PROVE  Sound /\ \A c \in Browsers : Relied(c) /\ kit'[c].status = kit[c].status
<1>0. KitTyped /\ kit \in [Browsers -> Kit] /\ kit[b] \in Kit
  BY FactorsParts DEF KitTyped
<1>x. Excused' = Excused
  BY DEF Excused
<1>1. ASSUME NEW k, NEW what \in {"device", "seed"}, Creates(b, k, what)
      PROVE  Sound /\ \A c \in Browsers : Relied(c) /\ kit'[c].status = kit[c].status
  <2>1. kit' = [kit EXCEPT ![b] = [kit[b] EXCEPT !.view = kit[b].view \cup {k}]]
    BY <1>1 DEF Creates
  <2>2. \A c \in Browsers : /\ kit'[c].status = kit[c].status /\ kit'[c].base = kit[c].base
                            /\ kit[c].view \subseteq kit'[c].view /\ (c # b => kit'[c] = kit[c])
    BY <1>0, <2>1 DEF Kit
  <2>3. KindsGrow
    BY <1>0, <1>1, KeysGrow DEF Creates
  <2> QED
    BY <1>1, <1>x, <2>2, <2>3, ViewSound DEF Creates, Relied
<1>2. ASSUME NEW f \in renewed \cup revoked, Deletes(b, f)
      PROVE  Sound /\ \A c \in Browsers : Relied(c) /\ kit'[c].status = kit[c].status
  <2>1. kit' = [kit EXCEPT ![b] = [kit[b] EXCEPT !.view = kit[b].view \ {f}]]
    BY <1>2 DEF Deletes
  <2>2. \A c \in Browsers : /\ kit'[c].status = kit[c].status /\ kit'[c].base = kit[c].base
                            /\ kit[c].view \ {f} \subseteq kit'[c].view /\ (c # b => kit'[c] = kit[c])
    BY <1>0, <2>1 DEF Kit
  <2>3. KindsGrow /\ f \in Excused
    BY <1>2 DEF Deletes, KindsGrow, Excused, Made
  <2>4. f \in Made("seed") => f \in renewed
    BY MadeApart DEF ChosenFit
  <2> QED
    BY <1>2, <1>x, <2>2, <2>3, <2>4, ViewSound DEF Deletes, Relied
<1>3. ASSUME NEW d \in Keys, NEW k \in Keys, EnablesMFA(b, d, k)
      PROVE  Sound /\ \A c \in Browsers : Relied(c) /\ kit'[c].status = kit[c].status
  <2>1. kit' = [kit EXCEPT ![b] = [kit[b] EXCEPT !.view = (kit[b].view \ {Hashed}) \cup {d, k},
                                                 !.active = d]]
    BY <1>3 DEF EnablesMFA
  <2>2. \A c \in Browsers : /\ kit'[c].status = kit[c].status /\ kit'[c].base = kit[c].base
                            /\ kit[c].view \ {Hashed} \subseteq kit'[c].view
                            /\ (c # b => kit'[c] = kit[c])
    BY <1>0, <2>1 DEF Kit
  <2>3. KindsGrow /\ Hashed \in Excused /\ Hashed \notin Made("seed")
    <3>1. kind[d] = "none" /\ kind[k] = "none" /\ k # d /\ Hashed \notin Keys
          /\ kind' = [kind EXCEPT ![d] = "device", ![k] = "seed"] /\ Keys \subseteq Factor
          /\ kind \in [Factor -> {"none", "hashed", "device", "seed"}] /\ Hashed \in Factor
      BY <1>0, <1>3, MadeApart DEF EnablesMFA, NextKey, KitTyped, Factor
    <3> QED
      BY <3>1 DEF KindsGrow, Made, Excused
  <2>4. UNCHANGED <<committed, version>>
    BY <1>3 DEF EnablesMFA
  <2>5. Sound
    BY <1>x, <2>2, <2>3, <2>4, ViewSound
  <2> QED
    BY <2>2, <2>3, <2>5 DEF Relied
<1> QED
  BY <1>1, <1>2, <1>3

LEMMA NothingSound ==
  ASSUME KitsFit, UNCHANGED kitVars, renewed \subseteq renewed', revoked \subseteq revoked'
  PROVE  Sound /\ \A c \in Browsers : Relied(c) /\ kit'[c].status = kit[c].status
<1>1. Excused \subseteq Excused'
  BY DEF Excused
<1> QED
  BY <1>1 DEF kitVars, Sound, KindsGrow, Made, Relied, KitFitsNext, KitsFit

-----------------------------------------------------------------------------
(* What a call rests on, before a step and after                           *)
CallFits(job) ==
    job # NoCall =>
        /\ job.browser \in Browsers /\ kit[job.browser].status # "out"
        /\ job.name = "regenerate" /\ job.at = "delete" => job.key \in renewed
        /\ job.name = "revoke" /\ job.at = "delete" => job.key \in revoked
        /\ job.name \in {"enable", "regenerate"} /\ job.at = "commit" =>
               job.key \in Made("seed") /\ job.key \in kit[job.browser].view \cup renewed
        /\ job.name = "recover" /\ job.at = "keep" => job.key \in Made("device")
CallFitsNext(job) ==
    job # NoCall =>
        /\ job.browser \in Browsers /\ kit'[job.browser].status # "out"
        /\ job.name = "regenerate" /\ job.at = "delete" => job.key \in renewed'
        /\ job.name = "revoke" /\ job.at = "delete" => job.key \in revoked'
        /\ job.name \in {"enable", "regenerate"} /\ job.at = "commit" =>
               job.key \in Made("seed")' /\ job.key \in kit'[job.browser].view \cup renewed'
        /\ job.name = "recover" /\ job.at = "keep" => job.key \in Made("device")'

LEMMA CallsParts ==
  /\ CallsFit <=> \A s \in Places : CallFits(jobs[s])
  /\ CallsFit' <=> \A s \in Places : CallFitsNext(jobs'[s])
<1>1. CallsFit <=> \A s \in Places : CallFits(jobs[s])
  BY DEF CallsFit, CallFits
<1>2. CallsFit' <=> \A s \in Places : CallFitsNext(jobs'[s])
  BY DEF CallsFit, CallFitsNext, NoCall
<1> QED
  BY <1>1, <1>2

SameCall(job, other) ==
    other.name = job.name /\ other.at = job.at /\ other.browser = job.browser /\ other.key = job.key

(* The browsers of the calls under way keep what these rest on             *)
CallersRelied == \A t \in Places : jobs[t] = NoCall \/ Relied(jobs[t].browser)

LEMMA CallKept ==
  ASSUME Sound, NEW job, NEW other, CallFits(job), job # NoCall, SameCall(job, other),
         Relied(job.browser)
  PROVE  CallFitsNext(other)
BY DEF Sound, KindsGrow, CallFits, CallFitsNext, SameCall, Relied

LEMMA CallsKept ==
  ASSUME CallsFit, Sound,
         \A t \in Places :
            \/ CallFitsNext(jobs'[t])
            \/ jobs[t] # NoCall /\ SameCall(jobs[t], jobs'[t]) /\ Relied(jobs[t].browser)
  PROVE  CallsFit'
BY CallsParts, CallKept

(* What becomes of the calls: one is asked, one goes on, one ends, those   *)
(* of a browser are dropped, or are not heard                              *)
LEMMA CallsNext ==
  ASSUME CallsFit, Sound, jobs \in [Places -> Job]
  PROVE  /\ CallersRelied /\ UNCHANGED jobs => CallsFit'
         /\ \A s \in Places : CallersRelied /\ Ends(s) => CallsFit'
         /\ \A b \in Browsers : CallersRelied /\ jobs' = Unheard(b) => CallsFit'
         /\ \A b \in Browsers :
               (\A c \in Browsers \ {b} : Relied(c)) /\ Dropped(b) => CallsFit'
<1>n. CallFitsNext(NoCall) /\ NoCall.browser = NoBrowser /\ NoBrowser \notin Browsers
  BY FactorsAssumption DEF CallFitsNext, NoCall
<1>s. \A job : SameCall(job, job)
  BY DEF SameCall
<1>1. ASSUME CallersRelied, UNCHANGED jobs PROVE CallsFit'
  BY <1>1, <1>n, <1>s, CallsKept DEF CallersRelied
<1>2. ASSUME NEW s \in Places, CallersRelied, Ends(s) PROVE CallsFit'
  <2>1. \A t \in Places : jobs'[t] = NoCall \/ jobs'[t] = jobs[t]
    BY <1>2 DEF Ends
  <2> QED
    BY <1>2, <1>n, <1>s, <2>1, CallsKept DEF CallersRelied
<1>3. ASSUME NEW b \in Browsers, CallersRelied, jobs' = Unheard(b) PROVE CallsFit'
  <2>1. \A t \in Places : jobs[t] = NoCall => jobs'[t] = NoCall
    BY <1>3, <1>n DEF Unheard
  <2>2. \A t \in Places : SameCall(jobs[t], jobs'[t])
    BY <1>3 DEF Unheard, SameCall, Job
  <2> QED
    BY <1>3, <1>n, <2>1, <2>2, CallsKept DEF CallersRelied
<1>4. ASSUME NEW b \in Browsers, \A c \in Browsers \ {b} : Relied(c), Dropped(b) PROVE CallsFit'
  <2>1. \A t \in Places : jobs'[t] = NoCall \/ (jobs'[t] = jobs[t] /\ jobs[t].browser # b)
    BY <1>4 DEF Dropped
  <2>2. \A t \in Places : jobs[t] # NoCall => jobs[t].browser \in Browsers
    BY CallsParts DEF CallFits
  <2> QED
    BY <1>4, <1>n, <1>s, <2>1, <2>2, CallsKept
<1> QED
  BY <1>1, <1>2, <1>3, <1>4

LEMMA CallsAsked ==
  ASSUME CallsFit, Sound, CallersRelied, jobs \in [Places -> Job],
         NEW b, NEW name, NEW at, NEW key, Asks(b, name, at, key),
         CallFitsNext([name |-> name, at |-> at, browser |-> b, key |-> key, heard |-> TRUE])
  PROVE  CallsFit'
<1>n. CallFitsNext(NoCall)
  BY DEF CallFitsNext
<1>s. \A job : SameCall(job, job)
  BY DEF SameCall
<1>1. \A t \in Places :
         \/ jobs'[t] = jobs[t]
         \/ jobs'[t] = [name |-> name, at |-> at, browser |-> b, key |-> key, heard |-> TRUE]
  BY DEF Asks
<1> QED
  BY <1>n, <1>s, <1>1, CallsKept DEF CallersRelied

LEMMA CallsGone ==
  ASSUME CallsFit, Sound, CallersRelied, jobs \in [Places -> Job],
         NEW s \in Places, NEW at, NEW key, GoesOn(s, at, key),
         \A job : job.name = jobs[s].name /\ job.at = at /\ job.browser = jobs[s].browser
                 /\ job.key = key => CallFitsNext(job)
  PROVE  CallsFit'
<1>n. CallFitsNext(NoCall)
  BY DEF CallFitsNext
<1>s. \A job : SameCall(job, job)
  BY DEF SameCall
<1>1. \A t \in Places \ {s} : jobs'[t] = jobs[t]
  BY DEF GoesOn
<1>2. jobs'[s].name = jobs[s].name /\ jobs'[s].at = at /\ jobs'[s].browser = jobs[s].browser
      /\ jobs'[s].key = key
  BY DEF GoesOn, Job
<1>3. CallFitsNext(jobs'[s])
  BY <1>2
<1> QED
  BY <1>n, <1>s, <1>1, <1>3, CallsKept DEF CallersRelied

-----------------------------------------------------------------------------
(* A phrase that opens the account or has been given up, before a step and *)
(* after                                                                   *)
Good(k) == k = NoKey \/ (k \in Made("seed") /\ k \in committed \cup renewed)
GoodNext(k) == k = NoKey \/ (k \in Made("seed")' /\ k \in committed' \cup renewed')

LEMMA ChosenGood ==
  ASSUME ChosenFit, ShownWritten, PhraseWorks
  PROVE  Good(noted) /\ \A b \in Browsers : Good(wizard[b].phrase) /\ Good(section[b].phrase)
BY DEF ChosenFit, ShownWritten, PhraseWorks, Good

LEMMA GoodStays == ASSUME Sound, ChosenFit, NEW k, Good(k) PROVE GoodNext(k)
<1>1. CASE k \in Made("seed") /\ k \in committed /\ k \notin renewed
  <2>1. k # Hashed /\ k \notin revoked
    BY <1>1, MadeApart DEF ChosenFit, Made
  <2> QED
    BY <1>1, <2>1 DEF Sound, KindsGrow, Excused, GoodNext
<1> QED
  BY <1>1 DEF Sound, KindsGrow, Good, GoodNext

(* What a step leaves of what the pages show and the user has chosen       *)
PageWell == \A c \in Browsers : page'[c] # "login" => kit'[c].status # "out"
ShownWell == \A c \in Browsers : /\ Good(wizard'[c].phrase) \/ GoodNext(wizard'[c].phrase)
                                 /\ Good(section'[c].phrase) \/ GoodNext(section'[c].phrase)
ListWell == \A c \in Browsers : list'[c].devices \subseteq list[c].devices \cup Made("device")'
DeviceWell == \A c \in Browsers : device'[c] \in {device[c]} \cup Made("device")'
ChoiceWell ==
    /\ Good(noted') /\ renewed' \subseteq renewed \cup Made("seed")'
    /\ revoked' \subseteq revoked \cup Made("device")'

LEMMA StepKeeps ==
  ASSUME FactorsInv, FactorsTypeOK', Sound, CallsFit',
         PageWell, ShownWell, ListWell, DeviceWell, ChoiceWell
  PROVE  FactorsInv'
<1>1. Made("seed") \subseteq Made("seed")' /\ Made("device") \subseteq Made("device")'
      /\ kind'[Hashed] = kind[Hashed]
  BY DEF Sound, KindsGrow
<1>2. KitsFit'
  BY DEF Sound, KitFitsNext, KitsFit, PageWell
<1>3. GoodNext(noted')
      /\ \A c \in Browsers : GoodNext(wizard'[c].phrase) /\ GoodNext(section'[c].phrase)
  BY GoodStays DEF FactorsInv, ShownWell, ChoiceWell
<1>4. renewed' \subseteq Made("seed")' /\ revoked' \subseteq Made("device")'
  BY <1>1 DEF FactorsInv, ChosenFit, ChoiceWell
<1>5. ASSUME NEW c \in Browsers
      PROVE  /\ device'[c] \in Made("device")' \cup {NoKey}
             /\ list'[c].devices \subseteq Made("device")'
  BY <1>1 DEF FactorsInv, ChosenFit, DeviceWell, ListWell
<1>6. ChosenFit'
  BY <1>1, <1>3, <1>4, <1>5 DEF FactorsInv, ChosenFit, GoodNext
<1>7. ShownWritten' /\ PhraseWorks'
  BY <1>3 DEF ShownWritten, PhraseWorks, GoodNext
<1> QED
  BY <1>2, <1>6, <1>7 DEF FactorsInv

(* What is left as it is, is well                                          *)
LEMMA LeftWell ==
  ASSUME FactorsInv
  PROVE  /\ (\A c \in Browsers : kit'[c].status = kit[c].status) /\ UNCHANGED page => PageWell
         /\ UNCHANGED <<wizard, section>> => ShownWell
         /\ UNCHANGED list => ListWell
         /\ UNCHANGED device => DeviceWell
         /\ UNCHANGED <<noted, renewed, revoked>> => ChoiceWell
<1>1. Good(noted) /\ \A b \in Browsers : Good(wizard[b].phrase) /\ Good(section[b].phrase)
  BY ChosenGood DEF FactorsInv
<1>2. ASSUME \A c \in Browsers : kit'[c].status = kit[c].status, UNCHANGED page PROVE PageWell
  BY <1>2 DEF FactorsInv, KitsFit, PageWell
<1>3. ASSUME UNCHANGED <<wizard, section>> PROVE ShownWell
  BY <1>1, <1>3 DEF ShownWell
<1>4. ASSUME UNCHANGED list PROVE ListWell
  BY <1>4 DEF ListWell
<1>5. ASSUME UNCHANGED device PROVE DeviceWell
  BY <1>5 DEF DeviceWell
<1>6. ASSUME UNCHANGED <<noted, renewed, revoked>> PROVE ChoiceWell
  BY <1>1, <1>6 DEF ChoiceWell
<1> QED
  BY <1>2, <1>3, <1>4, <1>5, <1>6

(* So is what the pages make of it                                         *)
LEMMA ShownKept ==
  ASSUME FactorsInv,
         \A c \in Browsers : /\ wizard'[c].phrase \in {NoKey, wizard[c].phrase}
                             /\ section'[c].phrase \in {NoKey, section[c].phrase}
  PROVE  ShownWell
<1>1. \A b \in Browsers : Good(wizard[b].phrase) /\ Good(section[b].phrase)
  BY ChosenGood DEF FactorsInv
<1>2. Good(NoKey)
  BY DEF Good
<1> QED
  BY <1>1, <1>2 DEF ShownWell

LEMMA PagesWell ==
  ASSUME FactorsInv, NEW b \in Browsers
  PROVE  /\ Unmounted(b) => ShownWell /\ ListWell
         /\ wizard' \in {wizard, [wizard EXCEPT ![b] = NewWizard]} /\ Sections(b)
               /\ UNCHANGED kind => ShownWell /\ ListWell
         /\ \A heard : EnableFailed(b, heard) /\ Mounts(b) => ShownWell
         /\ Mounts(b) => /\ UNCHANGED kind \/ UNCHANGED mfa => ListWell
                         /\ \A c \in Browsers : section'[c].phrase \in {NoKey, section[c].phrase}
         /\ \A heard : RegenerateFailed(b, heard) /\ UNCHANGED wizard => ShownWell
<1>0. KitTyped /\ PageTyped /\ kit[b].view \subseteq Factor
  BY FactorsParts DEF FactorsInv, KitTyped, Kit
<1>1. NewWizard.phrase = NoKey /\ NewSection.phrase = NoKey /\ NewList.devices = {}
      /\ \A active : [NewSection EXCEPT !.active = active].phrase = NoKey
      /\ \A devices : [NewList EXCEPT !.devices = devices].devices = devices
  BY DEF NewWizard, NewSection, NewList
<1>2. ASSUME Unmounted(b) PROVE ShownWell /\ ListWell
  <2>1. \A c \in Browsers : /\ wizard'[c].phrase \in {NoKey, wizard[c].phrase}
                            /\ section'[c].phrase \in {NoKey, section[c].phrase}
    BY <1>0, <1>1, <1>2 DEF Unmounted, PageTyped
  <2>2. ListWell
    BY <1>0, <1>1, <1>2 DEF Unmounted, PageTyped, ListWell
  <2> QED
    BY <2>1, <2>2, ShownKept
<1>3. ASSUME wizard' \in {wizard, [wizard EXCEPT ![b] = NewWizard]}, Sections(b), UNCHANGED kind
      PROVE  ShownWell /\ ListWell
  <2>1. \A c \in Browsers : /\ wizard'[c].phrase \in {NoKey, wizard[c].phrase}
                            /\ section'[c].phrase \in {NoKey, section[c].phrase}
    BY <1>0, <1>1, <1>3 DEF Sections, PageTyped
  <2>2. DeviceFactors(b) \subseteq Made("device")'
    BY <1>0, <1>3 DEF DeviceFactors, FactorsOf, Made, Factor, FactorsInv, ChosenFit
  <2>3. ListWell
    BY <1>0, <1>1, <1>3, <2>2 DEF Sections, PageTyped, ListWell
  <2> QED
    BY <2>1, <2>3, ShownKept
<1>6. ASSUME Mounts(b)
      PROVE  /\ UNCHANGED kind \/ UNCHANGED mfa => ListWell
             /\ \A c \in Browsers : section'[c].phrase \in {NoKey, section[c].phrase}
  <2>1. CASE UNCHANGED <<section, list>>
    BY <2>1 DEF ListWell
  <2>2. CASE Sections(b) /\ ~mfa[b].enabled /\ mfa'[b].enabled
    <3>1. \A c \in Browsers : section'[c].phrase \in {NoKey, section[c].phrase}
      BY <1>0, <1>1, <2>2 DEF Sections, PageTyped
    <3>2. DeviceFactors(b) \subseteq Made("device")
      BY <1>0 DEF DeviceFactors, FactorsOf, Made, Factor, FactorsInv, ChosenFit
    <3>3. UNCHANGED kind => Made("device")' = Made("device")
      BY DEF Made
    <3>4. UNCHANGED kind => ListWell
      BY <1>0, <1>1, <2>2, <3>2, <3>3 DEF Sections, PageTyped, ListWell
    <3> QED
      BY <2>2, <3>1, <3>4
  <2> QED
    BY <1>6, <2>1, <2>2 DEF Mounts
<1>4. ASSUME NEW heard, EnableFailed(b, heard), Mounts(b) PROVE ShownWell
  <2>1. \A c \in Browsers : wizard'[c].phrase = wizard[c].phrase
    BY <1>0, <1>4 DEF EnableFailed, PageTyped, Wizard
  <2> QED
    BY <1>4, <1>6, <2>1, ShownKept
<1>5. ASSUME NEW heard, RegenerateFailed(b, heard), UNCHANGED wizard PROVE ShownWell
  <2>1. \A c \in Browsers : section'[c].phrase = section[c].phrase
    BY <1>0, <1>5 DEF RegenerateFailed, PageTyped, Section
  <2> QED
    BY <1>5, <2>1, ShownKept
<1> QED
  BY <1>2, <1>3, <1>4, <1>5, <1>6

-----------------------------------------------------------------------------
LEMMA Relying ==
  ASSUME CallsFit
  PROVE  /\ (\A c \in Browsers : Relied(c)) => CallersRelied
         /\ \A b \in Browsers : kit[b].status = "out" /\ (\A c \in Browsers \ {b} : Relied(c))
                                => CallersRelied
BY CallsParts DEF CallersRelied, CallFits

(* A browser that starts from what is written, or that is left             *)
LEMMA FreshSound ==
  ASSUME FactorsTypeOK, KitsFit, NEW b \in Browsers, NEW new,
         UNCHANGED <<committed, version, kind, renewed, revoked>>,
         kit' = [kit EXCEPT ![b] = new], new.base <= version,
         new.status # "out" => new.view = committed
  PROVE  Sound /\ \A c \in Browsers \ {b} : Relied(c) /\ kit'[c] = kit[c]
<1>0. kit \in [Browsers -> Kit]
  BY FactorsParts DEF KitTyped
<1>1. \A c \in Browsers \ {b} : kit'[c] = kit[c]
  BY <1>0
<1>2. kit'[b] = new
  BY <1>0
<1>3. Excused' = Excused /\ Made("device")' = Made("device") /\ Made("seed")' = Made("seed")
  BY DEF Excused, Made
<1>4. \A c \in Browsers : KitFitsNext(c)
  BY <1>1, <1>2, <1>3 DEF KitsFit, KitFitsNext
<1> QED
  BY <1>1, <1>3, <1>4 DEF Sound, KindsGrow, Relied

LEMMA EnteredFresh ==
  ASSUME NEW b
  PROVE  /\ Entered(b).base = version /\ Entered(b).view = committed
         /\ Entered(b).status \in {"in", "required"}
         /\ \A f : /\ EnteredWith(f).base = version /\ EnteredWith(f).view = committed
                   /\ EnteredWith(f).status = "in"
BY DEF Entered, EnteredWith

LEMMA ComingFits ==
  ASSUME FactorsInv, FactorsTypeOK', NEW b \in Browsers,
         Login(b) \/ ReloadPage(b) \/ Leave(b) \/ OpenTab(b) \/ LeaveTab(b)
  PROVE  Sound /\ FactorsInv'
<1>0. /\ FactorsTypeOK /\ KitsFit /\ CallsFit /\ KitTyped /\ PageTyped /\ jobs \in [Places -> Job]
      /\ version \in Nat /\ page \in [Browsers -> {"login", "recovery", "files", "security", "wizard"}]
      /\ kit \in [Browsers -> Kit]
  BY FactorsParts DEF FactorsInv, KitTyped, PageTyped
<1>p. \A c \in Browsers : page[c] # "login" => kit[c].status # "out"
  BY <1>0 DEF KitsFit
<1>1. CASE Login(b)
  <2>1. kit' = [kit EXCEPT ![b] = Entered(b)] /\ kit[b].status = "out"
        /\ UNCHANGED <<committed, version, kind, device, wizard, section, list, jobs, userVars>>
    BY <1>1 DEF Login
  <2>2. Sound /\ \A c \in Browsers \ {b} : Relied(c) /\ kit'[c] = kit[c]
    <3>1. Entered(b).base <= version /\ Entered(b).view = committed
      BY <1>0, EnteredFresh
    <3> QED
      BY <1>0, <2>1, <3>1, FreshSound DEF userVars
  <2>3. CallsFit'
    BY <1>0, <2>1, <2>2, Relying, CallsNext
  <2>4. PageWell
    <3>1. \A c \in Browsers \ {b} : page'[c] = page[c]
      BY <1>0, <1>1 DEF Login
    <3>2. kit'[b].status # "out"
      BY <1>0, <2>1, EnteredFresh
    <3> QED
      BY <1>p, <2>2, <3>1, <3>2 DEF PageWell
  <2> QED
    BY <2>1, <2>2, <2>3, <2>4, LeftWell, StepKeeps DEF userVars
<1>2. CASE ReloadPage(b)
  <2>1. kit' = [kit EXCEPT ![b] = EnteredWith(kit[b].active)] /\ Unmounted(b) /\ Dropped(b)
        /\ UNCHANGED <<committed, version, kind, device, userVars>>
    BY <1>2 DEF ReloadPage
  <2>2. Sound /\ \A c \in Browsers \ {b} : Relied(c) /\ kit'[c] = kit[c]
    <3>1. EnteredWith(kit[b].active).base <= version /\ EnteredWith(kit[b].active).view = committed
      BY <1>0, EnteredFresh
    <3> QED
      BY <1>0, <2>1, <3>1, FreshSound DEF userVars
  <2>3. CallsFit'
    BY <1>0, <2>1, <2>2, CallsNext
  <2>4. PageWell
    <3>1. \A c \in Browsers \ {b} : page'[c] = page[c]
      BY <1>0, <1>2 DEF ReloadPage
    <3>2. kit'[b].status # "out"
      BY <1>0, <2>1, EnteredFresh
    <3> QED
      BY <1>p, <2>2, <3>1, <3>2 DEF PageWell
  <2> QED
    BY <2>1, <2>2, <2>3, <2>4, LeftWell, PagesWell, StepKeeps DEF userVars
<1>3. CASE Leave(b)
  <2>1. kit' = [kit EXCEPT ![b] = Out] /\ Unmounted(b) /\ Dropped(b)
        /\ UNCHANGED <<committed, version, kind, device, userVars>>
    BY <1>3 DEF Leave
  <2>2. Sound /\ \A c \in Browsers \ {b} : Relied(c) /\ kit'[c] = kit[c]
    <3>1. Out.base <= version /\ Out.status = "out"
      BY <1>0 DEF Out
    <3> QED
      BY <1>0, <2>1, <3>1, FreshSound DEF userVars
  <2>3. CallsFit'
    BY <1>0, <2>1, <2>2, CallsNext
  <2>4. PageWell
    <3>1. (\A c \in Browsers \ {b} : page'[c] = page[c]) /\ page'[b] = "login"
      BY <1>0, <1>3 DEF Leave
    <3> QED
      BY <1>p, <2>2, <3>1 DEF PageWell
  <2> QED
    BY <2>1, <2>2, <2>3, <2>4, LeftWell, PagesWell, StepKeeps DEF userVars
<1>4. CASE OpenTab(b) \/ LeaveTab(b)
  <2>1. UNCHANGED <<kitVars, userVars>> /\ page[b] # "login"
        /\ \A c \in Browsers \ {b} : page'[c] = page[c]
    BY <1>0, <1>4 DEF OpenTab, LeaveTab
  <2>2. Sound /\ \A c \in Browsers : Relied(c) /\ kit'[c].status = kit[c].status
    BY <1>0, <2>1, NothingSound DEF userVars
  <2>3. CallsFit'
    BY <1>0, <1>4, <2>2, CallsNext, Relying DEF OpenTab, LeaveTab
  <2>4. PageWell
    BY <1>p, <2>1, <2>2 DEF PageWell
  <2>5. ShownWell /\ ListWell
    <3>1. UNCHANGED kind
      BY <2>1 DEF kitVars
    <3> QED
      BY <1>4, <3>1, PagesWell DEF OpenTab, LeaveTab
  <2> QED
    BY <2>1, <2>2, <2>3, <2>4, <2>5, LeftWell, StepKeeps DEF userVars, kitVars
<1> QED
  BY <1>1, <1>2, <1>3, <1>4

LEMMA WizardFits ==
  ASSUME FactorsInv, FactorsTypeOK', NEW b \in Browsers,
         OpenWizard(b) \/ GoToStep2(b) \/ Retry(b) \/ GoBackToStep1(b) \/ GoToStep3(b)
         \/ CancelWizard(b) \/ CompleteWizard(b)
  PROVE  Sound /\ FactorsInv'
<1>0. /\ FactorsTypeOK /\ KitsFit /\ CallsFit /\ KitTyped /\ PageTyped /\ jobs \in [Places -> Job]
      /\ page \in [Browsers -> {"login", "recovery", "files", "security", "wizard"}]
  BY FactorsParts DEF FactorsInv, KitTyped, PageTyped
<1>1. UNCHANGED <<kitVars, renewed, revoked>> /\ page[b] # "login"
      /\ \A c \in Browsers \ {b} : page'[c] = page[c]
  BY <1>0 DEF OpenWizard, GoToStep2, Retry, GoBackToStep1, GoToStep3, CancelWizard, CompleteWizard,
     CloseWizard, userVars
<1>2. Sound /\ \A c \in Browsers : Relied(c) /\ kit'[c].status = kit[c].status
  BY <1>0, <1>1, NothingSound
<1>3. PageWell
  BY <1>0, <1>1, <1>2 DEF PageWell, KitsFit
<1>4. CallersRelied /\ kit'[b].status # "out"
  BY <1>0, <1>1, <1>2, Relying DEF KitsFit
<1>t. ASSUME CallsFit', ShownWell, ListWell, ChoiceWell PROVE Sound /\ FactorsInv'
  BY <1>1, <1>2, <1>3, <1>t, LeftWell, StepKeeps DEF kitVars
<1>5. CASE OpenWizard(b)
  BY <1>0, <1>2, <1>4, <1>5, <1>t, CallsNext, LeftWell DEF OpenWizard, userVars
<1>6. CASE GoToStep2(b) \/ Retry(b)
  <2>1. UNCHANGED <<section, list, noted, renewed, revoked>>
    BY <1>6 DEF GoToStep2, Retry
  <2>2. CASE Enable(b, 2)
    <3>1. CallsFit'
      <4>1. CASE Asks(b, "enable", "settle", NoKey)
        <5>1. CallFitsNext([name |-> "enable", at |-> "settle", browser |-> b, key |-> NoKey,
                            heard |-> TRUE])
          BY <1>4 DEF CallFitsNext
        <5> QED
          BY <1>0, <1>2, <1>4, <4>1, <5>1, CallsAsked
      <4>2. CASE UNCHANGED jobs
        BY <1>0, <1>2, <1>4, <4>2, CallsNext
      <4> QED
        BY <2>2, <4>1, <4>2 DEF Enable
    <3>2. \A c \in Browsers : wizard'[c].phrase = wizard[c].phrase
      <4>0. wizard[b] = [step |-> wizard[b].step, loading |-> wizard[b].loading,
                         error |-> wizard[b].error, partial |-> wizard[b].partial,
                         phrase |-> wizard[b].phrase]
        BY <1>0 DEF PageTyped, Wizard
      <4>1. [wizard[b] EXCEPT !.step = 2, !.loading = FALSE, !.error = TRUE,
                              !.partial = wizard[b].partial \/ Checked(b).enabled].phrase
              = wizard[b].phrase
        BY <4>0
      <4>2. [wizard[b] EXCEPT !.step = 2, !.loading = TRUE, !.error = FALSE].phrase
              = wizard[b].phrase
        BY <4>0
      <4>3. \E new : wizard' = [wizard EXCEPT ![b] = new] /\ new.phrase = wizard[b].phrase
        <5>1. CASE wizard' = [wizard EXCEPT ![b] = [wizard[b] EXCEPT !.step = 2, !.loading = TRUE,
                                                                     !.error = FALSE]]
          BY <4>2, <5>1
        <5>2. CASE wizard' = [wizard EXCEPT
                               ![b] = [wizard[b] EXCEPT !.step = 2, !.loading = FALSE, !.error = TRUE,
                                          !.partial = wizard[b].partial \/ Checked(b).enabled]]
          BY <4>1, <5>2
        <5> QED
          BY <2>2, <5>1, <5>2 DEF Enable
      <4> QED
        BY <1>0, <4>3 DEF PageTyped
    <3>3. ShownWell
      BY <2>1, <3>2, ShownKept
    <3> QED
      BY <1>t, <2>1, <3>1, <3>3, LeftWell
  <2>3. CASE wizard' = [wizard EXCEPT ![b].step = 2] /\ UNCHANGED <<mfa, jobs, asks>>
    <3>1. CallsFit'
      BY <1>0, <1>2, <1>4, <2>3, CallsNext
    <3>2. \A c \in Browsers : wizard'[c].phrase = wizard[c].phrase
      BY <1>0, <2>3 DEF PageTyped, Wizard
    <3>3. ShownWell
      BY <2>1, <3>2, ShownKept
    <3> QED
      BY <1>t, <2>1, <3>1, <3>3, LeftWell
  <2> QED
    BY <1>6, <2>2, <2>3 DEF GoToStep2, Retry
<1>7. CASE GoBackToStep1(b)
  <2>1. \A c \in Browsers : wizard'[c].phrase = wizard[c].phrase
    BY <1>0, <1>7 DEF GoBackToStep1, PageTyped, Wizard
  <2>2. UNCHANGED <<section, list, jobs, userVars>>
    BY <1>7 DEF GoBackToStep1
  <2>3. ShownWell
    BY <2>1, <2>2, ShownKept
  <2> QED
    BY <1>0, <1>2, <1>4, <1>t, <2>2, <2>3, CallsNext, LeftWell DEF userVars
<1>8. CASE GoToStep3(b)
  <2>1. \A c \in Browsers : wizard'[c].phrase \in {NoKey, wizard[c].phrase}
    BY <1>0, <1>8 DEF GoToStep3, PageTyped, Wizard
  <2>2. UNCHANGED <<section, list, jobs, renewed, revoked>> /\ noted' = wizard[b].phrase
    BY <1>8 DEF GoToStep3
  <2>3. ShownWell
    BY <2>1, <2>2, ShownKept
  <2>4. ChoiceWell
    BY <2>2, ChosenGood DEF FactorsInv, ChoiceWell
  <2> QED
    BY <1>0, <1>2, <1>4, <1>t, <2>2, <2>3, <2>4, CallsNext, LeftWell
<1>9. CASE CancelWizard(b) \/ CompleteWizard(b)
  <2>1. CloseWizard(b)
    BY <1>9 DEF CancelWizard, CompleteWizard
  <2>2. /\ wizard' = [wizard EXCEPT ![b] = NewWizard] /\ Sections(b) /\ jobs' = Unheard(b)
        /\ UNCHANGED <<kitVars, userVars>>
    BY <2>1 DEF CloseWizard
  <2>3. ShownWell /\ ListWell
    BY <2>2, PagesWell DEF kitVars
  <2> QED
    BY <1>0, <1>2, <1>4, <1>t, <2>2, <2>3, CallsNext, LeftWell DEF userVars
<1> QED
  BY <1>5, <1>6, <1>7, <1>8, <1>9

LEMMA SectionFits ==
  ASSUME FactorsInv, FactorsTypeOK', NEW b \in Browsers,
         Regenerate(b) \/ DismissPhrase(b) \/ (\E f \in Keys : Revoke(b, f)) \/ Recover(b)
  PROVE  Sound /\ FactorsInv'
<1>0. /\ FactorsTypeOK /\ KitsFit /\ CallsFit /\ KitTyped /\ PageTyped /\ jobs \in [Places -> Job]
      /\ kit[b].view \subseteq Factor /\ Good(noted) /\ Good(section[b].phrase)
  BY FactorsParts, ChosenGood DEF FactorsInv, KitTyped, Kit
<1>1. UNCHANGED <<kitVars, page>> /\ page[b] # "login"
  BY DEF Regenerate, DismissPhrase, Revoke, Recover, SectionsShown, RecoveryShown, pageVars
<1>r. renewed \subseteq renewed' /\ revoked \subseteq revoked'
  BY DEF Regenerate, DismissPhrase, Revoke, Recover
<1>2. Sound /\ \A c \in Browsers : Relied(c) /\ kit'[c].status = kit[c].status
  BY <1>0, <1>1, <1>r, NothingSound
<1>4. CallersRelied /\ kit'[b].status # "out"
  BY <1>0, <1>1, <1>2, Relying DEF KitsFit
<1>t. ASSUME CallsFit', ShownWell, ListWell, ChoiceWell PROVE Sound /\ FactorsInv'
  BY <1>1, <1>2, <1>t, LeftWell, StepKeeps DEF kitVars
<1>m. Made("seed")' = Made("seed") /\ Made("device")' = Made("device")
  BY <1>1 DEF kitVars, Made
<1>5. CASE Regenerate(b)
  <2>1. renewed' = renewed \cup Made("seed") /\ UNCHANGED <<wizard, list, noted, revoked>>
    BY <1>5 DEF Regenerate, Made
  <2>2. \A c \in Browsers : section'[c].phrase = section[c].phrase
    BY <1>0, <1>5 DEF Regenerate, PageTyped, Section
  <2>3. ShownWell
    BY <2>1, <2>2, ShownKept
  <2>4. RecoveryFactor(b) \subseteq renewed'
    BY <1>0, <2>1 DEF RecoveryFactor, FactorsOf, Made, Factor, FactorsInv, ChosenFit
  <2>5. CallsFit'
    <3>1. \A k \in RecoveryFactor(b) :
             CallFitsNext([name |-> "regenerate", at |-> "delete", browser |-> b, key |-> k,
                           heard |-> TRUE])
      BY <1>4, <2>4 DEF CallFitsNext
    <3>2. CallFitsNext([name |-> "regenerate", at |-> "create", browser |-> b, key |-> NoKey,
                        heard |-> TRUE])
      BY <1>4 DEF CallFitsNext
    <3>3. \/ Asks(b, "regenerate", "create", NoKey)
          \/ \E k \in RecoveryFactor(b) : Asks(b, "regenerate", "delete", k)
      BY <1>5 DEF Regenerate
    <3> QED
      BY <1>0, <1>2, <1>4, <3>1, <3>2, <3>3, CallsAsked
  <2>6. ChoiceWell
    BY <1>0, <1>m, <2>1 DEF ChoiceWell
  <2> QED
    BY <1>t, <2>1, <2>3, <2>5, <2>6, LeftWell
<1>6. CASE DismissPhrase(b)
  <2>1. noted' = section[b].phrase /\ UNCHANGED <<wizard, list, jobs, renewed, revoked>>
    BY <1>6 DEF DismissPhrase
  <2>2. \A c \in Browsers : section'[c].phrase \in {NoKey, section[c].phrase}
    BY <1>0, <1>6 DEF DismissPhrase, PageTyped, Section
  <2>3. ShownWell
    BY <2>1, <2>2, ShownKept
  <2>4. ChoiceWell
    BY <1>0, <2>1 DEF ChoiceWell
  <2> QED
    BY <1>0, <1>2, <1>4, <1>t, <2>1, <2>3, <2>4, CallsNext, LeftWell
<1>7. ASSUME NEW f \in Keys, Revoke(b, f) PROVE Sound /\ FactorsInv'
  <2>1. revoked' = revoked \cup {f} /\ UNCHANGED <<wizard, section, noted, renewed>>
        /\ f \in list[b].devices /\ Asks(b, "revoke", "delete", f)
    BY <1>7 DEF Revoke
  <2>2. f \in Made("device")
    BY <2>1 DEF FactorsInv, ChosenFit
  <2>3. ListWell
    BY <1>0, <1>7 DEF Revoke, PageTyped, List, ListWell
  <2>4. CallsFit'
    <3>1. CallFitsNext([name |-> "revoke", at |-> "delete", browser |-> b, key |-> f,
                        heard |-> TRUE])
      BY <1>4, <2>1 DEF CallFitsNext
    <3> QED
      BY <1>0, <1>2, <1>4, <2>1, <3>1, CallsAsked
  <2>5. ChoiceWell
    BY <1>0, <1>m, <2>1, <2>2 DEF ChoiceWell
  <2> QED
    BY <1>t, <2>1, <2>3, <2>4, <2>5, LeftWell
<1>8. CASE Recover(b)
  <2>1. Asks(b, "recover", "input", noted) /\ UNCHANGED <<pageVars, noted, renewed, revoked>>
    BY <1>8 DEF Recover
  <2>2. CallsFit'
    <3>1. CallFitsNext([name |-> "recover", at |-> "input", browser |-> b, key |-> noted,
                        heard |-> TRUE])
      BY <1>4 DEF CallFitsNext
    <3> QED
      BY <1>0, <1>2, <1>4, <2>1, <3>1, CallsAsked
  <2> QED
    BY <1>t, <2>1, <2>2, LeftWell DEF pageVars
<1> QED
  BY <1>5, <1>6, <1>7, <1>8

(* A key that is created is in the view, and of its kind                   *)
LEMMA KeyMade ==
  ASSUME FactorsTypeOK, NEW b \in Browsers
  PROVE  /\ \A k, what : Creates(b, k, what) /\ what \in {"device", "seed"}
                         => k \in Made(what)' /\ k \in kit'[b].view /\ UNCHANGED device
         /\ \A d, k \in Keys : EnablesMFA(b, d, k)
                         => /\ k \in Made("seed")' /\ k \in kit'[b].view
                            /\ d \in Made("device")' /\ device' = [device EXCEPT ![b] = d]
<1>0. KitTyped /\ kit \in [Browsers -> Kit] /\ kit[b] \in Kit
  BY FactorsParts DEF KitTyped
<1>1. ASSUME NEW k, NEW what \in {"device", "seed"}, Creates(b, k, what)
      PROVE  k \in Made(what)' /\ k \in kit'[b].view /\ UNCHANGED device
  <2>1. k \in Made(what)' /\ UNCHANGED device
    BY <1>0, <1>1, KeysGrow DEF Creates
  <2>2. kit' = [kit EXCEPT ![b] = [kit[b] EXCEPT !.view = kit[b].view \cup {k}]]
    BY <1>1 DEF Creates
  <2> QED
    BY <1>0, <2>1, <2>2 DEF Kit
<1>2. ASSUME NEW d \in Keys, NEW k \in Keys, EnablesMFA(b, d, k)
      PROVE  /\ k \in Made("seed")' /\ k \in kit'[b].view
             /\ d \in Made("device")' /\ device' = [device EXCEPT ![b] = d]
  <2>1. kit' = [kit EXCEPT ![b] = [kit[b] EXCEPT !.view = (kit[b].view \ {Hashed}) \cup {d, k},
                                                 !.active = d]]
        /\ device' = [device EXCEPT ![b] = d]
    BY <1>2 DEF EnablesMFA
  <2>2. k \in kit'[b].view
    BY <1>0, <2>1 DEF Kit
  <2>3. kind[d] = "none" /\ k # d /\ kind' = [kind EXCEPT ![d] = "device", ![k] = "seed"]
        /\ Keys \subseteq Factor /\ kind \in [Factor -> {"none", "hashed", "device", "seed"}]
    BY <1>0, <1>2 DEF EnablesMFA, NextKey, KitTyped, Factor
  <2>4. k \in Made("seed")' /\ d \in Made("device")'
    BY <2>3 DEF Made
  <2> QED
    BY <2>1, <2>2, <2>4
<1> QED
  BY <1>1, <1>2

(* A call's step, but for what it leaves of the calls and the pages        *)
StepSound(b) ==
    /\ Sound /\ \A c \in Browsers : Relied(c) /\ kit'[c].status = kit[c].status
    /\ DeviceWell /\ ChoiceWell /\ CallersRelied

LEMMA StepSoundOf ==
  ASSUME FactorsInv, NEW b \in Browsers, kit[b].status # "out", UNCHANGED userVars,
         \/ Commits(b) \/ CommitFails(b) \/ Throws
         \/ \E k, what : Creates(b, k, what) /\ what \in {"device", "seed"}
         \/ \E f : Deletes(b, f) /\ f \in renewed \cup revoked
         \/ \E d, k \in Keys : EnablesMFA(b, d, k)
  PROVE  StepSound(b)
<1>0. FactorsTypeOK /\ KitsFit /\ CallsFit /\ ChosenFit /\ UNCHANGED <<noted, renewed, revoked>>
      /\ renewed \subseteq renewed' /\ revoked \subseteq revoked'
  BY DEF FactorsInv, userVars
<1>d. device \in [Browsers -> Key]
  BY <1>0, FactorsParts DEF KitTyped
<1>c. ChoiceWell
  BY <1>0, LeftWell
<1>t. ASSUME Sound, \A c \in Browsers : Relied(c) /\ kit'[c].status = kit[c].status, DeviceWell
      PROVE  StepSound(b)
  BY <1>0, <1>c, <1>t, Relying DEF StepSound
<1>1. CASE Commits(b) \/ CommitFails(b)
  BY <1>0, <1>1, <1>t, CommitsSound, LeftWell
<1>2. CASE Throws
  <2>1. UNCHANGED kitVars /\ UNCHANGED device
    BY <1>2 DEF Throws, kitVars
  <2> QED
    BY <1>0, <1>t, <2>1, NothingSound, LeftWell
<1>3. ASSUME NEW k, NEW what \in {"device", "seed"}, Creates(b, k, what) PROVE StepSound(b)
  BY <1>0, <1>3, <1>t, OperationsSound, KeyMade, LeftWell
<1>4. ASSUME NEW f \in renewed \cup revoked, Deletes(b, f) PROVE StepSound(b)
  <2>1. UNCHANGED device
    BY <1>4 DEF Deletes
  <2> QED
    BY <1>0, <1>4, <1>t, <2>1, OperationsSound, LeftWell
<1>5. ASSUME NEW d \in Keys, NEW k \in Keys, EnablesMFA(b, d, k) PROVE StepSound(b)
  <2>1. device' = [device EXCEPT ![b] = d] /\ d \in Made("device")'
    BY <1>0, <1>5, KeyMade
  <2>2. DeviceWell
    BY <1>d, <2>1 DEF DeviceWell
  <2> QED
    BY <1>0, <1>5, <1>t, <2>2, OperationsSound
<1> QED
  BY <1>1, <1>2, <1>3, <1>4, <1>5

LEMMA StepFits ==
  ASSUME FactorsInv, FactorsTypeOK', NEW s \in Places, Step(s)
  PROVE  Sound /\ FactorsInv'
<1> DEFINE b == jobs[s].browser
<1>0. /\ FactorsTypeOK /\ KitsFit /\ CallsFit /\ KitTyped /\ PageTyped /\ jobs \in [Places -> Job]
      /\ kit \in [Browsers -> Kit]
      /\ page \in [Browsers -> {"login", "recovery", "files", "security", "wizard"}]
  BY FactorsParts DEF FactorsInv, KitTyped, PageTyped
<1>b. b \in Browsers /\ kit[b].status # "out" /\ CallFits(jobs[s]) /\ jobs[s] # NoCall
  BY <1>0, StepsOfCalls, CallsParts DEF CallFits
<1>u. UNCHANGED userVars
  BY DEF Step, Settle, EnableMFA, CommitMFA, DeleteRecovery, CreateRecovery, CommitRecovery,
     DeleteDevice, CommitRevoked, InputPhrase, CreateDevice, KeepDevice, CommitDevice
<1>t. ASSUME StepSound(b), CallsFit', ShownWell, ListWell, PageWell PROVE Sound /\ FactorsInv'
  BY <1>t, StepKeeps DEF StepSound
<1>e. StepSound(b) /\ Ends(s) => CallsFit'
  BY <1>0, CallsNext DEF StepSound
<1>g. ASSUME StepSound(b), NEW at, NEW key, GoesOn(s, at, key),
             jobs[s].name \in {"regenerate", "revoke"} => at # "delete",
             jobs[s].name \in {"enable", "regenerate"} /\ at = "commit" =>
                 key \in Made("seed")' /\ key \in kit'[b].view \cup renewed',
             jobs[s].name = "recover" /\ at = "keep" => key \in Made("device")'
      PROVE  CallsFit'
  <2>2. kit'[b].status # "out"
    BY <1>b, <1>g DEF StepSound
  <2>3. \A job : job.name = jobs[s].name /\ job.at = at /\ job.browser = b /\ job.key = key
                => CallFitsNext(job)
    BY <1>b, <1>g, <2>2 DEF CallFitsNext
  <2> QED
    BY <1>0, <1>g, <2>3, CallsGone DEF StepSound
<1>p. StepSound(b) /\ UNCHANGED page => PageWell
  BY LeftWell DEF StepSound
<1>l. \A new : list' \in {list, [list EXCEPT ![b].revoking = new]} => ListWell
  BY <1>0, <1>b DEF PageTyped, List, ListWell
<1>m. ASSUME Mounts(b)
      PROVE  /\ UNCHANGED kind \/ UNCHANGED mfa => ListWell
             /\ UNCHANGED wizard => ShownWell
             /\ \A c \in Browsers : section'[c].phrase \in {NoKey, section[c].phrase}
  BY <1>b, <1>m, PagesWell, ShownKept
<1>w. ASSUME NEW heard, EnableFailed(b, heard), Mounts(b) PROVE ShownWell
  BY <1>b, <1>w, PagesWell
<1>x. ASSUME NEW heard, RegenerateFailed(b, heard), UNCHANGED wizard PROVE ShownWell
  BY <1>b, <1>x, PagesWell
<1> HIDE DEF b
<1>1. CASE Settle(s)
  <2>1. UNCHANGED page /\ Mounts(b) /\ (Commits(b) \/ CommitFails(b)) /\ UNCHANGED kind
    BY <1>1 DEF Settle, b, Commits, CommitFails, kitVars
  <2>2. StepSound(b)
    BY <1>b, <1>u, <2>1, StepSoundOf
  <2>3. CallsFit'
    BY <1>1, <1>e, <1>g, <2>2 DEF Settle, b
  <2>4. ShownWell
    BY <1>1, <1>m, <1>w, <2>1 DEF Settle, b
  <2>5. ListWell
    BY <1>m, <2>1
  <2> QED
    BY <1>p, <1>t, <2>1, <2>2, <2>3, <2>4, <2>5
<1>2. CASE EnableMFA(s)
  <2>1. /\ UNCHANGED page /\ Mounts(b) /\ (UNCHANGED kind \/ UNCHANGED mfa)
        /\ Throws \/ \E d, k \in Keys : EnablesMFA(b, d, k) /\ GoesOn(s, "commit", k)
    BY <1>2 DEF EnableMFA, b, Throws, kitVars
  <2>2. StepSound(b)
    BY <1>b, <1>u, <2>1, StepSoundOf
  <2>3. CallsFit'
    <3>1. CASE Ends(s)
      BY <1>e, <2>2, <3>1
    <3>2. ASSUME NEW d \in Keys, NEW k \in Keys, EnablesMFA(b, d, k), GoesOn(s, "commit", k)
          PROVE  CallsFit'
      <4>1. k \in Made("seed")' /\ k \in kit'[b].view /\ jobs[s].name = "enable"
        BY <1>0, <1>2, <1>b, <3>2, KeyMade DEF EnableMFA, Is
      <4> QED
        BY <1>g, <2>2, <3>2, <4>1
    <3> QED
      BY <1>2, <3>1, <3>2 DEF EnableMFA, b
  <2>4. ShownWell
    BY <1>2, <1>m, <1>w, <2>1 DEF EnableMFA, b
  <2>5. ListWell
    BY <1>m, <2>1
  <2> QED
    BY <1>p, <1>t, <2>1, <2>2, <2>3, <2>4, <2>5
<1>3. CASE CommitMFA(s)
  <2>1. UNCHANGED page /\ Mounts(b) /\ (Commits(b) \/ CommitFails(b)) /\ Ends(s)
        /\ UNCHANGED kind
    BY <1>3 DEF CommitMFA, b, Commits, CommitFails, kitVars
  <2>2. StepSound(b)
    BY <1>b, <1>u, <2>1, StepSoundOf
  <2>4. ShownWell
    <3>1. CASE EnableFailed(b, jobs[s].heard)
      BY <1>w, <2>1, <3>1
    <3>2. CASE wizard' = wizard
      BY <1>m, <2>1, <3>2
    <3>3. CASE Commits(b) /\ wizard' = [wizard EXCEPT ![b] = [wizard[b] EXCEPT
                                              !.phrase = jobs[s].key, !.loading = FALSE]]
      <4>1. jobs[s].key \in Made("seed") /\ jobs[s].key \in kit[b].view \cup renewed
        BY <1>3, <1>b DEF CommitMFA, Is, CallFits, b
      <4>2. jobs[s].key \in Made("seed")' /\ committed' = kit[b].view /\ renewed' = renewed
        BY <1>u, <3>3, <4>1 DEF Commits, Made, userVars
      <4>3. GoodNext(jobs[s].key)
        BY <4>1, <4>2 DEF GoodNext
      <4>4. wizard'[b].phrase = jobs[s].key /\ \A c \in Browsers \ {b} : wizard'[c] = wizard[c]
        BY <1>0, <1>b, <3>3 DEF PageTyped, Wizard
      <4> QED
        <5>1. \A c \in Browsers : Good(wizard[c].phrase) /\ Good(section[c].phrase)
          BY ChosenGood DEF FactorsInv
        <5>2. \A c \in Browsers : Good(section'[c].phrase)
          BY <1>m, <2>1, <5>1 DEF Good
        <5> QED
          BY <4>3, <4>4, <5>1, <5>2 DEF ShownWell
    <3> QED
      BY <1>3, <3>1, <3>2, <3>3 DEF CommitMFA, b
  <2>5. ListWell
    BY <1>m, <2>1
  <2> QED
    BY <1>e, <1>p, <1>t, <2>1, <2>2, <2>4, <2>5
<1>4. CASE DeleteRecovery(s)
  <2>1. UNCHANGED <<page, wizard, list>> /\ jobs[s].name = "regenerate" /\ jobs[s].key \in renewed
        /\ (Throws \/ Deletes(b, jobs[s].key))
    BY <1>4, <1>b DEF DeleteRecovery, Is, CallFits, b
  <2>2. StepSound(b)
    BY <1>b, <1>u, <2>1, StepSoundOf
  <2>3. CallsFit'
    BY <1>4, <1>e, <1>g, <2>1, <2>2 DEF DeleteRecovery, b
  <2>4. ShownWell
    BY <1>4, <1>x, <2>1, LeftWell DEF DeleteRecovery, b
  <2> QED
    BY <1>p, <1>t, <2>1, <2>2, <2>3, <2>4, LeftWell
<1>5. CASE CreateRecovery(s)
  <2>1. UNCHANGED <<page, wizard, list>> /\ jobs[s].name = "regenerate"
        /\ (Throws \/ \E k \in Keys : Creates(b, k, "seed"))
    BY <1>5 DEF CreateRecovery, Is, b
  <2>2. StepSound(b)
    BY <1>b, <1>u, <2>1, StepSoundOf
  <2>3. CallsFit'
    <3>1. ASSUME NEW k \in Keys, Creates(b, k, "seed"), GoesOn(s, "commit", k) PROVE CallsFit'
      <4>1. k \in Made("seed")' /\ k \in kit'[b].view
        BY <1>0, <1>b, <3>1, KeyMade
      <4> QED
        BY <1>g, <2>1, <2>2, <3>1, <4>1
    <3> QED
      BY <1>5, <1>e, <2>2, <3>1 DEF CreateRecovery, b
  <2>4. ShownWell
    BY <1>5, <1>x, <2>1, LeftWell DEF CreateRecovery, b
  <2> QED
    BY <1>p, <1>t, <2>1, <2>2, <2>3, <2>4, LeftWell
<1>6. CASE CommitRecovery(s)
  <2>1. UNCHANGED <<page, wizard, list>> /\ (Commits(b) \/ CommitFails(b)) /\ Ends(s)
    BY <1>6 DEF CommitRecovery, b
  <2>2. StepSound(b)
    BY <1>b, <1>u, <2>1, StepSoundOf
  <2>4. ShownWell
    <3>1. CASE RegenerateFailed(b, jobs[s].heard)
      BY <1>x, <2>1, <3>1
    <3>2. CASE section' = section
      BY <2>1, <3>2, LeftWell
    <3>3. CASE Commits(b) /\ section' = [section EXCEPT ![b] = [section[b] EXCEPT
                                              !.phrase = jobs[s].key, !.busy = FALSE]]
      <4>1. jobs[s].key \in Made("seed") /\ jobs[s].key \in kit[b].view \cup renewed
        BY <1>6, <1>b DEF CommitRecovery, Is, CallFits, b
      <4>2. jobs[s].key \in Made("seed")' /\ committed' = kit[b].view /\ renewed' = renewed
        BY <1>u, <3>3, <4>1 DEF Commits, Made, userVars
      <4>3. GoodNext(jobs[s].key)
        BY <4>1, <4>2 DEF GoodNext
      <4>4. section'[b].phrase = jobs[s].key /\ \A c \in Browsers \ {b} : section'[c] = section[c]
        BY <1>0, <1>b, <3>3 DEF PageTyped, Section
      <4> QED
        BY <2>1, <4>3, <4>4, ChosenGood DEF FactorsInv, ShownWell
    <3> QED
      BY <1>6, <3>1, <3>2, <3>3 DEF CommitRecovery, b
  <2> QED
    BY <1>e, <1>p, <1>t, <2>1, <2>2, <2>4, LeftWell
<1>7. CASE DeleteDevice(s)
  <2>1. UNCHANGED <<page, wizard, section>> /\ jobs[s].name = "revoke" /\ jobs[s].key \in revoked
        /\ (Throws \/ Deletes(b, jobs[s].key))
    BY <1>7, <1>b DEF DeleteDevice, Is, CallFits, b
  <2>2. StepSound(b)
    BY <1>b, <1>u, <2>1, StepSoundOf
  <2>3. CallsFit'
    BY <1>7, <1>e, <1>g, <2>1, <2>2 DEF DeleteDevice, b
  <2>4. ListWell
    BY <1>7, <1>l DEF DeleteDevice, b
  <2> QED
    BY <1>p, <1>t, <2>1, <2>2, <2>3, <2>4, LeftWell
<1>8. CASE CommitRevoked(s)
  <2>1. UNCHANGED <<page, wizard, section>> /\ (Commits(b) \/ CommitFails(b)) /\ Ends(s)
    BY <1>8 DEF CommitRevoked, b
  <2>2. StepSound(b)
    BY <1>b, <1>u, <2>1, StepSoundOf
  <2>4. ListWell
    BY <1>8, <1>l DEF CommitRevoked, b
  <2> QED
    BY <1>e, <1>p, <1>t, <2>1, <2>2, <2>4, LeftWell
<1>9. CASE InputPhrase(s)
  <2>1. UNCHANGED <<committed, version, kind, device, wizard, section, list>>
        /\ jobs[s].name = "recover"
    BY <1>9 DEF InputPhrase, Is
  <2>2. CASE UNCHANGED <<kit, page>> /\ Ends(s)
    <3>1. StepSound(b)
      BY <1>b, <1>u, <2>1, <2>2, StepSoundOf DEF Throws, kitVars
    <3> QED
      BY <1>e, <1>p, <1>t, <2>1, <2>2, <3>1, LeftWell
  <2>3. CASE /\ kit' = [kit EXCEPT ![b] = [kit[b] EXCEPT !.status = "in", !.active = jobs[s].key]]
             /\ page' = [page EXCEPT ![b] = "login"] /\ GoesOn(s, "create", NoKey)
    <3>1. /\ \A c \in Browsers \ {b} : kit'[c] = kit[c]
          /\ kit'[b].status = "in" /\ kit'[b].base = kit[b].base /\ kit'[b].view = kit[b].view
      BY <1>0, <1>b, <2>3 DEF Kit
    <3>2. Sound
      <4>1. KindsGrow /\ UNCHANGED <<renewed, revoked>>
        BY <1>u, <2>1 DEF KindsGrow, Made, userVars
      <4> QED
        BY <1>0, <1>b, <2>1, <3>1, <4>1, ViewSound
    <3>3. \A c \in Browsers : Relied(c)
      BY <1>b, <3>1 DEF Relied
    <3>4. CallsFit'
      <4>1. \A job : job.name = "recover" /\ job.at = "create" /\ job.browser = b /\ job.key = NoKey
                    => CallFitsNext(job)
        BY <1>b, <3>1 DEF CallFitsNext
      <4> QED
        BY <1>0, <2>1, <2>3, <3>2, <3>3, <4>1, CallsGone, Relying DEF b
    <3>5. PageWell
      <4>1. page'[b] = "login" /\ \A c \in Browsers \ {b} : page'[c] = page[c]
        BY <1>0, <1>b, <2>3
      <4> QED
        BY <1>0, <3>1, <4>1 DEF PageWell, KitsFit
    <3> QED
      BY <1>u, <2>1, <3>2, <3>4, <3>5, LeftWell, StepKeeps DEF userVars
  <2> QED
    BY <1>9, <2>2, <2>3 DEF InputPhrase, b
<1>10. CASE CreateDevice(s)
  <2>1. UNCHANGED <<page, wizard, section, list>> /\ jobs[s].name = "recover"
        /\ (Throws \/ \E k \in Keys : Creates(b, k, "device"))
    BY <1>10 DEF CreateDevice, Is, pageVars, b
  <2>2. StepSound(b)
    BY <1>b, <1>u, <2>1, StepSoundOf
  <2>3. CallsFit'
    <3>1. ASSUME NEW k \in Keys, Creates(b, k, "device"), GoesOn(s, "keep", k) PROVE CallsFit'
      <4>1. k \in Made("device")'
        BY <1>0, <1>b, <3>1, KeyMade
      <4> QED
        BY <1>g, <2>1, <2>2, <3>1, <4>1
    <3> QED
      BY <1>10, <1>e, <2>2, <3>1 DEF CreateDevice, b
  <2> QED
    BY <1>p, <1>t, <2>1, <2>2, <2>3, LeftWell
<1>11. CASE KeepDevice(s)
  <2>1. /\ UNCHANGED <<committed, version, kind, kit, page, wizard, section, list>>
        /\ jobs[s].name = "recover" /\ jobs[s].key \in Made("device")
    BY <1>11, <1>b DEF KeepDevice, Is, CallFits, pageVars, b
  <2>2. Made("device")' = Made("device") /\ KindsGrow /\ UNCHANGED <<noted, renewed, revoked>>
    BY <1>u, <2>1 DEF Made, KindsGrow, userVars
  <2>3. DeviceWell
    <3>1. device' \in {device, [device EXCEPT ![b] = jobs[s].key]} /\ device \in [Browsers -> Key]
      BY <1>0, <1>11 DEF KeepDevice, KitTyped, b
    <3> QED
      BY <2>1, <2>2, <3>1 DEF DeviceWell
  <2>4. Sound
    BY <1>0, <1>b, <2>1, <2>2, ViewSound
  <2>5. StepSound(b)
    <3>1. \A c \in Browsers : Relied(c) /\ kit'[c].status = kit[c].status
      BY <2>1 DEF Relied
    <3> QED
      BY <1>0, <2>2, <2>3, <2>4, <3>1, LeftWell, Relying DEF StepSound
  <2>6. CallsFit'
    BY <1>11, <1>e, <1>g, <2>1, <2>5 DEF KeepDevice
  <2> QED
    BY <1>p, <1>t, <2>1, <2>5, <2>6, LeftWell
<1>12. CASE CommitDevice(s)
  <2>1. UNCHANGED <<wizard, section, list>> /\ (Commits(b) \/ CommitFails(b)) /\ Ends(s)
    BY <1>12 DEF CommitDevice, b
  <2>2. StepSound(b)
    BY <1>b, <1>u, <2>1, StepSoundOf
  <2>3. \A c \in Browsers \ {b} : page'[c] = page[c]
    BY <1>0, <1>12 DEF CommitDevice, b
  <2>4. PageWell
    BY <1>0, <1>b, <2>2, <2>3 DEF PageWell, KitsFit, StepSound
  <2> QED
    BY <1>e, <1>t, <2>1, <2>2, <2>4, LeftWell
<1> QED
  BY <1>1, <1>2, <1>3, <1>4, <1>5, <1>6, <1>7, <1>8, <1>9, <1>10, <1>11, <1>12 DEF Step

-----------------------------------------------------------------------------
LEMMA FactorsStart == FactorsInit => FactorsInv
<1> SUFFICES ASSUME FactorsInit PROVE FactorsInv
  OBVIOUS
<1>1. FactorsTypeOK
  <2>1. KitTyped
    BY NewTyped DEF FactorsInit, KitTyped, Key, Factor
  <2>2. PageTyped
    BY NewTyped DEF FactorsInit, PageTyped
  <2> QED
    BY <2>1, <2>2, NewTyped, FactorsParts DEF FactorsInit, UserTyped, Key
<1>2. KitsFit /\ CallsFit
  BY FactorsAssumption DEF FactorsInit, KitsFit, CallsFit, Out
<1>3. ChosenFit /\ ShownWritten /\ PhraseWorks
  BY DEF FactorsInit, ChosenFit, ShownWritten, PhraseWorks, NewWizard, NewSection, NewList, Factor
<1> QED
  BY <1>1, <1>2, <1>3 DEF FactorsInv

LEMMA FactorsSteps ==
  ASSUME FactorsInv, [FactorsNext]_factorsVars
  PROVE  FactorsInv' /\ (Sound \/ UNCHANGED factorsVars)
<1>1. FactorsTypeOK'
  BY FactorsTypes DEF FactorsInv
<1>2. CASE UNCHANGED factorsVars
  BY <1>2 DEF FactorsInv, FactorsTypeOK, KitsFit, CallsFit, ChosenFit, ShownWritten, PhraseWorks,
     Excused, Made, factorsVars, kitVars, pageVars, userVars
<1>3. CASE FactorsNext
  BY <1>1, <1>3, ComingFits, WizardFits, SectionFits, StepFits DEF FactorsNext
<1> QED
  BY <1>2, <1>3

(* What the pages and the calls hold fits the factors Core Kit has,        *)
(* whichever browsers enable, renew, revoke and recover, and fail.         *)
THEOREM FactorsInvariant == FactorsSpec => []FactorsInv
<1>1. FactorsInv /\ [FactorsNext]_factorsVars => FactorsInv'
  BY FactorsSteps
<1> QED
  BY <1>1, FactorsStart, PTL DEF FactorsSpec

(* The phrase that is written down opens the account until a new one is    *)
(* asked for: a browser that may write metadata has every factor nobody    *)
(* gave up, and a phrase is shown once its factor is written.              *)
THEOREM PhraseStillWorks == FactorsSpec => []PhraseWorks
<1>1. FactorsInv => PhraseWorks
  BY DEF FactorsInv
<1> QED
  BY <1>1, FactorsInvariant, PTL

(* No commit of another browser drops the factor of a device that was not  *)
(* revoked: what it wrote from would have to be older metadata.            *)
THEOREM DevicesStay == FactorsSpec => DeviceStays
<1> DEFINE Remains == \A b \in Browsers :
                       device[b] \in committed \ revoked /\ device'[b] = device[b]
                       => device[b] \in committed'
<1>1. FactorsInv /\ [FactorsNext]_factorsVars => [Remains]_factorsVars
  <2> SUFFICES ASSUME FactorsInv, Sound PROVE Remains
    BY FactorsSteps
  <2>1. \A b \in Browsers : device[b] \in committed \ revoked => device[b] \notin Excused
                                                               \/ device[b] = NoKey
    BY MadeApart DEF FactorsInv, ChosenFit, Excused, Made
  <2>2. NoKey \notin Factor /\ committed \subseteq Factor
    BY FactorsAssumption DEF NoKey, Factor, Keys, FactorsInv, FactorsTypeOK
  <2> QED
    BY <2>1, <2>2 DEF Sound
<1> QED
  BY <1>1, FactorsInvariant, PTL DEF FactorsSpec, DeviceStays
=============================================================================
